-------------------------- MODULE ShardedMapProofs --------------------------
(***************************************************************************)
(* Proofs about ShardedMap for every set of keys, hash, table size and set   *)
(* of readers: one writer owns the slots, the table is a map, and a get of   *)
(* a key whose binding stays finds it.                                       *)
(*                                                                           *)
(* The inductive invariant ShardInv says of every table that a key is in     *)
(* one slot, which its probe reaches; of the writer, which slot it works     *)
(* on and what is in it; of a resize, that the two tables together bind      *)
(* what the map binds; and of a get of a stable key, that it is not yet      *)
(* past the key's slot.                                                      *)
(***************************************************************************)
EXTENDS ShardedMap, IndexArithmetic, FiniteSetTheorems, TLAPS

-----------------------------------------------------------------------------
(* A table: slots of size Size(t) *)

\* Slot s holds key k.
FullKey(tab, s, k) == tab[s].state = "Full" /\ tab[s].key = k

\* Slot s binds key k to value v.
Entry(tab, s, k, v) == FullKey(tab, s, k) /\ tab[s].value = v

\* A probe for k gets to offset n.
Reaches(tab, k, t, n) ==
  n \in SlotsOf(t) /\ \A m \in 0..(n - 1) : tab[Nth(k, t, m)].state # "Empty"

\* A probe for k gets to slot s.
ReachesSlot(tab, k, t, s) == \E n \in SlotsOf(t) : Nth(k, t, n) = s /\ Reaches(tab, k, t, n)

\* Every key is where its probe finds it, once.
GoodTable(tab, t) ==
  /\ tab \in [SlotsOf(t) -> SlotType]
  /\ \A s \in SlotsOf(t) : tab[s].state = "Full" => tab[s].key \in Keys /\ ReachesSlot(tab, tab[s].key, t, s)
  /\ \A s, u \in SlotsOf(t) :
       tab[s].state = "Full" /\ tab[u].state = "Full" /\ tab[s].key = tab[u].key => s = u

Now == table[current]

-----------------------------------------------------------------------------
(* The inductive invariant *)

\* Values are in Full slots, but for the slot the writer works on and the slots already moved.
ValuesPlaced ==
  \A s \in SlotsOf(current) :
    /\ Now[s].state # "Full" => Now[s].value = Null \/ (wpc = "full" /\ s = wslot)
    /\ Now[s].state = "Full" => \/ Now[s].value # Null
                                \/ wpc = "tombstone" /\ s = wslot
                                \/ wpc = "resize" /\ s < moved
    /\ wpc = "resize" /\ s < moved => Now[s].value = Null

\* Where the writer stands.
WriterPlaced ==
  /\ wpc # "idle" => wkey \in Keys
  /\ wpc \in {"insert", "key", "value", "full", "resize"} => wval \in Values
  /\ wpc \in {"key", "value", "full"} =>
       /\ wslot \in SlotsOf(current) /\ Now[wslot].state = "Reserved"
       /\ ReachesSlot(Now, wkey, current, wslot)
       /\ \A s \in SlotsOf(current) : ~FullKey(Now, s, wkey)
  /\ wpc \in {"value", "full"} => Now[wslot].key = wkey
  /\ wpc = "full" => Now[wslot].value = wval
  /\ wpc = "tombstone" =>
       wslot \in SlotsOf(current) /\ Entry(Now, wslot, wkey, Null) /\ map[wkey] = Null

\* The new table of a resize holds what was moved, and no key that is still to be moved.
FreshFull == {u \in SlotsOf(current + 1) : fresh[u].state = "Full"}
FreshPlaced ==
  wpc = "resize" =>
    /\ current < MaxTables /\ moved \in 0..Size(current)
    /\ GoodTable(fresh, current + 1)
    /\ \A u \in SlotsOf(current + 1) :
         fresh[u] = Free \/ (fresh[u].state = "Full" /\ fresh[u].value # Null)
    /\ Cardinality(FreshFull) <= moved
    /\ \A u \in SlotsOf(current + 1), s \in SlotsOf(current) :
         fresh[u].state = "Full" /\ Now[s].state = "Full" /\ moved <= s => fresh[u].key # Now[s].key

\* The bindings are the entries of the table and, during a resize, of the new one.
Bound(k, v) ==
  \/ \E s \in SlotsOf(current) : Entry(Now, s, k, v)
  \/ wpc = "resize" /\ \E u \in SlotsOf(current + 1) : Entry(fresh, u, k, v)
MapIsBound == \A k \in Keys, v \in Values : map[k] = v <=> Bound(k, v)

Bindings == {k \in Keys : map[k] # Null}
LenCounts == len = Cardinality(Bindings) + (IF wpc = "tombstone" THEN 1 ELSE 0)

\* Where a get of a key with a stable binding stands: not past the key's slot.
ReaderOK(r) ==
  LET k == rkey[r]
  IN  /\ k \in Keys /\ rtable[r] = current /\ wpc # "resize" /\ map[k] = stable[r]
      /\ rpc[r] \in {"state", "key"} =>
           \A m \in 0..(rcount[r] - 1) : ~FullKey(Now, Nth(k, current, m), k)
      /\ rpc[r] = "key" => FullKey(Now, rslot[r], k) \/ Now[rslot[r]].key # k
      /\ rpc[r] = "value" => FullKey(Now, rslot[r], k)
      /\ rpc[r] = "done" => result[r] = stable[r]

IsGets == rslot = [r \in MapReaders |-> rslot[r]] /\ rcount = [r \in MapReaders |-> rcount[r]]
ReadersPlaced ==
  IsGets /\ \A r \in MapReaders :
    /\ rpc[r] \in {"state", "key", "value"} =>
         rcount[r] \in SlotsOf(rtable[r]) /\ rslot[r] = Nth(rkey[r], rtable[r], rcount[r])
    /\ stable[r] # Null => ReaderOK(r)

\* Every table has its slots.
IsTables == table = [t \in Tables |-> table[t]]

WriterInv == GoodTable(Now, current) /\ ValuesPlaced /\ WriterPlaced /\ FreshPlaced /\ MapIsBound
ShardInv == OwnershipInv /\ IsTables /\ WriterInv /\ LenCounts /\ ReadersPlaced

-----------------------------------------------------------------------------
(* Sizes and probes *)

IsSizes(f, n) == f = [t \in 1..n |-> IF t = 1 THEN Cap ELSE 2 * f[t - 1]]

\* Sizes that double exist up to every number.
LEMMA SizesExist ==
  ASSUME NEW n \in Nat
  PROVE  \E f : IsSizes(f, n)
<1> DEFINE S == {m \in Nat : \E f : IsSizes(f, m)}
<1>1. 0 \in S
  <2>1. IsSizes([t \in 1..0 |-> 0], 0)
    BY DEF IsSizes
  <2> QED BY <2>1
<1>2. ASSUME NEW m \in Nat, m \in S PROVE m + 1 \in S
  <2>1. PICK f : IsSizes(f, m)
    BY <1>2
  <2> DEFINE last == IF m + 1 = 1 THEN Cap ELSE 2 * f[m]
             g == [t \in 1..(m + 1) |-> IF t = m + 1 THEN last ELSE f[t]]
  <2>2. ASSUME NEW t \in 1..(m + 1) PROVE g[t] = IF t = 1 THEN Cap ELSE 2 * g[t - 1]
    <3>1. CASE t = m + 1
      <4>1. g[t] = last
        BY <3>1
      <4>2. CASE m = 0
        BY <3>1, <4>1, <4>2
      <4>3. CASE m # 0
        <5>1. g[t - 1] = f[m]
          BY <3>1, <4>3
        <5> QED BY <3>1, <4>1, <4>3, <5>1
      <4> QED BY <4>2, <4>3
    <3>2. CASE t # m + 1
      <4>1. t \in 1..m /\ g[t] = f[t]
        BY <3>2
      <4>2. f[t] = IF t = 1 THEN Cap ELSE 2 * f[t - 1]
        BY <2>1, <4>1 DEF IsSizes
      <4>3. t # 1 => g[t - 1] = f[t - 1]
        BY <4>1
      <4> HIDE DEF g
      <4> QED BY <4>1, <4>2, <4>3
    <3> QED BY <3>1, <3>2
  <2>3. g = [t \in 1..(m + 1) |-> g[t]]
    OBVIOUS
  <2> HIDE DEF g
  <2>4. IsSizes(g, m + 1)
    BY <2>2, <2>3 DEF IsSizes
  <2> QED BY <2>4
<1> HIDE DEF S
<1>3. n \in S
  BY <1>1, <1>2, SetInduction
<1> QED BY <1>3 DEF S

\* The size of a table: the first is given, each next one is twice the one before.
LEMMA SizeStep ==
  /\ Size(1) = Cap
  /\ \A t \in Tables : t + 1 \in Tables => Size(t + 1) = 2 * Size(t)
<1>1. IsSizes(Sizes, MaxTables)
  <2>1. \E f : IsSizes(f, MaxTables)
    BY SizesExist, ShardedMapAssumption
  <2>2. \E f : f = [t \in Tables |-> IF t = 1 THEN Cap ELSE 2 * f[t - 1]]
    BY <2>1, Zenon DEF IsSizes, Tables
  <2>3. Sizes = [t \in Tables |-> IF t = 1 THEN Cap ELSE 2 * Sizes[t - 1]]
    BY <2>2, Zenon DEF Sizes
  <2> QED BY <2>3, Zenon DEF IsSizes, Tables
<1>2. \A t \in Tables : Sizes[t] = IF t = 1 THEN Cap ELSE 2 * Sizes[t - 1]
  <2> HIDE DEF Sizes
  <2> QED BY <1>1 DEF IsSizes, Tables
<1>3. 1 \in Tables
  BY ShardedMapAssumption DEF Tables
<1>4. ASSUME NEW t \in Tables, t + 1 \in Tables PROVE Size(t + 1) = 2 * Size(t)
  <2>1. t + 1 # 1 /\ (t + 1) - 1 = t
    BY DEF Tables
  <2>2. Sizes[t + 1] = IF t + 1 = 1 THEN Cap ELSE 2 * Sizes[(t + 1) - 1]
    BY <1>2, <1>4
  <2> QED BY <2>1, <2>2 DEF Size
<1> QED BY <1>2, <1>3, <1>4 DEF Size

\* Tables have slots.
LEMMA SizeType == \A t \in Tables : Size(t) \in Nat \ {0}
<1> DEFINE S == {n \in Nat : n + 1 \in Tables => Size(n + 1) \in Nat \ {0}}
<1>1. 0 \in S
  BY SizeStep, ShardedMapAssumption
<1>2. ASSUME NEW n \in Nat, n \in S PROVE n + 1 \in S
  <2> SUFFICES ASSUME (n + 1) + 1 \in Tables PROVE Size((n + 1) + 1) \in Nat \ {0}
    OBVIOUS
  <2>1. n + 1 \in Tables
    BY ShardedMapAssumption DEF Tables
  <2>2. Size((n + 1) + 1) = 2 * Size(n + 1)
    BY <2>1, SizeStep
  <2>3. Size(n + 1) \in Nat \ {0}
    BY <1>2, <2>1
  <2> QED BY <2>2, <2>3
<1> HIDE DEF S
<1>3. \A n \in Nat : n \in S
  BY <1>1, <1>2, SetInduction
<1>4. ASSUME NEW t \in Tables PROVE Size(t) \in Nat \ {0}
  <2>1. t - 1 \in Nat /\ (t - 1) + 1 = t
    BY ShardedMapAssumption DEF Tables
  <2>2. (t - 1) + 1 \in Tables => Size((t - 1) + 1) \in Nat \ {0}
    BY <1>3, <2>1 DEF S
  <2> QED BY <2>1, <2>2
<1> QED BY <1>4

\* A later table is not smaller.
LEMMA SizeGrows == \A t, u \in Tables : t <= u => Size(t) <= Size(u)
<1> DEFINE S == {d \in Nat : \A t \in Tables : t + d \in Tables => Size(t) <= Size(t + d)}
<1>1. 0 \in S
  <2>1. ASSUME NEW t \in Tables PROVE Size(t) <= Size(t + 0)
    <3>1. t + 0 = t
      BY ShardedMapAssumption DEF Tables
    <3>2. Size(t) \in Nat
      BY SizeType
    <3> QED BY <3>1, <3>2
  <2> QED BY <2>1
<1>2. ASSUME NEW d \in Nat, d \in S PROVE d + 1 \in S
  <2> SUFFICES ASSUME NEW t \in Tables, t + (d + 1) \in Tables PROVE Size(t) <= Size(t + (d + 1))
    OBVIOUS
  <2>1. t + d \in Tables /\ t + (d + 1) = (t + d) + 1
    BY ShardedMapAssumption DEF Tables
  <2>2. Size((t + d) + 1) = 2 * Size(t + d)
    BY <2>1, SizeStep
  <2>3. Size(t) <= Size(t + d) /\ Size(t) \in Nat /\ Size(t + d) \in Nat
    BY <1>2, <2>1, SizeType
  <2>4. Size(t) <= Size((t + d) + 1)
    BY <2>2, <2>3
  <2> QED BY <2>1, <2>4
<1> HIDE DEF S
<1>3. \A d \in Nat : d \in S
  BY <1>1, <1>2, SetInduction
<1>4. ASSUME NEW t \in Tables, NEW u \in Tables, t <= u PROVE Size(t) <= Size(u)
  <2>1. u - t \in Nat /\ t + (u - t) = u
    BY <1>4, ShardedMapAssumption DEF Tables
  <2>2. t + (u - t) \in Tables => Size(t) <= Size(t + (u - t))
    BY <1>3, <2>1 DEF S
  <2> QED BY <2>1, <2>2
<1> QED BY <1>4

\* Slots are numbers, and finitely many.
LEMMA SlotsFinite ==
  ASSUME NEW t \in Tables
  PROVE  SlotsOf(t) \subseteq Nat /\ IsFiniteSet(SlotsOf(t)) /\ Cardinality(SlotsOf(t)) = Size(t)
<1>1. Size(t) \in Nat \ {0}
  BY SizeType
<1>2. SlotsOf(t) \subseteq Nat
  BY <1>1 DEF SlotsOf
<1>3. IsFiniteSet(0..(Size(t) - 1)) /\ Cardinality(0..(Size(t) - 1)) = Size(t)
  <2>1. 0 \in Int /\ Size(t) - 1 \in Int
    BY <1>1
  <2>2. Cardinality(0..(Size(t) - 1)) = IF 0 > Size(t) - 1 THEN 0 ELSE (Size(t) - 1) - 0 + 1
    BY <2>1, FS_Interval
  <2>3. IsFiniteSet(0..(Size(t) - 1))
    BY <2>1, FS_Interval
  <2> QED BY <1>1, <2>2, <2>3
<1> QED BY <1>2, <1>3 DEF SlotsOf

\* The offsets of a probe are slots, one after the other.
LEMMA NthSlot ==
  ASSUME NEW t \in Tables, NEW k \in Nat, NEW n \in Nat
  PROVE  /\ Nth(k, t, n) \in SlotsOf(t) /\ Nth(k, t, 0) = Home(k, t)
         /\ NextSlot(Nth(k, t, n), t) = Nth(k, t, n + 1)
<1> DEFINE z == Size(t)
           h == k % z
<1>1. z \in Nat \ {0}
  BY SizeType
<1> HIDE DEF z
<1>2. h \in 0..(z - 1)
  BY <1>1, DivMod
<1> HIDE DEF h
<1>3. (h + n) % z \in 0..(z - 1)
  <2>1. h + n \in Int
    BY <1>1, <1>2
  <2> QED BY <1>1, <2>1, DivMod
<1>4. (h + 0) % z = h
  <2>1. h + 0 = h
    BY <1>1, <1>2
  <2>2. h % z = h
    BY <1>1, <1>2, SmallMod
  <2> QED BY <2>1, <2>2
<1>5. (((h + n) % z) + 1) % z = (h + (n + 1)) % z
  <2>1. h + n \in Int /\ 1 \in Int /\ h + n + 1 = h + (n + 1)
    BY <1>1, <1>2
  <2>2. (((h + n) % z) + 1) % z = (h + n + 1) % z
    BY <1>1, <2>1, WrappedSum
  <2> QED BY <2>1, <2>2
<1> QED BY <1>3, <1>4, <1>5 DEF Nth, Home, NextSlot, SlotsOf, z, h

\* A probe gets round the whole table.
LEMMA NthOnto ==
  ASSUME NEW t \in Tables, NEW k \in Nat, NEW s \in SlotsOf(t)
  PROVE  \E n \in SlotsOf(t) : Nth(k, t, n) = s
<1> DEFINE z == Size(t)
           h == k % z
           n == (s - h) % z
<1>1. z \in Nat \ {0} /\ s \in 0..(z - 1)
  BY SizeType DEF SlotsOf
<1> HIDE DEF z
<1>2. h \in 0..(z - 1)
  BY <1>1, DivMod
<1> HIDE DEF h
<1>3. n \in 0..(z - 1)
  <2>1. s - h \in Int
    BY <1>1, <1>2
  <2> QED BY <1>1, <2>1, DivMod
<1>4. (h + n) % z = s
  <2>1. s - h \in Int /\ h \in Int /\ s - h + h = s
    BY <1>1, <1>2
  <2>2. (((s - h) % z) + h) % z = (s - h + h) % z
    BY <1>1, <2>1, WrappedSum
  <2>3. s % z = s
    BY <1>1, SmallMod
  <2>4. ((s - h) % z) + h = h + n
    BY <1>2, <1>3
  <2> QED BY <2>1, <2>2, <2>3, <2>4
<1> HIDE DEF n
<1>5. n \in SlotsOf(t) /\ Nth(k, t, n) = s
  BY <1>3, <1>4 DEF SlotsOf, Nth, Home, z, h
<1> QED BY <1>5

\* The probe ends at the first Empty slot, or after a full cycle.
LEMMA ProbeEnds ==
  ASSUME NEW t \in Tables, NEW k \in Nat, NEW tab
  PROVE  LET p == ProbeLength(tab, k, t)
         IN  /\ p \in 0..Size(t)
             /\ \A m \in 0..(p - 1) : tab[Nth(k, t, m)].state # "Empty"
             /\ p < Size(t) => p \in SlotsOf(t) /\ tab[Nth(k, t, p)].state = "Empty"
<1> DEFINE E == {n \in SlotsOf(t) : tab[Nth(k, t, n)].state = "Empty"}
           p == ProbeLength(tab, k, t)
<1>0. Size(t) \in Nat \ {0} /\ SlotsOf(t) = 0..(Size(t) - 1)
  BY SizeType DEF SlotsOf
<1>1. CASE E = {}
  <2>1. p = Size(t)
    BY <1>1 DEF ProbeLength
  <2>2. \A m \in 0..(Size(t) - 1) : tab[Nth(k, t, m)].state # "Empty"
    BY <1>0, <1>1
  <2> QED BY <1>0, <2>1, <2>2
<1>2. CASE E # {}
  <2>1. PICK n \in E : \A m \in E : n <= m
    <3>1. E \subseteq Nat
      BY <1>0
    <3> HIDE DEF E
    <3> QED BY <1>2, <3>1, LeastElement
  <2>2. n \in SlotsOf(t) /\ tab[Nth(k, t, n)].state = "Empty"
        /\ \A m \in 0..(n - 1) : tab[Nth(k, t, m)].state # "Empty"
    <3>1. n \in SlotsOf(t) /\ tab[Nth(k, t, n)].state = "Empty"
      BY <2>1
    <3>2. ASSUME NEW m \in 0..(n - 1), tab[Nth(k, t, m)].state = "Empty" PROVE FALSE
      <4>1. m \in SlotsOf(t) /\ ~(n <= m)
        BY <1>0, <3>1
      <4> QED BY <2>1, <3>2, <4>1
    <3> QED BY <3>1, <3>2
  <2>3. p = CHOOSE i \in SlotsOf(t) :
              /\ tab[Nth(k, t, i)].state = "Empty"
              /\ \A m \in 0..(i - 1) : tab[Nth(k, t, m)].state # "Empty"
    BY <2>2 DEF ProbeLength
  <2>4. p \in SlotsOf(t) /\ tab[Nth(k, t, p)].state = "Empty"
        /\ \A m \in 0..(p - 1) : tab[Nth(k, t, m)].state # "Empty"
    <3> HIDE DEF p
    <3> QED BY <2>2, <2>3
  <2> HIDE DEF p
  <2> QED BY <1>0, <2>4 DEF p
<1> QED BY <1>1, <1>2

\* A key in a table is where its probe meets it, and a probe that does not meet it shows that it
\* is not there.
LEMMA FoundThere ==
  ASSUME NEW t \in Tables, NEW tab, GoodTable(tab, t), NEW k \in Keys
  PROVE  /\ Hits(tab, k, t) # {} <=> \E s \in SlotsOf(t) : FullKey(tab, s, k)
         /\ \A s \in SlotsOf(t) : FullKey(tab, s, k) => Nth(k, t, First(Hits(tab, k, t))) = s
<1> DEFINE p == ProbeLength(tab, k, t)
           H == Hits(tab, k, t)
<1>1. k \in Nat
  BY ShardedMapAssumption
<1>2. Size(t) \in Nat \ {0} /\ SlotsOf(t) = 0..(Size(t) - 1)
  BY SizeType DEF SlotsOf
<1>3. /\ p \in 0..Size(t)
      /\ \A m \in 0..(p - 1) : tab[Nth(k, t, m)].state # "Empty"
      /\ p < Size(t) => p \in SlotsOf(t) /\ tab[Nth(k, t, p)].state = "Empty"
  BY <1>1, ProbeEnds
<1>4. H = {n \in 0..(p - 1) : FullKey(tab, Nth(k, t, n), k)}
  BY DEF Hits, FullKey
<1> HIDE DEF p, H
<1>5. ASSUME NEW s \in SlotsOf(t), FullKey(tab, s, k) PROVE \E n \in H : Nth(k, t, n) = s
  <2>1. PICK n \in SlotsOf(t) : Nth(k, t, n) = s /\ \A m \in 0..(n - 1) : tab[Nth(k, t, m)].state # "Empty"
    BY <1>5 DEF GoodTable, ReachesSlot, Reaches, FullKey
  <2>2. n < p
    <3> SUFFICES ASSUME p <= n PROVE FALSE
      BY <1>2, <1>3
    <3>1. p < Size(t)
      BY <1>2, <1>3
    <3>2. CASE p = n
      BY <1>3, <1>5, <2>1, <3>1, <3>2 DEF FullKey
    <3>3. CASE p < n
      <4>1. p \in 0..(n - 1)
        BY <1>2, <1>3, <3>3
      <4> QED BY <1>3, <2>1, <3>1, <4>1
    <3> QED BY <1>2, <1>3, <3>2, <3>3
  <2>3. n \in 0..(p - 1)
    BY <1>2, <1>3, <2>2
  <2>4. n \in H
    BY <1>4, <1>5, <2>1, <2>3
  <2> QED BY <2>1, <2>4
<1>6. ASSUME NEW n \in H PROVE Nth(k, t, n) \in SlotsOf(t) /\ FullKey(tab, Nth(k, t, n), k)
  <2>1. n \in Nat /\ FullKey(tab, Nth(k, t, n), k)
    BY <1>2, <1>3, <1>4
  <2> QED BY <1>1, <2>1, NthSlot
<1>7. H # {} => First(H) \in H
  <2> SUFFICES ASSUME H # {} PROVE First(H) \in H
    OBVIOUS
  <2>1. H \subseteq Nat
    BY <1>2, <1>3, <1>4
  <2>2. \E n \in H : \A m \in H : n <= m
    BY <2>1, LeastElement
  <2> QED BY <2>2 DEF First
<1>8. H # {} <=> \E s \in SlotsOf(t) : FullKey(tab, s, k)
  BY <1>5, <1>6
<1>9. ASSUME NEW s \in SlotsOf(t), FullKey(tab, s, k) PROVE Nth(k, t, First(H)) = s
  <2>1. First(H) \in H
    BY <1>7, <1>8, <1>9
  <2>2. Nth(k, t, First(H)) \in SlotsOf(t) /\ FullKey(tab, Nth(k, t, First(H)), k)
    BY <1>6, <2>1
  <2> QED BY <1>9, <2>2 DEF GoodTable, FullKey
<1> QED BY <1>8, <1>9 DEF H

\* The insertion slot of an absent key is a tombstone or Empty slot its probe gets to; when
\* there is none the table has no Empty slot.
LEMMA InsertionPlace ==
  ASSUME current \in Tables, NEW k \in Keys, NEW s \in InsertionSlot(k)
  PROVE  /\ s \in SlotsOf(current) /\ ReachesSlot(Now, k, current, s)
         /\ Now[s].state \in {"Empty", "Tombstone"}
<1> DEFINE p == ProbeLength(Now, k, current)
           G == Graves(Now, k, current)
<1>1. k \in Nat
  BY ShardedMapAssumption
<1>2. Size(current) \in Nat \ {0} /\ SlotsOf(current) = 0..(Size(current) - 1)
  BY SizeType DEF SlotsOf
<1>3. /\ p \in 0..Size(current)
      /\ \A m \in 0..(p - 1) : Now[Nth(k, current, m)].state # "Empty"
      /\ p < Size(current) => p \in SlotsOf(current) /\ Now[Nth(k, current, p)].state = "Empty"
  BY <1>1, ProbeEnds
<1>4. G = {n \in 0..(p - 1) : Now[Nth(k, current, n)].state = "Tombstone"}
  BY DEF Graves
<1>5. \/ G # {} /\ s = Nth(k, current, First(G))
      \/ p < Size(current) /\ s = Nth(k, current, p)
  BY DEF InsertionSlot, Now
<1> HIDE DEF p, G
<1>6. PICK n \in SlotsOf(current) : /\ s = Nth(k, current, n) /\ n \in 0..p
                                     /\ Now[Nth(k, current, n)].state \in {"Empty", "Tombstone"}
  <2>1. CASE G # {} /\ s = Nth(k, current, First(G))
    <3>1. G \subseteq Nat
      BY <1>2, <1>3, <1>4
    <3>2. \E n \in G : \A m \in G : n <= m
      BY <2>1, <3>1, LeastElement
    <3>3. First(G) \in G
      BY <3>2 DEF First
    <3>4. First(G) \in SlotsOf(current) /\ First(G) \in 0..p
      BY <1>2, <1>3, <1>4, <3>3
    <3> QED BY <1>4, <2>1, <3>3, <3>4
  <2>2. CASE p < Size(current) /\ s = Nth(k, current, p)
    BY <1>2, <1>3, <2>2
  <2> QED BY <1>5, <2>1, <2>2
<1>7. n \in Nat
  BY <1>2
<1>8. s \in SlotsOf(current)
  BY <1>1, <1>6, <1>7, NthSlot
<1>9. \A m \in 0..(n - 1) : Now[Nth(k, current, m)].state # "Empty"
  <2>1. \A m \in 0..(n - 1) : m \in 0..(p - 1)
    BY <1>2, <1>3, <1>6
  <2> QED BY <1>3, <2>1
<1>10. ReachesSlot(Now, k, current, s)
  BY <1>6, <1>9 DEF ReachesSlot, Reaches
<1> QED BY <1>6, <1>8, <1>10

-----------------------------------------------------------------------------
(* Changes of a table *)

\* No slot becomes Empty.
NoNewEmpty(tab, new, t) ==
  \A s \in SlotsOf(t) : tab[s].state # "Empty" => new[s].state # "Empty"

\* What a probe got to it still gets to.
LEMMA ReachKept ==
  ASSUME NEW t \in Tables, NEW tab, NEW new, NoNewEmpty(tab, new, t), NEW k \in Keys, NEW s,
         ReachesSlot(tab, k, t, s)
  PROVE  ReachesSlot(new, k, t, s)
<1>1. PICK n \in SlotsOf(t) : Nth(k, t, n) = s /\ \A m \in 0..(n - 1) : tab[Nth(k, t, m)].state # "Empty"
  BY DEF ReachesSlot, Reaches
<1>2. k \in Nat /\ SlotsOf(t) \subseteq Nat
  BY ShardedMapAssumption, SlotsFinite
<1>3. ASSUME NEW m \in 0..(n - 1) PROVE new[Nth(k, t, m)].state # "Empty"
  <2>1. m \in Nat
    BY <1>2
  <2>2. Nth(k, t, m) \in SlotsOf(t)
    BY <1>2, <2>1, NthSlot
  <2> QED BY <1>1, <1>3, <2>2 DEF NoNewEmpty
<1> QED BY <1>1, <1>3 DEF ReachesSlot, Reaches

\* Full slots may be freed and values change; the keys of Full slots may not.
LEMMA GoodKept ==
  ASSUME NEW t \in Tables, NEW tab, NEW new, GoodTable(tab, t), NoNewEmpty(tab, new, t),
         new \in [SlotsOf(t) -> SlotType],
         \A s \in SlotsOf(t) : new[s].state = "Full" => tab[s].state = "Full" /\ new[s].key = tab[s].key
  PROVE  GoodTable(new, t)
<1>1. ASSUME NEW s \in SlotsOf(t), new[s].state = "Full"
      PROVE  new[s].key \in Keys /\ ReachesSlot(new, new[s].key, t, s)
  <2>1. tab[s].key \in Keys /\ ReachesSlot(tab, tab[s].key, t, s) /\ new[s].key = tab[s].key
    BY <1>1 DEF GoodTable
  <2>2. ReachesSlot(new, tab[s].key, t, s)
    BY <2>1, ReachKept
  <2> QED BY <2>1, <2>2
<1>2. ASSUME NEW s \in SlotsOf(t), NEW u \in SlotsOf(t), new[s].state = "Full", new[u].state = "Full",
             new[s].key = new[u].key
      PROVE  s = u
  BY <1>2 DEF GoodTable
<1> QED BY <1>1, <1>2 DEF GoodTable

\* Key k, which is not in the table, is put at slot p, where its probe gets.
Adds(tab, new, t, p, k) ==
  /\ new \in [SlotsOf(t) -> SlotType] /\ NoNewEmpty(tab, new, t) /\ p \in SlotsOf(t) /\ k \in Keys
  /\ ReachesSlot(tab, k, t, p) /\ new[p].key = k
  /\ \A s \in SlotsOf(t) : ~FullKey(tab, s, k)
  /\ \A s \in SlotsOf(t) : s # p /\ new[s].state = "Full" =>
       tab[s].state = "Full" /\ new[s].key = tab[s].key

\* The table stays good.
LEMMA GoodAdded ==
  ASSUME NEW t \in Tables, NEW tab, NEW new, GoodTable(tab, t), NEW p, NEW k, Adds(tab, new, t, p, k)
  PROVE  GoodTable(new, t)
<1>0. /\ new \in [SlotsOf(t) -> SlotType] /\ NoNewEmpty(tab, new, t) /\ p \in SlotsOf(t) /\ k \in Keys
      /\ ReachesSlot(tab, k, t, p) /\ new[p].key = k
      /\ \A s \in SlotsOf(t) : ~FullKey(tab, s, k)
      /\ \A s \in SlotsOf(t) : s # p /\ new[s].state = "Full" =>
           tab[s].state = "Full" /\ new[s].key = tab[s].key
  BY DEF Adds
<1>1. ASSUME NEW s \in SlotsOf(t), new[s].state = "Full"
      PROVE  new[s].key \in Keys /\ ReachesSlot(new, new[s].key, t, s)
  <2>1. CASE s # p
    <3>1. tab[s].key \in Keys /\ ReachesSlot(tab, tab[s].key, t, s) /\ new[s].key = tab[s].key
      BY <1>0, <1>1, <2>1 DEF GoodTable
    <3>2. ReachesSlot(new, tab[s].key, t, s)
      BY <1>0, <3>1, ReachKept
    <3> QED BY <3>1, <3>2
  <2>2. CASE s = p
    <3>1. ReachesSlot(new, k, t, p)
      BY <1>0, ReachKept
    <3> QED BY <1>0, <2>2, <3>1
  <2> QED BY <2>1, <2>2
<1>2. ASSUME NEW s \in SlotsOf(t), NEW u \in SlotsOf(t), new[s].state = "Full", new[u].state = "Full",
             new[s].key = new[u].key
      PROVE  s = u
  BY <1>0, <1>2 DEF GoodTable, FullKey
<1> QED BY <1>0, <1>1, <1>2 DEF GoodTable

\* A table in which slot s has the given fields and the other slots are as they were.
SlotSet(tab, new, t, s, st, k, v) ==
  /\ new \in [SlotsOf(t) -> SlotType]
  /\ \A u \in SlotsOf(t) : u # s => new[u] = tab[u]
  /\ new[s].state = st /\ new[s].key = k /\ new[s].value = v

\* Slot s of the current table changes, no other table does.
SlotBecomes(s, st, k, v) ==
  /\ IsTables' /\ \A t \in Tables : t # current => table'[t] = table[t]
  /\ SlotSet(Now, table'[current], current, s, st, k, v)

Stores(s, x) == table' = [table EXCEPT ![current] = [Now EXCEPT ![s] = x]]
SlotStates == {"Empty", "Reserved", "Full", "Tombstone"}

\* A record that replaces a slot's.
LEMMA SlotReplaced ==
  ASSUME MapTypeOK, IsTables, NEW s \in SlotsOf(current), NEW x \in SlotType, Stores(s, x)
  PROVE  SlotBecomes(s, x.state, x.key, x.value)
<1>1. current \in Tables /\ Now \in [SlotsOf(current) -> SlotType] /\ DOMAIN table = Tables
  BY DEF MapTypeOK, Now, IsTables
<1>2. /\ DOMAIN table' = Tables /\ table'[current] = [Now EXCEPT ![s] = x]
      /\ \A t \in Tables : t # current => table'[t] = table[t]
  BY <1>1 DEF Stores
<1>3. IsTables'
  BY <1>1, <1>2 DEF IsTables, Stores
<1>4. SlotSet(Now, table'[current], current, s, x.state, x.key, x.value)
  BY <1>1, <1>2 DEF SlotSet
<1> QED BY <1>2, <1>3, <1>4 DEF SlotBecomes

\* The three fields of a slot.
LEMMA SetFields ==
  ASSUME MapTypeOK, IsTables, NEW s \in SlotsOf(current)
  PROVE  /\ \A v \in SlotStates : SetSlot(s, "state", v) => SlotBecomes(s, v, Now[s].key, Now[s].value)
         /\ \A v \in Keys \union {0} : SetSlot(s, "key", v) =>
              SlotBecomes(s, Now[s].state, v, Now[s].value)
         /\ \A v \in Values \union {Null} : SetSlot(s, "value", v) =>
              SlotBecomes(s, Now[s].state, Now[s].key, v)
<1>1. current \in Tables /\ Now \in [SlotsOf(current) -> SlotType] /\ DOMAIN table = Tables
  BY DEF MapTypeOK, Now, IsTables
<1>2. /\ Now[s] \in SlotType
      /\ Now[s] = [state |-> Now[s].state, key |-> Now[s].key, value |-> Now[s].value]
      /\ Now[s].state \in SlotStates /\ Now[s].key \in Keys \union {0} /\ Now[s].value \in Values \union {Null}
  BY <1>1 DEF SlotType, SlotStates
<1>3. ASSUME NEW v \in SlotStates, SetSlot(s, "state", v)
      PROVE  SlotBecomes(s, v, Now[s].key, Now[s].value)
  <2> DEFINE x == [state |-> v, key |-> Now[s].key, value |-> Now[s].value]
  <2>1. x \in SlotType /\ x.state = v /\ x.key = Now[s].key /\ x.value = Now[s].value
    BY <1>2 DEF SlotType, SlotStates
  <2>2. [Now[s] EXCEPT !["state"] = v] = x
    BY <1>2
  <2>3. table' = [table EXCEPT ![current] = [Now EXCEPT ![s] = [Now[s] EXCEPT !["state"] = v]]]
    BY <1>1, <1>3 DEF SetSlot, Now
  <2>4. Stores(s, x)
    BY <2>2, <2>3 DEF Stores
  <2> HIDE DEF x
  <2>5. SlotBecomes(s, x.state, x.key, x.value)
    BY <2>1, <2>4, SlotReplaced
  <2> QED BY <2>1, <2>5
<1>4. ASSUME NEW v \in Keys \union {0}, SetSlot(s, "key", v)
      PROVE  SlotBecomes(s, Now[s].state, v, Now[s].value)
  <2> DEFINE x == [state |-> Now[s].state, key |-> v, value |-> Now[s].value]
  <2>1. x \in SlotType /\ x.state = Now[s].state /\ x.key = v /\ x.value = Now[s].value
    BY <1>2 DEF SlotType, SlotStates
  <2>2. [Now[s] EXCEPT !["key"] = v] = x
    BY <1>2
  <2>3. table' = [table EXCEPT ![current] = [Now EXCEPT ![s] = [Now[s] EXCEPT !["key"] = v]]]
    BY <1>1, <1>4 DEF SetSlot, Now
  <2>4. Stores(s, x)
    BY <2>2, <2>3 DEF Stores
  <2> HIDE DEF x
  <2>5. SlotBecomes(s, x.state, x.key, x.value)
    BY <2>1, <2>4, SlotReplaced
  <2> QED BY <2>1, <2>5
<1>5. ASSUME NEW v \in Values \union {Null}, SetSlot(s, "value", v)
      PROVE  SlotBecomes(s, Now[s].state, Now[s].key, v)
  <2> DEFINE x == [state |-> Now[s].state, key |-> Now[s].key, value |-> v]
  <2>1. x \in SlotType /\ x.state = Now[s].state /\ x.key = Now[s].key /\ x.value = v
    BY <1>2 DEF SlotType, SlotStates
  <2>2. [Now[s] EXCEPT !["value"] = v] = x
    BY <1>2
  <2>3. table' = [table EXCEPT ![current] = [Now EXCEPT ![s] = [Now[s] EXCEPT !["value"] = v]]]
    BY <1>1, <1>5 DEF SetSlot, Now
  <2>4. Stores(s, x)
    BY <2>2, <2>3 DEF Stores
  <2> HIDE DEF x
  <2>5. SlotBecomes(s, x.state, x.key, x.value)
    BY <2>1, <2>4, SlotReplaced
  <2> QED BY <2>1, <2>5
<1> QED BY <1>3, <1>4, <1>5

-----------------------------------------------------------------------------
(* Counting the bindings *)

BoundKeys(m) == {k \in Keys : m[k] # Null}

\* There are at most as many bindings as keys, fewer when a key is unbound.
LEMMA BindingsBounded ==
  ASSUME NEW m
  PROVE  /\ IsFiniteSet(BoundKeys(m)) /\ Cardinality(BoundKeys(m)) \in 0..Cardinality(Keys)
         /\ \A k \in Keys : m[k] = Null => Cardinality(BoundKeys(m)) + 1 \in 0..Cardinality(Keys)
<1>1. IsFiniteSet(Keys) /\ BoundKeys(m) \subseteq Keys
  BY ShardedMapAssumption DEF BoundKeys
<1>2. IsFiniteSet(BoundKeys(m)) /\ Cardinality(BoundKeys(m)) <= Cardinality(Keys)
  BY <1>1, FS_Subset
<1>3. Cardinality(BoundKeys(m)) \in Nat /\ Cardinality(Keys) \in Nat
  BY <1>1, <1>2, FS_CardinalityType
<1>4. ASSUME NEW k \in Keys, m[k] = Null PROVE Cardinality(BoundKeys(m)) + 1 \in 0..Cardinality(Keys)
  <2>1. k \notin BoundKeys(m)
    BY <1>4 DEF BoundKeys
  <2>2. Cardinality(BoundKeys(m) \union {k}) = Cardinality(BoundKeys(m)) + 1
    BY <1>2, <2>1, FS_AddElement
  <2>3. BoundKeys(m) \union {k} \subseteq Keys
    BY <1>1
  <2>4. Cardinality(BoundKeys(m) \union {k}) <= Cardinality(Keys)
    BY <1>1, <2>3, FS_Subset
  <2> QED BY <1>3, <2>2, <2>4
<1> QED BY <1>2, <1>3, <1>4

\* Key k is bound to v.
Rebinds(m, n, k, v) == n = [m EXCEPT ![k] = v]

\* Binding another key adds one, rebinding a key none, unbinding a key removes one.
LEMMA BindingsChange ==
  ASSUME NEW m \in [Keys -> Values \union {Null}], NEW k \in Keys, NEW v \in Values \union {Null}, NEW n,
         Rebinds(m, n, k, v)
  PROVE  /\ n \in [Keys -> Values \union {Null}] /\ n[k] = v /\ \A j \in Keys : j # k => n[j] = m[j]
         /\ m[k] # Null /\ v # Null => Cardinality(BoundKeys(n)) = Cardinality(BoundKeys(m))
         /\ m[k] = Null /\ v # Null => Cardinality(BoundKeys(n)) = Cardinality(BoundKeys(m)) + 1
         /\ m[k] # Null /\ v = Null => Cardinality(BoundKeys(n)) = Cardinality(BoundKeys(m)) - 1
<1>1. n \in [Keys -> Values \union {Null}] /\ n[k] = v /\ \A j \in Keys : j # k => n[j] = m[j]
  BY DEF Rebinds
<1>2. IsFiniteSet(BoundKeys(m)) /\ IsFiniteSet(BoundKeys(n))
  BY BindingsBounded
<1>3. m[k] # Null /\ v # Null => BoundKeys(n) = BoundKeys(m)
  BY <1>1 DEF BoundKeys
<1>4. ASSUME m[k] = Null, v # Null PROVE Cardinality(BoundKeys(n)) = Cardinality(BoundKeys(m)) + 1
  <2>1. BoundKeys(n) = BoundKeys(m) \union {k} /\ k \notin BoundKeys(m)
    BY <1>1, <1>4 DEF BoundKeys
  <2> QED BY <1>2, <2>1, FS_AddElement
<1>5. ASSUME m[k] # Null, v = Null PROVE Cardinality(BoundKeys(n)) = Cardinality(BoundKeys(m)) - 1
  <2>1. BoundKeys(n) = BoundKeys(m) \ {k} /\ k \in BoundKeys(m)
    BY <1>1, <1>5 DEF BoundKeys
  <2> QED BY <1>2, <2>1, FS_RemoveElement
<1> QED BY <1>1, <1>3, <1>4, <1>5

-----------------------------------------------------------------------------
(* MapReaders *)

\* The table keeps the slots of key k, and gives its key to no other slot.
KeepsKey(k) ==
  \A s \in SlotsOf(current) :
    (FullKey(Now', s, k) <=> FullKey(Now, s, k)) /\ (Now[s].key # k => Now'[s].key # k)

\* A step of the writer that leaves the gets with a stable binding alone.
LeavesReaders ==
  /\ current' = current /\ UNCHANGED reader
  /\ \A r \in MapReaders : stable'[r] # Null =>
       /\ stable'[r] = stable[r] /\ wpc' # "resize" /\ map'[rkey[r]] = map[rkey[r]]
       /\ KeepsKey(rkey[r])

\* Such a step keeps every get where it may stand.
LEMMA ReadersKept ==
  ASSUME MapTypeOK, ReadersPlaced, LeavesReaders
  PROVE  ReadersPlaced'
<1>0. /\ current' = current /\ rpc' = rpc /\ rkey' = rkey /\ rtable' = rtable /\ rslot' = rslot
      /\ rcount' = rcount /\ result' = result
  BY DEF LeavesReaders, reader
<1>1. ASSUME NEW r \in MapReaders, stable'[r] # Null PROVE ReaderOK(r)'
  <2>1. ReaderOK(r) /\ stable[r] # Null
    BY <1>1 DEF ReadersPlaced, LeavesReaders
  <2>2. /\ stable'[r] = stable[r] /\ wpc' # "resize" /\ map'[rkey[r]] = map[rkey[r]]
        /\ KeepsKey(rkey[r])
    BY <1>1 DEF LeavesReaders
  <2>3. /\ rkey[r] \in Keys /\ rkey[r] \in Nat /\ rtable[r] = current /\ current \in Tables
        /\ rslot[r] \in SlotsOf(current) /\ rcount[r] \in Nat
    <3>1. rkey[r] \in Keys /\ rtable[r] = current
      BY <2>1 DEF ReaderOK
    <3>2. current \in Tables /\ rslot[r] \in SlotsOf(rtable[r]) /\ rcount[r] \in 0..Size(rtable[r])
      BY DEF MapTypeOK
    <3>3. Size(current) \in Nat
      BY <3>2, SizeType
    <3>4. rslot[r] \in SlotsOf(current) /\ rcount[r] \in 0..Size(current)
      BY <3>1, <3>2
    <3>5. rcount[r] \in Nat
      BY <3>3, <3>4
    <3>6. rkey[r] \in Nat
      BY <3>1, ShardedMapAssumption
    <3> QED BY <3>1, <3>2, <3>4, <3>5, <3>6
  <2>4. ASSUME rpc[r] \in {"state", "key"}, NEW m \in 0..(rcount[r] - 1)
        PROVE  ~FullKey(Now', Nth(rkey[r], current, m), rkey[r])
    <3>1. m \in Nat
      BY <2>3
    <3>2. Nth(rkey[r], current, m) \in SlotsOf(current)
      BY <2>3, <3>1, NthSlot
    <3>3. ~FullKey(Now, Nth(rkey[r], current, m), rkey[r])
      BY <2>1, <2>4 DEF ReaderOK
    <3> QED BY <2>2, <3>2, <3>3 DEF KeepsKey
  <2>5. rpc[r] = "key" => FullKey(Now', rslot[r], rkey[r]) \/ Now'[rslot[r]].key # rkey[r]
    BY <2>1, <2>2, <2>3 DEF ReaderOK, KeepsKey
  <2>6. rpc[r] = "value" => FullKey(Now', rslot[r], rkey[r])
    BY <2>1, <2>2, <2>3 DEF ReaderOK, KeepsKey
  <2>7. rpc[r] = "done" => result[r] = stable[r]
    BY <2>1 DEF ReaderOK
  <2>8. map[rkey[r]] = stable[r]
    BY <2>1 DEF ReaderOK
  <2>9. ReaderOK(r)' <=>
          /\ rkey'[r] \in Keys /\ rtable'[r] = current' /\ wpc' # "resize" /\ map'[rkey'[r]] = stable'[r]
          /\ rpc'[r] \in {"state", "key"} =>
               \A m \in 0..(rcount'[r] - 1) : ~FullKey(Now', Nth(rkey'[r], current', m), rkey'[r])
          /\ rpc'[r] = "key" => FullKey(Now', rslot'[r], rkey'[r]) \/ Now'[rslot'[r]].key # rkey'[r]
          /\ rpc'[r] = "value" => FullKey(Now', rslot'[r], rkey'[r])
          /\ rpc'[r] = "done" => result'[r] = stable'[r]
    BY DEF ReaderOK
  <2> QED BY <1>0, <2>2, <2>3, <2>4, <2>5, <2>6, <2>7, <2>8, <2>9
<1>2. ASSUME NEW r \in MapReaders, rpc'[r] \in {"state", "key", "value"}
      PROVE  rcount'[r] \in SlotsOf(rtable'[r]) /\ rslot'[r] = Nth(rkey'[r], rtable'[r], rcount'[r])
  BY <1>0, <1>2 DEF ReadersPlaced
<1>3. IsGets'
  BY <1>0 DEF ReadersPlaced, IsGets
<1> QED BY <1>1, <1>2, <1>3 DEF ReadersPlaced

\* A get of a key with a stable binding has the key's slot at or before it.
LEMMA KeyAhead ==
  ASSUME ShardInv, NEW r \in MapReaders, stable[r] # Null
  PROVE  \E n \in SlotsOf(current) :
           /\ Entry(Now, Nth(rkey[r], current, n), rkey[r], stable[r])
           /\ Reaches(Now, rkey[r], current, n)
           /\ rpc[r] \in {"state", "key"} => rcount[r] <= n
<1> DEFINE k == rkey[r]
<1>1. /\ k \in Keys /\ rtable[r] = current /\ wpc # "resize" /\ map[k] = stable[r]
      /\ rpc[r] \in {"state", "key"} => \A m \in 0..(rcount[r] - 1) : ~FullKey(Now, Nth(k, current, m), k)
  BY DEF ShardInv, ReadersPlaced, ReaderOK
<1>2. stable[r] \in Values /\ current \in Tables /\ rcount[r] \in 0..Size(rtable[r])
  BY DEF ShardInv, OwnershipInv, MapTypeOK
<1>3. GoodTable(Now, current) /\ MapIsBound
  BY DEF ShardInv, WriterInv
<1>4. PICK s \in SlotsOf(current) : Entry(Now, s, k, stable[r])
  BY <1>1, <1>2, <1>3 DEF MapIsBound, Bound
<1>5. ReachesSlot(Now, k, current, s)
  BY <1>3, <1>4 DEF GoodTable, Entry, FullKey
<1>6. PICK n \in SlotsOf(current) : Nth(k, current, n) = s /\ Reaches(Now, k, current, n)
  BY <1>5 DEF ReachesSlot
<1>7. FullKey(Now, Nth(k, current, n), k)
  BY <1>4, <1>6 DEF Entry
<1>8. ASSUME rpc[r] \in {"state", "key"} PROVE rcount[r] <= n
  <2>1. Size(current) \in Nat \ {0} /\ n \in 0..(Size(current) - 1) /\ rcount[r] \in 0..Size(current)
    BY <1>1, <1>2, <1>6, SizeType DEF SlotsOf
  <2>2. ~(n \in 0..(rcount[r] - 1))
    BY <1>1, <1>7, <1>8
  <2> QED BY <2>1, <2>2
<1> QED BY <1>4, <1>6, <1>8

\* What a step of a get leaves alone.
ReadsOnly == UNCHANGED <<table, current, len, writer, keyOf, map>>

\* A step of a get leaves the writer's part of the invariant as it was.
LEMMA WriterPartKept ==
  ASSUME ShardInv, ReadsOnly
  PROVE  /\ OldTablesOwnNothing' /\ IsTables' /\ WriterInv' /\ LenCounts'
         /\ Now' = Now /\ current' = current /\ wpc' = wpc /\ map' = map
<1>1. /\ table' = table /\ current' = current /\ len' = len /\ wpc' = wpc /\ wkey' = wkey /\ wval' = wval
      /\ wslot' = wslot /\ moved' = moved /\ fresh' = fresh /\ map' = map
  BY DEF ReadsOnly, writer
<1>2. Now' = Now
  BY <1>1 DEF Now
<1>3. OldTablesOwnNothing' /\ IsTables'
  BY <1>1 DEF ShardInv, OwnershipInv, OldTablesOwnNothing, IsTables
<1>4. LenCounts'
  BY <1>1 DEF ShardInv, LenCounts, Bindings
<1>5. GoodTable(Now, current)'
  BY <1>1, <1>2 DEF ShardInv, WriterInv
<1>6. ValuesPlaced' /\ WriterPlaced'
  BY <1>1, <1>2 DEF ShardInv, WriterInv, ValuesPlaced, WriterPlaced
<1>7. FreshPlaced' /\ MapIsBound'
  BY <1>1, <1>2 DEF ShardInv, WriterInv, FreshPlaced, FreshFull, MapIsBound, Bound
<1> QED BY <1>1, <1>2, <1>3, <1>4, <1>5, <1>6, <1>7 DEF WriterInv

\* The variables of a get that change keep their types.
ReaderTypes ==
  /\ rpc \in [MapReaders -> {"idle", "state", "key", "value", "done"}]
  /\ rkey \in [MapReaders -> Keys \union {0}] /\ rtable \in [MapReaders -> Tables]
  /\ \A r \in MapReaders : rslot[r] \in SlotsOf(rtable[r]) /\ rcount[r] \in 0..Size(rtable[r])
  /\ result \in [MapReaders -> Values \union {Null}]
  /\ stable \in [MapReaders -> Values \union {Null}]

\* A step of a get keeps the invariant when it keeps the get's types and its place.
LEMMA GetKeeps ==
  ASSUME ShardInv, ReadsOnly, ReaderTypes', ReadersPlaced'
  PROVE  ShardInv'
<1>1. /\ table' = table /\ current' = current /\ len' = len /\ wpc' = wpc /\ wkey' = wkey /\ wval' = wval
      /\ wslot' = wslot /\ moved' = moved /\ fresh' = fresh /\ map' = map /\ inserts' = inserts
      /\ removes' = removes /\ keyOf' = keyOf
  BY DEF ReadsOnly, writer
<1>2. MapTypeOK'
  BY <1>1 DEF ShardInv, OwnershipInv, MapTypeOK, ReaderTypes
<1> QED BY <1>2, WriterPartKept DEF ShardInv, OwnershipInv

\* Other gets stay where they are.
LEMMA OtherGets ==
  ASSUME ShardInv, ReadsOnly, NEW q \in MapReaders, rpc'[q] = rpc[q], rkey'[q] = rkey[q],
         rtable'[q] = rtable[q], rslot'[q] = rslot[q], rcount'[q] = rcount[q],
         result'[q] = result[q], stable'[q] = stable[q]
  PROVE  /\ rpc'[q] \in {"state", "key", "value"} =>
              rcount'[q] \in SlotsOf(rtable'[q]) /\ rslot'[q] = Nth(rkey'[q], rtable'[q], rcount'[q])
         /\ stable'[q] # Null => ReaderOK(q)'
<1>1. Now' = Now /\ current' = current /\ wpc' = wpc /\ map' = map
  BY WriterPartKept
<1>2. stable[q] # Null => ReaderOK(q)
  BY DEF ShardInv, ReadersPlaced
<1>3. rpc[q] \in {"state", "key", "value"} =>
        rcount[q] \in SlotsOf(rtable[q]) /\ rslot[q] = Nth(rkey[q], rtable[q], rcount[q])
  BY DEF ShardInv, ReadersPlaced
<1>4. stable'[q] # Null => ReaderOK(q)'
  BY <1>1, <1>2 DEF ReaderOK
<1> QED BY <1>3, <1>4

\* Where r's get goes.
GetMoves(r, pc, k, t, s, n, v, b) ==
  /\ rpc' = [rpc EXCEPT ![r] = pc] /\ rkey' = [rkey EXCEPT ![r] = k] /\ rtable' = [rtable EXCEPT ![r] = t]
  /\ rslot' = [rslot EXCEPT ![r] = s] /\ rcount' = [rcount EXCEPT ![r] = n]
  /\ result' = [result EXCEPT ![r] = v] /\ stable' = [stable EXCEPT ![r] = b]

\* It may stand there.
GetPlace(pc, k, t, s, n, v, b) ==
  /\ pc \in {"idle", "state", "key", "value", "done"} /\ k \in Keys \union {0} /\ t \in Tables
  /\ s \in SlotsOf(t) /\ n \in 0..Size(t) /\ v \in Values \union {Null} /\ b \in Values \union {Null}
  /\ pc \in {"state", "key", "value"} => n \in SlotsOf(t) /\ s = Nth(k, t, n)
  /\ b # Null =>
       /\ k \in Keys /\ t = current /\ wpc # "resize" /\ map[k] = b
       /\ pc \in {"state", "key"} => \A m \in 0..(n - 1) : ~FullKey(Now, Nth(k, current, m), k)
       /\ pc = "key" => FullKey(Now, s, k) \/ Now[s].key # k
       /\ pc = "value" => FullKey(Now, s, k)
       /\ pc = "done" => v = b

\* A step of r's get: the place of r is what is left to show.
LEMMA GetOfOne ==
  ASSUME ShardInv, ReadsOnly, NEW r \in MapReaders,
         NEW pc, NEW k, NEW t, NEW s, NEW n, NEW v, NEW b, GetMoves(r, pc, k, t, s, n, v, b),
         GetPlace(pc, k, t, s, n, v, b)
  PROVE  ShardInv'
<1>1. ReaderTypes /\ IsGets
  BY DEF ShardInv, OwnershipInv, MapTypeOK, ReaderTypes, ReadersPlaced
<1>2. /\ rpc'[r] = pc /\ rkey'[r] = k /\ rtable'[r] = t /\ rslot'[r] = s /\ rcount'[r] = n
      /\ result'[r] = v /\ stable'[r] = b
  BY <1>1 DEF ReaderTypes, GetMoves, IsGets
<1>3. \A q \in MapReaders : q # r =>
        /\ rpc'[q] = rpc[q] /\ rkey'[q] = rkey[q] /\ rtable'[q] = rtable[q] /\ rslot'[q] = rslot[q]
        /\ rcount'[q] = rcount[q] /\ result'[q] = result[q] /\ stable'[q] = stable[q]
  BY <1>1 DEF ReaderTypes, GetMoves, IsGets
<1>4. ReaderTypes'
  <2>1. /\ rpc' \in [MapReaders -> {"idle", "state", "key", "value", "done"}]
        /\ rkey' \in [MapReaders -> Keys \union {0}] /\ rtable' \in [MapReaders -> Tables]
        /\ result' \in [MapReaders -> Values \union {Null}] /\ stable' \in [MapReaders -> Values \union {Null}]
    BY <1>1 DEF ReaderTypes, GetMoves, GetPlace
  <2>2. ASSUME NEW q \in MapReaders PROVE rslot'[q] \in SlotsOf(rtable'[q]) /\ rcount'[q] \in 0..Size(rtable'[q])
    BY <1>1, <1>2, <1>3 DEF ReaderTypes, GetPlace
  <2> QED BY <2>1, <2>2 DEF ReaderTypes
<1>5. Now' = Now /\ current' = current /\ wpc' = wpc /\ map' = map
  BY WriterPartKept
<1>6. stable'[r] # Null => ReaderOK(r)'
  BY <1>2, <1>5 DEF ReaderOK, GetPlace
<1>7. ReadersPlaced'
  <2>1. ASSUME NEW q \in MapReaders
        PROVE  /\ rpc'[q] \in {"state", "key", "value"} =>
                    rcount'[q] \in SlotsOf(rtable'[q]) /\ rslot'[q] = Nth(rkey'[q], rtable'[q], rcount'[q])
               /\ stable'[q] # Null => ReaderOK(q)'
    <3>1. CASE q = r
      BY <1>2, <1>6, <3>1 DEF GetPlace
    <3>2. CASE q # r
      BY <1>3, <3>2, OtherGets
    <3> QED BY <3>1, <3>2
  <2>2. IsGets'
    BY <1>1 DEF GetMoves, IsGets
  <2> QED BY <2>1, <2>2 DEF ReadersPlaced
<1> QED BY <1>4, <1>7, GetKeeps

-----------------------------------------------------------------------------
(* The steps of a get *)

\* What is known of a get.
LEMMA GetTypes ==
  ASSUME ShardInv, NEW r \in MapReaders
  PROVE  /\ rpc[r] \in {"idle", "state", "key", "value", "done"} /\ rkey[r] \in Keys \union {0}
         /\ rkey[r] \in Nat /\ rtable[r] \in Tables /\ rslot[r] \in SlotsOf(rtable[r])
         /\ rcount[r] \in 0..Size(rtable[r]) /\ result[r] \in Values \union {Null}
         /\ stable[r] \in Values \union {Null} /\ Size(rtable[r]) \in Nat \ {0}
         /\ SlotsOf(rtable[r]) = 0..(Size(rtable[r]) - 1)
         /\ rpc = [rpc EXCEPT ![r] = rpc[r]] /\ rkey = [rkey EXCEPT ![r] = rkey[r]]
         /\ rtable = [rtable EXCEPT ![r] = rtable[r]] /\ rslot = [rslot EXCEPT ![r] = rslot[r]]
         /\ rcount = [rcount EXCEPT ![r] = rcount[r]] /\ result = [result EXCEPT ![r] = result[r]]
         /\ stable = [stable EXCEPT ![r] = stable[r]]
<1>1. MapTypeOK
  BY DEF ShardInv, OwnershipInv
<1>2. /\ rpc[r] \in {"idle", "state", "key", "value", "done"} /\ rkey[r] \in Keys \union {0}
      /\ rtable[r] \in Tables /\ rslot[r] \in SlotsOf(rtable[r])
      /\ rcount[r] \in 0..Size(rtable[r]) /\ result[r] \in Values \union {Null}
      /\ stable[r] \in Values \union {Null}
  BY <1>1 DEF MapTypeOK
<1>3. rkey[r] \in Nat /\ Size(rtable[r]) \in Nat \ {0} /\ SlotsOf(rtable[r]) = 0..(Size(rtable[r]) - 1)
  <2>1. Size(rtable[r]) \in Nat \ {0}
    BY <1>2, SizeType
  <2>2. rkey[r] \in Nat
    <3>1. Keys \union {0} \subseteq Nat
      BY ShardedMapAssumption
    <3> QED BY <1>2, <3>1
  <2> QED BY <2>1, <2>2 DEF SlotsOf
<1>4. /\ rpc = [rpc EXCEPT ![r] = rpc[r]] /\ rkey = [rkey EXCEPT ![r] = rkey[r]]
      /\ rtable = [rtable EXCEPT ![r] = rtable[r]] /\ rslot = [rslot EXCEPT ![r] = rslot[r]]
      /\ rcount = [rcount EXCEPT ![r] = rcount[r]] /\ result = [result EXCEPT ![r] = result[r]]
      /\ stable = [stable EXCEPT ![r] = stable[r]]
  BY <1>1 DEF MapTypeOK, ShardInv, ReadersPlaced, IsGets
<1> QED BY <1>2, <1>3, <1>4

\* The start of a get.
LEMMA GetStartKeeps ==
  ASSUME ShardInv, NEW r \in MapReaders, NEW k \in Keys, GetStart(r, k)
  PROVE  ShardInv'
<1> DEFINE b == IF wpc = "resize" THEN Null ELSE map[k]
<1>1. ReadsOnly /\ GetMoves(r, "state", k, current, Home(k, current), 0, Null, b)
  BY DEF GetStart, RSet, ReadsOnly, GetMoves
<1>2. current \in Tables /\ map \in [Keys -> Values \union {Null}]
  BY DEF ShardInv, OwnershipInv, MapTypeOK
<1>3. Size(current) \in Nat \ {0} /\ SlotsOf(current) = 0..(Size(current) - 1)
  BY <1>2, SizeType DEF SlotsOf
<1>4. Nth(k, current, 0) \in SlotsOf(current) /\ Nth(k, current, 0) = Home(k, current)
  BY <1>2, NthSlot, ShardedMapAssumption
<1>5. 0 \in SlotsOf(current) /\ 0 \in 0..Size(current) /\ b \in Values \union {Null}
  BY <1>2, <1>3
<1>6. b # Null => wpc # "resize" /\ map[k] = b
  OBVIOUS
<1> HIDE DEF b
<1>7. \A m \in 0..(0 - 1) : ~FullKey(Now, Nth(k, current, m), k)
  OBVIOUS
<1>8. GetPlace("state", k, current, Home(k, current), 0, Null, b)
  BY <1>2, <1>4, <1>5, <1>6, <1>7 DEF GetPlace
<1> QED BY <1>1, <1>8, GetOfOne

\* The probe moves on from a slot that is not the key's.
LEMMA AdvanceKeeps ==
  ASSUME ShardInv, NEW r \in MapReaders, rpc[r] \in {"state", "key"}, Advance(r), ReadsOnly,
         UNCHANGED <<rkey, rtable, result, stable>>,
         stable[r] # Null => ~FullKey(Now, rslot[r], rkey[r])
  PROVE  ShardInv'
<1> DEFINE k == rkey[r]
           t == rtable[r]
           n == rcount[r] + 1
           s == NextSlot(rslot[r], t)
           pc == IF n = Size(t) THEN "done" ELSE "state"
<1>1. /\ k \in Keys \union {0} /\ k \in Nat /\ t \in Tables /\ rslot[r] \in SlotsOf(t)
      /\ result[r] \in Values \union {Null} /\ stable[r] \in Values \union {Null}
      /\ Size(t) \in Nat \ {0} /\ SlotsOf(t) = 0..(Size(t) - 1)
  BY GetTypes
<1>2. rcount[r] \in SlotsOf(t) /\ rslot[r] = Nth(k, t, rcount[r])
  BY DEF ShardInv, ReadersPlaced
<1>3. rcount[r] \in Nat
  BY <1>1, <1>2
<1>4. s = Nth(k, t, n) /\ Nth(k, t, n) \in SlotsOf(t)
  <2>1. n \in Nat
    BY <1>3
  <2>2. s = Nth(k, t, n)
    <3>1. NextSlot(Nth(k, t, rcount[r]), t) = Nth(k, t, rcount[r] + 1)
      BY <1>1, <1>3, NthSlot
    <3> QED BY <1>2, <3>1
  <2> QED BY <1>1, <2>1, <2>2, NthSlot
<1>5. ReadsOnly /\ GetMoves(r, pc, k, t, s, n, result[r], stable[r])
  <2>1. /\ rkey = [rkey EXCEPT ![r] = rkey[r]] /\ rtable = [rtable EXCEPT ![r] = rtable[r]]
        /\ result = [result EXCEPT ![r] = result[r]] /\ stable = [stable EXCEPT ![r] = stable[r]]
    BY GetTypes
  <2> QED BY <2>1, Zenon DEF Advance, RSet, GetMoves
<1>6. n \in 0..Size(t) /\ (pc = "state" => n \in SlotsOf(t))
  BY <1>1, <1>2
<1>7. ASSUME stable[r] # Null
      PROVE  /\ k \in Keys /\ t = current /\ wpc # "resize" /\ map[k] = stable[r] /\ pc = "state"
             /\ \A m \in 0..(n - 1) : ~FullKey(Now, Nth(k, current, m), k)
  <2>1. /\ k \in Keys /\ t = current /\ wpc # "resize" /\ map[k] = stable[r]
        /\ \A m \in 0..(rcount[r] - 1) : ~FullKey(Now, Nth(k, current, m), k)
    BY <1>7 DEF ShardInv, ReadersPlaced, ReaderOK
  <2>2. PICK i \in SlotsOf(current) :
           Entry(Now, Nth(k, current, i), k, stable[r]) /\ rcount[r] <= i
    BY <1>7, KeyAhead
  <2>3. ~FullKey(Now, Nth(k, current, rcount[r]), k)
    BY <1>2, <1>7, <2>1
  <2>4. i # rcount[r]
    BY <2>2, <2>3 DEF Entry
  <2>5. n # Size(t)
    BY <1>1, <1>3, <2>1, <2>2, <2>4
  <2>6. ASSUME NEW m \in 0..(n - 1) PROVE ~FullKey(Now, Nth(k, current, m), k)
    <3>1. m \in 0..(rcount[r] - 1) \/ m = rcount[r]
      BY <1>3
    <3> QED BY <2>1, <2>3, <3>1
  <2> QED BY <2>1, <2>5, <2>6
<1>8. pc \in {"state", "done"}
  OBVIOUS
<1> HIDE DEF k, t, n, s, pc
<1>9. GetPlace(pc, k, t, s, n, result[r], stable[r])
  BY <1>1, <1>4, <1>6, <1>7, <1>8 DEF GetPlace
<1> QED BY <1>5, <1>9, GetOfOne

\* A get that stays at its slot.
LEMMA StayKeeps ==
  ASSUME ShardInv, NEW r \in MapReaders, ReadsOnly, NEW pc, NEW v,
         rpc' = [rpc EXCEPT ![r] = pc], result' = [result EXCEPT ![r] = v],
         UNCHANGED <<rkey, rtable, rslot, rcount, stable>>,
         GetPlace(pc, rkey[r], rtable[r], rslot[r], rcount[r], v, stable[r])
  PROVE  ShardInv'
<1>1. /\ rkey = [rkey EXCEPT ![r] = rkey[r]] /\ rtable = [rtable EXCEPT ![r] = rtable[r]]
      /\ rslot = [rslot EXCEPT ![r] = rslot[r]] /\ rcount = [rcount EXCEPT ![r] = rcount[r]]
      /\ stable = [stable EXCEPT ![r] = stable[r]]
  BY GetTypes
<1>2. GetMoves(r, pc, rkey[r], rtable[r], rslot[r], rcount[r], v, stable[r])
  BY <1>1, Zenon DEF GetMoves
<1> QED BY <1>2, GetOfOne

\* Reading a slot's state.
LEMMA GetStateKeeps ==
  ASSUME ShardInv, NEW r \in MapReaders, GetState(r)
  PROVE  ShardInv'
<1> DEFINE x == table[rtable[r]][rslot[r]]
<1>1. /\ rpc[r] = "state" /\ ReadsOnly /\ UNCHANGED <<rkey, rtable, result, stable>>
      /\ \/ x.state = "Empty" /\ RSet(rpc, r, "done") /\ UNCHANGED <<rslot, rcount>>
         \/ x.state = "Full" /\ RSet(rpc, r, "key") /\ UNCHANGED <<rslot, rcount>>
         \/ x.state \in {"Reserved", "Tombstone"} /\ Advance(r)
  BY DEF GetState, ReadsOnly, RSlot
<1>2. result = [result EXCEPT ![r] = result[r]]
  BY GetTypes
<1>3. /\ rcount[r] \in SlotsOf(rtable[r]) /\ rslot[r] = Nth(rkey[r], rtable[r], rcount[r])
      /\ stable[r] # Null => ReaderOK(r)
  BY <1>1 DEF ShardInv, ReadersPlaced
<1>4. stable[r] # Null =>
        /\ rkey[r] \in Keys /\ rtable[r] = current /\ wpc # "resize" /\ map[rkey[r]] = stable[r]
        /\ x = Now[rslot[r]]
        /\ \A m \in 0..(rcount[r] - 1) : ~FullKey(Now, Nth(rkey[r], current, m), rkey[r])
  BY <1>1, <1>3 DEF ReaderOK, Now
<1>5. /\ rkey[r] \in Keys \union {0} /\ rkey[r] \in Nat /\ rtable[r] \in Tables /\ rslot[r] \in SlotsOf(rtable[r])
      /\ rcount[r] \in 0..Size(rtable[r]) /\ result[r] \in Values \union {Null}
      /\ stable[r] \in Values \union {Null}
  BY GetTypes
<1> HIDE DEF x
<1>6. CASE x.state = "Empty" /\ RSet(rpc, r, "done") /\ UNCHANGED <<rslot, rcount>>
  <2>1. stable[r] = Null
    <3> SUFFICES ASSUME stable[r] # Null PROVE FALSE
      OBVIOUS
    <3>1. PICK n \in SlotsOf(current) : /\ Entry(Now, Nth(rkey[r], current, n), rkey[r], stable[r])
                                         /\ Reaches(Now, rkey[r], current, n) /\ rcount[r] <= n
      BY <1>1, KeyAhead
    <3>2. Now[Nth(rkey[r], current, rcount[r])].state = "Empty"
      BY <1>3, <1>4, <1>6
    <3>3. rcount[r] # n
      BY <3>1, <3>2 DEF Entry, FullKey
    <3>4. rcount[r] \in Nat /\ n \in Nat
      <4>1. SlotsOf(current) \subseteq Nat
        BY <1>4, <1>5, SlotsFinite
      <4> QED BY <1>3, <1>4, <4>1
    <3>5. rcount[r] \in 0..(n - 1)
      BY <3>1, <3>3, <3>4
    <3> QED BY <3>1, <3>2, <3>5 DEF Reaches
  <2>2. GetPlace("done", rkey[r], rtable[r], rslot[r], rcount[r], result[r], stable[r])
    BY <1>5, <2>1 DEF GetPlace
  <2> QED BY <1>1, <1>2, <1>6, <2>2, StayKeeps DEF RSet
<1>7. CASE x.state = "Full" /\ RSet(rpc, r, "key") /\ UNCHANGED <<rslot, rcount>>
  <2>1. stable[r] # Null => FullKey(Now, rslot[r], rkey[r]) \/ Now[rslot[r]].key # rkey[r]
    BY <1>4, <1>7 DEF FullKey
  <2>2. GetPlace("key", rkey[r], rtable[r], rslot[r], rcount[r], result[r], stable[r])
    BY <1>3, <1>4, <1>5, <2>1 DEF GetPlace
  <2> QED BY <1>1, <1>2, <1>7, <2>2, StayKeeps DEF RSet
<1>8. CASE x.state \in {"Reserved", "Tombstone"} /\ Advance(r)
  <2>1. stable[r] # Null => ~FullKey(Now, rslot[r], rkey[r])
    BY <1>4, <1>8 DEF FullKey
  <2> QED BY <1>1, <1>8, <2>1, AdvanceKeeps
<1> QED BY <1>1, <1>6, <1>7, <1>8

\* Reading a Full slot's key.
LEMMA GetKeyKeeps ==
  ASSUME ShardInv, NEW r \in MapReaders, GetKey(r)
  PROVE  ShardInv'
<1> DEFINE x == table[rtable[r]][rslot[r]]
<1>1. /\ rpc[r] = "key" /\ ReadsOnly /\ UNCHANGED <<rkey, rtable, result, stable>>
      /\ \/ x.key = rkey[r] /\ RSet(rpc, r, "value") /\ UNCHANGED <<rslot, rcount>>
         \/ x.key # rkey[r] /\ Advance(r)
  BY DEF GetKey, ReadsOnly, RSlot
<1>2. result = [result EXCEPT ![r] = result[r]]
  BY GetTypes
<1>3. /\ rcount[r] \in SlotsOf(rtable[r]) /\ rslot[r] = Nth(rkey[r], rtable[r], rcount[r])
      /\ stable[r] # Null => ReaderOK(r)
  BY <1>1 DEF ShardInv, ReadersPlaced
<1>4. stable[r] # Null =>
        /\ rkey[r] \in Keys /\ rtable[r] = current /\ wpc # "resize" /\ map[rkey[r]] = stable[r]
        /\ x = Now[rslot[r]]
        /\ FullKey(Now, rslot[r], rkey[r]) \/ Now[rslot[r]].key # rkey[r]
  BY <1>1, <1>3 DEF ReaderOK, Now
<1>5. /\ rkey[r] \in Keys \union {0} /\ rkey[r] \in Nat /\ rtable[r] \in Tables /\ rslot[r] \in SlotsOf(rtable[r])
      /\ rcount[r] \in 0..Size(rtable[r]) /\ result[r] \in Values \union {Null}
      /\ stable[r] \in Values \union {Null}
  BY GetTypes
<1> HIDE DEF x
<1>6. CASE x.key = rkey[r] /\ RSet(rpc, r, "value") /\ UNCHANGED <<rslot, rcount>>
  <2>1. stable[r] # Null => FullKey(Now, rslot[r], rkey[r])
    BY <1>4, <1>6
  <2>2. GetPlace("value", rkey[r], rtable[r], rslot[r], rcount[r], result[r], stable[r])
    BY <1>3, <1>4, <1>5, <2>1 DEF GetPlace
  <2> QED BY <1>1, <1>2, <1>6, <2>2, StayKeeps DEF RSet
<1>7. CASE x.key # rkey[r] /\ Advance(r)
  <2>1. stable[r] # Null => ~FullKey(Now, rslot[r], rkey[r])
    BY <1>4, <1>7 DEF FullKey
  <2> QED BY <1>1, <1>7, <2>1, AdvanceKeeps
<1> QED BY <1>1, <1>6, <1>7

\* Reading the value.
LEMMA GetValueKeeps ==
  ASSUME ShardInv, NEW r \in MapReaders, GetValue(r)
  PROVE  ShardInv'
<1> DEFINE x == table[rtable[r]][rslot[r]]
<1>1. /\ rpc[r] = "value" /\ ReadsOnly /\ UNCHANGED <<rkey, rtable, rslot, rcount, stable>>
      /\ rpc' = [rpc EXCEPT ![r] = "done"] /\ result' = [result EXCEPT ![r] = x.value]
  BY DEF GetValue, ReadsOnly, RSlot, RSet
<1>2. stable[r] # Null => ReaderOK(r)
  BY DEF ShardInv, ReadersPlaced
<1>3. /\ rkey[r] \in Keys \union {0} /\ rtable[r] \in Tables /\ rslot[r] \in SlotsOf(rtable[r])
      /\ rcount[r] \in 0..Size(rtable[r]) /\ stable[r] \in Values \union {Null}
  BY GetTypes
<1>4. x.value \in Values \union {Null}
  <2>1. table[rtable[r]] \in [SlotsOf(rtable[r]) -> SlotType]
    BY <1>3 DEF ShardInv, OwnershipInv, MapTypeOK
  <2> QED BY <1>3, <2>1 DEF SlotType
<1>5. stable[r] # Null =>
        /\ rkey[r] \in Keys /\ rtable[r] = current /\ wpc # "resize" /\ map[rkey[r]] = stable[r]
        /\ FullKey(Now, rslot[r], rkey[r]) /\ x = Now[rslot[r]]
  BY <1>1, <1>2 DEF ReaderOK, Now
<1> HIDE DEF x
<1>6. ASSUME stable[r] # Null PROVE x.value = stable[r]
  <2>1. PICK n \in SlotsOf(current) : Entry(Now, Nth(rkey[r], current, n), rkey[r], stable[r])
    BY <1>6, KeyAhead
  <2>2. Nth(rkey[r], current, n) \in SlotsOf(current)
    <3>1. n \in Nat /\ rkey[r] \in Nat /\ current \in Tables
      BY <1>3, <1>5, <1>6, <2>1, SlotsFinite, GetTypes
    <3> QED BY <3>1, NthSlot
  <2>3. rslot[r] \in SlotsOf(current) /\ GoodTable(Now, current)
    BY <1>3, <1>5, <1>6 DEF ShardInv, WriterInv
  <2>4. rslot[r] = Nth(rkey[r], current, n)
    BY <1>5, <1>6, <2>1, <2>2, <2>3 DEF GoodTable, Entry, FullKey
  <2> QED BY <1>5, <1>6, <2>1, <2>4 DEF Entry
<1>7. GetPlace("done", rkey[r], rtable[r], rslot[r], rcount[r], x.value, stable[r])
  BY <1>3, <1>4, <1>5, <1>6 DEF GetPlace
<1> QED BY <1>1, <1>7, StayKeeps

\* The end of a get.
LEMMA GetReturnKeeps ==
  ASSUME ShardInv, NEW r \in MapReaders, GetReturn(r)
  PROVE  ShardInv'
<1>1. /\ rpc[r] = "done" /\ ReadsOnly /\ UNCHANGED <<rkey, rtable, rslot, rcount, result, stable>>
      /\ rpc' = [rpc EXCEPT ![r] = "idle"]
  BY DEF GetReturn, ReadsOnly, RSet
<1>2. stable[r] # Null =>
        rkey[r] \in Keys /\ rtable[r] = current /\ wpc # "resize" /\ map[rkey[r]] = stable[r]
  BY DEF ShardInv, ReadersPlaced, ReaderOK
<1>3. /\ rkey[r] \in Keys \union {0} /\ rtable[r] \in Tables /\ rslot[r] \in SlotsOf(rtable[r])
      /\ rcount[r] \in 0..Size(rtable[r]) /\ stable[r] \in Values \union {Null}
      /\ result[r] \in Values \union {Null} /\ result = [result EXCEPT ![r] = result[r]]
  BY GetTypes
<1>4. GetPlace("idle", rkey[r], rtable[r], rslot[r], rcount[r], result[r], stable[r])
  BY <1>2, <1>3 DEF GetPlace
<1>5. result' = [result EXCEPT ![r] = result[r]]
  BY <1>1, <1>3
<1> QED BY <1>1, <1>4, <1>5, StayKeeps

-----------------------------------------------------------------------------
(* The steps of the writer *)

\* The types of what the writer changes.
WriterTypes ==
  /\ current \in Tables /\ \A t \in Tables : table[t] \in [SlotsOf(t) -> SlotType]
  /\ wpc \in {"idle", "insert", "key", "value", "full", "resize", "tombstone"}
  /\ wkey \in Keys \union {0} /\ wval \in Values \union {Null} /\ wslot \in SlotsOf(MaxTables)
  /\ moved \in 0..Size(MaxTables) /\ inserts \in 0..MaxInsert /\ removes \in 0..MaxRemove
  /\ keyOf \in [Values -> Keys \union {0}] /\ map \in [Keys -> Values \union {Null}]
  /\ stable \in [MapReaders -> Values \union {Null}]

\* What a writer's step has to keep.
LEMMA WriterKeeps ==
  ASSUME ShardInv, UNCHANGED reader, WriterTypes', OldTablesOwnNothing', IsTables', WriterInv', LenCounts',
         ReadersPlaced'
  PROVE  ShardInv'
<1>1. len' \in 0..Cardinality(Keys)
  <2>1. Cardinality(BoundKeys(map')) \in 0..Cardinality(Keys)
    BY BindingsBounded
  <2>2. len' = Cardinality(BoundKeys(map')) + (IF wpc' = "tombstone" THEN 1 ELSE 0)
    BY DEF LenCounts, Bindings, BoundKeys
  <2>3. CASE wpc' = "tombstone"
    <3>1. wkey' \in Keys /\ map'[wkey'] = Null
      BY <2>3 DEF WriterInv, WriterPlaced
    <3>2. Cardinality(BoundKeys(map')) + 1 \in 0..Cardinality(Keys)
      BY <3>1, BindingsBounded
    <3> QED BY <2>2, <2>3, <3>2
  <2>4. CASE wpc' # "tombstone"
    <3>1. Cardinality(Keys) \in Nat
      BY ShardedMapAssumption, FS_CardinalityType
    <3> QED BY <2>1, <2>2, <2>4, <3>1
  <2> QED BY <2>3, <2>4
<1>2. MapTypeOK'
  BY <1>1 DEF ShardInv, OwnershipInv, MapTypeOK, WriterTypes, reader
<1> QED BY <1>2 DEF ShardInv, OwnershipInv

\* Every table fits in the last.
LEMMA SlotsFit == \A t \in Tables : SlotsOf(t) \subseteq SlotsOf(MaxTables) /\ Size(t) \in 0..Size(MaxTables)
<1> SUFFICES ASSUME NEW t \in Tables PROVE SlotsOf(t) \subseteq SlotsOf(MaxTables) /\ Size(t) \in 0..Size(MaxTables)
  OBVIOUS
<1>1. MaxTables \in Tables /\ t <= MaxTables
  BY ShardedMapAssumption DEF Tables
<1>2. Size(t) \in Nat \ {0} /\ Size(MaxTables) \in Nat \ {0} /\ Size(t) <= Size(MaxTables)
  BY <1>1, SizeType, SizeGrows
<1> QED BY <1>2 DEF SlotsOf

\* A step that changes one slot of the current table.
LEMMA TablesKept ==
  ASSUME ShardInv, NEW s \in SlotsOf(current), NEW st, NEW k, NEW v, SlotBecomes(s, st, k, v),
         current' = current
  PROVE  /\ OldTablesOwnNothing' /\ IsTables' /\ current' \in Tables
         /\ \A t \in Tables : table'[t] \in [SlotsOf(t) -> SlotType]
         /\ SlotSet(Now, Now', current, s, st, k, v)
<1>1. current \in Tables /\ \A t \in Tables : table[t] \in [SlotsOf(t) -> SlotType]
  BY DEF ShardInv, OwnershipInv, MapTypeOK
<1>2. /\ IsTables' /\ \A t \in Tables : t # current => table'[t] = table[t]
      /\ SlotSet(Now, table'[current], current, s, st, k, v)
  BY DEF SlotBecomes
<1>3. Now' = table'[current]
  BY DEF Now
<1>4. \A t \in Tables : table'[t] \in [SlotsOf(t) -> SlotType]
  BY <1>1, <1>2 DEF SlotSet
<1>5. ASSUME NEW t \in 1..(current - 1), NEW u \in SlotsOf(t) PROVE table'[t][u].value = Null
  <2>1. t \in Tables /\ t # current
    BY <1>1, ShardedMapAssumption DEF Tables
  <2>2. table[t][u].value = Null
    BY <1>5 DEF ShardInv, OwnershipInv, OldTablesOwnNothing
  <2> QED BY <1>2, <2>1, <2>2
<1>6. OldTablesOwnNothing'
  BY <1>5 DEF OldTablesOwnNothing
<1> QED BY <1>1, <1>2, <1>3, <1>4, <1>6

\* Outside a resize the bindings are the entries of one table.
Holds(m, tab, t) == \A k \in Keys, v \in Values : m[k] = v <=> \E s \in SlotsOf(t) : Entry(tab, s, k, v)

\* The bindings outside a resize.
LEMMA HoldsNow == wpc # "resize" => (MapIsBound <=> Holds(map, Now, current))
BY DEF MapIsBound, Bound, Holds

\* A key with no slot is unbound.
LEMMA Unbound ==
  ASSUME NEW t \in Tables, NEW tab, NEW m \in [Keys -> Values \union {Null}], Holds(m, tab, t), NEW k \in Keys,
         \A s \in SlotsOf(t) : ~FullKey(tab, s, k)
  PROVE  m[k] = Null
<1>1. m[k] \in Values => FALSE
  BY DEF Holds, Entry
<1> QED BY <1>1

\* The slot of a bound key has its value.
LEMMA BoundThere ==
  ASSUME NEW t \in Tables, NEW tab, NEW m \in [Keys -> Values \union {Null}], Holds(m, tab, t), NEW k \in Keys,
         NEW s \in SlotsOf(t), FullKey(tab, s, k), tab[s].value \in Values
  PROVE  m[k] = tab[s].value
BY DEF Holds, Entry

\* A slot that is not Full before and after does not matter.
LEMMA HoldsKept ==
  ASSUME NEW t \in Tables, NEW tab, NEW new, NEW m, Holds(m, tab, t), NEW s \in SlotsOf(t), NEW st, NEW k, NEW v,
         SlotSet(tab, new, t, s, st, k, v), tab[s].state # "Full", st # "Full"
  PROVE  Holds(m, new, t)
<1>1. ASSUME NEW j \in Keys, NEW w \in Values, NEW u \in SlotsOf(t) PROVE Entry(tab, u, j, w) <=> Entry(new, u, j, w)
  BY DEF Entry, FullKey, SlotSet
<1> QED BY <1>1 DEF Holds

\* A slot that changes, outside the last part of a removal, holds a key that is bound to its value.
LEMMA HoldsSet ==
  ASSUME NEW t \in Tables, NEW tab, NEW new, NEW m \in [Keys -> Values \union {Null}], NEW n, Holds(m, tab, t),
         NEW s \in SlotsOf(t), NEW st, NEW k \in Keys, NEW v \in Values \union {Null},
         SlotSet(tab, new, t, s, st, k, v), Rebinds(m, n, k, v), v # Null => st = "Full",
         \A u \in SlotsOf(t) : u # s => ~FullKey(tab, u, k),
         tab[s].state = "Full" => tab[s].key = k
  PROVE  Holds(n, new, t)
<1>0. Null \notin Values
  BY DEF Null, Values
<1> SUFFICES ASSUME NEW j \in Keys, NEW w \in Values PROVE n[j] = w <=> \E u \in SlotsOf(t) : Entry(new, u, j, w)
  BY DEF Holds
<1>1. CASE j = k
  <2>1. n[j] = v
    BY <1>1 DEF Rebinds
  <2>2. \A u \in SlotsOf(t) : u # s => ~Entry(new, u, k, w)
    BY DEF Entry, FullKey, SlotSet
  <2>3. v = w => Entry(new, s, k, w)
    BY <1>0 DEF Entry, FullKey, SlotSet
  <2>4. Entry(new, s, k, w) => v = w
    BY DEF Entry, FullKey, SlotSet
  <2> QED BY <1>1, <2>1, <2>2, <2>3, <2>4
<1>2. CASE j # k
  <2>1. n[j] = m[j]
    BY <1>2 DEF Rebinds
  <2>2. ASSUME NEW u \in SlotsOf(t) PROVE Entry(tab, u, j, w) <=> Entry(new, u, j, w)
    BY <1>2 DEF Entry, FullKey, SlotSet
  <2> QED BY <2>1, <2>2 DEF Holds
<1> QED BY <1>1, <1>2

\* Slots change state, but to Empty.
LEMMA SetNoEmpty ==
  ASSUME NEW t \in Tables, NEW tab, NEW new, NEW s \in SlotsOf(t), NEW st, NEW k, NEW v,
         SlotSet(tab, new, t, s, st, k, v), st # "Empty"
  PROVE  NoNewEmpty(tab, new, t)
BY DEF SlotSet, NoNewEmpty

\* A slot that keeps its key and does not become Full keeps the table good.
LEMMA SetGood ==
  ASSUME NEW t \in Tables, NEW tab, NEW new, GoodTable(tab, t), NEW s \in SlotsOf(t), NEW st, NEW k, NEW v,
         SlotSet(tab, new, t, s, st, k, v), st # "Empty",
         st = "Full" => tab[s].state = "Full" /\ tab[s].key = k
  PROVE  GoodTable(new, t)
<1>1. NoNewEmpty(tab, new, t)
  BY SetNoEmpty
<1>2. \A u \in SlotsOf(t) : new[u].state = "Full" => tab[u].state = "Full" /\ new[u].key = tab[u].key
  BY DEF SlotSet
<1>3. new \in [SlotsOf(t) -> SlotType]
  BY DEF SlotSet
<1> QED BY <1>1, <1>2, <1>3, GoodKept

\* A get of another key is left alone, and so is one whose key keeps its slot.
LEMMA KeyKept ==
  ASSUME NEW s \in SlotsOf(current), NEW st, NEW k, NEW v, SlotSet(Now, Now', current, s, st, k, v), NEW j,
         \/ st = Now[s].state /\ k = Now[s].key
         \/ Now[s].state # "Full" /\ st # "Full" /\ k = Now[s].key
         \/ j # k /\ j # Now[s].key
         \/ j # k /\ Now[s].state # "Full"
  PROVE  KeepsKey(j)
BY DEF KeepsKey, FullKey, SlotSet

\* A write of the keys ks ends the stability of their gets and of no other.
LEMMA Touched ==
  ASSUME ShardInv, NEW ks, Touch(ks)
  PROVE  /\ stable' \in [MapReaders -> Values \union {Null}]
         /\ \A r \in MapReaders : stable'[r] # Null => stable'[r] = stable[r] /\ rkey[r] \notin ks
BY DEF ShardInv, OwnershipInv, MapTypeOK, Touch

\* What is known of the current table, and of gets with a stable binding.
LEMMA CurrentTable ==
  ASSUME ShardInv
  PROVE  /\ MapTypeOK /\ IsTables /\ WriterTypes /\ current \in Tables /\ GoodTable(Now, current)
         /\ map \in [Keys -> Values \union {Null}] /\ Null \notin Values
         /\ \A s \in SlotsOf(current) : /\ Now[s].state \in SlotStates /\ Now[s].key \in Keys \union {0}
                                         /\ Now[s].value \in Values \union {Null}
         /\ wpc # "resize" => Holds(map, Now, current)
         /\ \A r \in MapReaders : stable[r] # Null =>
              rkey[r] \in Keys /\ map[rkey[r]] # Null /\ wpc # "resize"
         /\ len = Cardinality(BoundKeys(map)) + (IF wpc = "tombstone" THEN 1 ELSE 0)
<1>1. MapTypeOK /\ IsTables /\ GoodTable(Now, current) /\ MapIsBound /\ LenCounts /\ ReadersPlaced
  BY DEF ShardInv, OwnershipInv, WriterInv
<1>2. WriterTypes
  BY <1>1 DEF MapTypeOK, WriterTypes
<1>3. Now \in [SlotsOf(current) -> SlotType]
  BY <1>1 DEF GoodTable
<1>4. \A s \in SlotsOf(current) : /\ Now[s].state \in SlotStates /\ Now[s].key \in Keys \union {0}
                                   /\ Now[s].value \in Values \union {Null}
  BY <1>3 DEF SlotType, SlotStates
<1>5. wpc # "resize" => Holds(map, Now, current)
  BY <1>1, HoldsNow
<1>6. \A r \in MapReaders : stable[r] # Null => rkey[r] \in Keys /\ map[rkey[r]] # Null /\ wpc # "resize"
  BY <1>1 DEF ReadersPlaced, ReaderOK
<1>7. len = Cardinality(BoundKeys(map)) + (IF wpc = "tombstone" THEN 1 ELSE 0)
  BY <1>1 DEF LenCounts, Bindings, BoundKeys
<1>8. Null \notin Values /\ current \in Tables /\ map \in [Keys -> Values \union {Null}]
  BY <1>1 DEF Null, Values, MapTypeOK
<1> QED BY <1>1, <1>2, <1>4, <1>5, <1>6, <1>7, <1>8

\* The lock is taken for an insert.
LEMMA InsertLockKeeps ==
  ASSUME ShardInv, NEW k \in Keys, InsertLock(k)
  PROVE  ShardInv'
<1>1. /\ wpc = "idle" /\ wpc' = "insert" /\ table' = table /\ current' = current /\ len' = len
      /\ wslot' = wslot /\ moved' = moved /\ fresh' = fresh /\ map' = map /\ stable' = stable
      /\ wkey' = k /\ UNCHANGED reader /\ removes' = removes
  BY DEF InsertLock
<1>2. inserts' \in 0..MaxInsert /\ wval' \in Values /\ keyOf' \in [Values -> Keys \union {0}]
  <2>1. inserts \in 0..MaxInsert /\ inserts < MaxInsert /\ keyOf \in [Values -> Keys \union {0}]
    BY DEF ShardInv, OwnershipInv, MapTypeOK, InsertLock
  <2>2. inserts + 1 \in 0..MaxInsert /\ inserts + 1 \in Values
    BY <2>1, ShardedMapAssumption DEF Values
  <2>3. inserts' = inserts + 1 /\ wval' = inserts + 1 /\ keyOf' = [keyOf EXCEPT ![inserts + 1] = k]
    BY DEF InsertLock
  <2> QED BY <2>1, <2>2, <2>3
<1>3. Now' = Now
  BY <1>1 DEF Now
<1>4. WriterTypes'
  BY <1>1, <1>2 DEF ShardInv, OwnershipInv, MapTypeOK, WriterTypes
<1>5. OldTablesOwnNothing' /\ IsTables' /\ LenCounts'
  BY <1>1 DEF ShardInv, OwnershipInv, OldTablesOwnNothing, IsTables, LenCounts, Bindings
<1>6. GoodTable(Now, current)' /\ ValuesPlaced' /\ WriterPlaced' /\ FreshPlaced' /\ MapIsBound'
  <2>1. GoodTable(Now, current)'
    BY <1>1, <1>3 DEF ShardInv, WriterInv
  <2>2. ValuesPlaced' /\ WriterPlaced' /\ FreshPlaced'
    BY <1>1, <1>2, <1>3 DEF ShardInv, WriterInv, ValuesPlaced, WriterPlaced, FreshPlaced
  <2>3. MapIsBound'
    BY <1>1, <1>3 DEF ShardInv, WriterInv, MapIsBound, Bound
  <2> QED BY <2>1, <2>2, <2>3
<1>7. \A j : KeepsKey(j)
  BY <1>3 DEF KeepsKey
<1>8. LeavesReaders
  BY <1>1, <1>7 DEF LeavesReaders
<1>9. ReadersPlaced'
  BY <1>8, ReadersKept DEF ShardInv, OwnershipInv
<1> QED BY <1>1, <1>4, <1>5, <1>6, <1>9, WriterKeeps DEF WriterInv

\* Outside a resize, what is left to show of a step on one slot.
LEMMA SlotStep ==
  ASSUME ShardInv, NEW s \in SlotsOf(current), NEW st, NEW k, NEW v, SlotBecomes(s, st, k, v),
         current' = current, UNCHANGED reader, fresh' = fresh, wpc' # "resize", st # "Empty",
         WriterTypes', LenCounts', ValuesPlaced', WriterPlaced', GoodTable(Now', current),
         Holds(map', Now', current),
         \A r \in MapReaders : stable'[r] # Null =>
           stable'[r] = stable[r] /\ map'[rkey[r]] = map[rkey[r]] /\ KeepsKey(rkey[r])
  PROVE  ShardInv'
<1>1. OldTablesOwnNothing' /\ IsTables'
  BY TablesKept
<1>2. MapIsBound' /\ FreshPlaced' /\ GoodTable(Now, current)'
  BY DEF MapIsBound, Bound, Holds, FreshPlaced
<1>3. LeavesReaders
  BY DEF LeavesReaders
<1>4. ReadersPlaced'
  BY <1>3, ReadersKept DEF ShardInv, OwnershipInv
<1> QED BY <1>1, <1>2, <1>4, WriterKeeps DEF WriterInv

\* A key that is there gets a new value.
LEMMA InsertOverwriteKeeps ==
  ASSUME ShardInv, InsertOverwrite
  PROVE  ShardInv'
<1> DEFINE s == FoundSlot(wkey)
<1>1. /\ wpc = "insert" /\ wpc' = "idle" /\ Found(wkey) /\ SetSlot(s, "value", wval)
      /\ map' = [map EXCEPT ![wkey] = wval] /\ Touch({wkey}) /\ current' = current /\ len' = len
      /\ wkey' = wkey /\ wval' = wval /\ wslot' = wslot /\ moved' = moved /\ fresh' = fresh
      /\ inserts' = inserts /\ removes' = removes /\ keyOf' = keyOf /\ UNCHANGED reader
  BY DEF InsertOverwrite, KeyPresent
<1>2. /\ MapTypeOK /\ IsTables /\ current \in Tables /\ GoodTable(Now, current)
      /\ map \in [Keys -> Values \union {Null}] /\ Null \notin Values /\ Holds(map, Now, current)
      /\ len = Cardinality(BoundKeys(map))
  BY <1>1, CurrentTable, BindingsBounded
<1>3. wkey \in Keys /\ wval \in Values
  BY <1>1 DEF ShardInv, WriterInv, WriterPlaced
<1>4. s \in SlotsOf(current) /\ FullKey(Now, s, wkey)
  <2>1. Hits(Now, wkey, current) # {} /\ s = Nth(wkey, current, First(Hits(Now, wkey, current)))
    BY <1>1 DEF Found, FoundSlot, Now
  <2>2. \E u \in SlotsOf(current) : FullKey(Now, u, wkey)
    BY <1>2, <1>3, <2>1, FoundThere
  <2>3. \A u \in SlotsOf(current) : FullKey(Now, u, wkey) => u = s
    BY <1>2, <1>3, <2>1, FoundThere
  <2> QED BY <2>2, <2>3
<1> HIDE DEF s
<1>5. Now[s].state = "Full" /\ Now[s].key = wkey
  BY <1>4 DEF FullKey
<1>6. SlotBecomes(s, "Full", wkey, wval)
  BY <1>1, <1>2, <1>3, <1>4, <1>5, SetFields
<1>7. /\ SlotSet(Now, Now', current, s, "Full", wkey, wval)
      /\ \A t \in Tables : table'[t] \in [SlotsOf(t) -> SlotType]
  BY <1>1, <1>4, <1>6, TablesKept
<1>8. Now[s].value \in Values /\ map[wkey] = Now[s].value
  <2>1. Now[s].value # Null
    BY <1>1, <1>4, <1>5 DEF ShardInv, WriterInv, ValuesPlaced
  <2>2. Now[s].value \in Values
    BY <1>4, <2>1, CurrentTable
  <2> QED BY <1>2, <1>3, <1>4, <2>2, BoundThere
<1>9. /\ map' \in [Keys -> Values \union {Null}] /\ \A j \in Keys : j # wkey => map'[j] = map[j]
      /\ Cardinality(BoundKeys(map')) = Cardinality(BoundKeys(map))
  <2>1. wval \in Values \union {Null} /\ wval # Null /\ map[wkey] # Null
    BY <1>2, <1>3, <1>8
  <2>2. Rebinds(map, map', wkey, wval)
    BY <1>1 DEF Rebinds
  <2> QED BY <1>2, <1>3, <2>1, <2>2, BindingsChange
<1>10. LenCounts'
  <2>1. Cardinality(BoundKeys(map')) \in Nat
    BY BindingsBounded, FS_CardinalityType
  <2>2. len' = Cardinality(BoundKeys(map')) + 0
    BY <1>1, <1>2, <1>9, <2>1
  <2> QED BY <1>1, <2>2 DEF LenCounts, Bindings, BoundKeys
<1>11. GoodTable(Now', current)
  BY <1>2, <1>4, <1>5, <1>7, SetGood
<1>12. Holds(map', Now', current)
  <2>1. \A u \in SlotsOf(current) : u # s => ~FullKey(Now, u, wkey)
    BY <1>2, <1>4 DEF GoodTable, FullKey
  <2> QED BY <1>1, <1>2, <1>3, <1>4, <1>5, <1>7, <2>1, HoldsSet DEF Rebinds
<1>13. WriterTypes'
  BY <1>1, <1>2, <1>7, <1>9, Touched DEF MapTypeOK, WriterTypes
<1>14. ValuesPlaced' /\ WriterPlaced'
  BY <1>1, <1>2, <1>3, <1>7 DEF ShardInv, WriterInv, ValuesPlaced, WriterPlaced, SlotSet
<1>15. ASSUME NEW r \in MapReaders, stable'[r] # Null
       PROVE  stable'[r] = stable[r] /\ map'[rkey[r]] = map[rkey[r]] /\ KeepsKey(rkey[r])
  <2>1. stable'[r] = stable[r] /\ rkey[r] # wkey
    BY <1>1, <1>15, Touched
  <2>2. rkey[r] \in Keys
    BY <1>15, <2>1, CurrentTable
  <2>3. KeepsKey(rkey[r])
    BY <1>4, <1>5, <1>7, KeyKept
  <2> QED BY <1>9, <2>1, <2>2, <2>3
<1> QED BY <1>1, <1>4, <1>6, <1>10, <1>11, <1>12, <1>13, <1>14, <1>15, SlotStep

\* The slot the writer works on while it puts a key.
LEMMA WritersSlot ==
  ASSUME ShardInv, wpc \in {"key", "value", "full"}
  PROVE  /\ wkey \in Keys /\ wval \in Values /\ wslot \in SlotsOf(current) /\ Now[wslot].state = "Reserved"
         /\ ReachesSlot(Now, wkey, current, wslot) /\ \A s \in SlotsOf(current) : ~FullKey(Now, s, wkey)
         /\ map[wkey] = Null
         /\ \A r \in MapReaders : stable[r] # Null => rkey[r] # wkey
<1>1. /\ wkey \in Keys /\ wval \in Values /\ wslot \in SlotsOf(current) /\ Now[wslot].state = "Reserved"
      /\ ReachesSlot(Now, wkey, current, wslot) /\ \A s \in SlotsOf(current) : ~FullKey(Now, s, wkey)
  BY DEF ShardInv, WriterInv, WriterPlaced
<1>2. map \in [Keys -> Values \union {Null}] /\ Holds(map, Now, current) /\ current \in Tables
  BY CurrentTable
<1>3. map[wkey] = Null
  BY <1>1, <1>2, Unbound
<1>4. \A r \in MapReaders : stable[r] # Null => rkey[r] # wkey
  BY <1>3, CurrentTable
<1> QED BY <1>1, <1>3, <1>4

\* A slot is reserved for a key that is not there.
LEMMA OccupyReserveKeeps ==
  ASSUME ShardInv, OccupyReserve
  PROVE  ShardInv'
<1>1. PICK s \in InsertionSlot(wkey) : wslot' = s /\ SetSlot(s, "state", "Reserved")
  BY DEF OccupyReserve
<1>2. /\ wpc = "insert" /\ wpc' = "key" /\ ~Found(wkey) /\ current' = current /\ len' = len
      /\ wkey' = wkey /\ wval' = wval /\ moved' = moved /\ fresh' = fresh
      /\ inserts' = inserts /\ removes' = removes /\ keyOf' = keyOf /\ map' = map /\ UNCHANGED reader
      /\ stable' = stable
  BY DEF OccupyReserve, KeyPresent
<1>3. /\ MapTypeOK /\ IsTables /\ current \in Tables /\ GoodTable(Now, current)
      /\ Null \notin Values /\ Holds(map, Now, current)
  BY <1>2, CurrentTable
<1>4. wkey \in Keys /\ wval \in Values
  BY <1>2 DEF ShardInv, WriterInv, WriterPlaced
<1>5. \A u \in SlotsOf(current) : ~FullKey(Now, u, wkey)
  <2>1. Hits(Now, wkey, current) = {}
    BY <1>2 DEF Found, Now
  <2> QED BY <1>3, <1>4, <2>1, FoundThere
<1>6. /\ s \in SlotsOf(current) /\ ReachesSlot(Now, wkey, current, s)
      /\ Now[s].state \in {"Empty", "Tombstone"}
  BY <1>3, <1>4, InsertionPlace
<1>7. Now[s].value = Null
  BY <1>2, <1>6 DEF ShardInv, WriterInv, ValuesPlaced
<1>8. SlotBecomes(s, "Reserved", Now[s].key, Null)
  <2>1. "Reserved" \in SlotStates
    BY DEF SlotStates
  <2>2. SlotBecomes(s, "Reserved", Now[s].key, Now[s].value)
    BY <1>1, <1>3, <1>6, <2>1, SetFields
  <2> QED BY <1>7, <2>2
<1>9. /\ SlotSet(Now, Now', current, s, "Reserved", Now[s].key, Null)
      /\ \A t \in Tables : table'[t] \in [SlotsOf(t) -> SlotType]
  BY <1>2, <1>6, <1>8, TablesKept
<1>10. LenCounts'
  BY <1>2 DEF ShardInv, LenCounts, Bindings
<1>11. GoodTable(Now', current)
  BY <1>3, <1>6, <1>9, SetGood
<1>12. Holds(map', Now', current)
  BY <1>2, <1>3, <1>6, <1>9, HoldsKept
<1>13. WriterTypes'
  <2>1. wslot' \in SlotsOf(MaxTables)
    BY <1>1, <1>3, <1>6, SlotsFit
  <2> QED BY <1>2, <1>3, <1>9, <2>1 DEF MapTypeOK, WriterTypes
<1>14. ValuesPlaced'
  BY <1>2, <1>6, <1>7, <1>9 DEF ShardInv, WriterInv, ValuesPlaced, SlotSet
<1>15. WriterPlaced'
  <2>1. NoNewEmpty(Now, Now', current)
    BY <1>3, <1>6, <1>9, SetNoEmpty
  <2>2. ReachesSlot(Now', wkey, current, s)
    BY <1>3, <1>4, <1>6, <2>1, ReachKept
  <2>3. \A u \in SlotsOf(current) : ~FullKey(Now', u, wkey)
    BY <1>5, <1>9 DEF FullKey, SlotSet
  <2>4. Now'[s].state = "Reserved"
    BY <1>9 DEF SlotSet
  <2> QED BY <1>1, <1>2, <1>4, <1>6, <2>2, <2>3, <2>4 DEF WriterPlaced
<1>16. ASSUME NEW r \in MapReaders, stable'[r] # Null
       PROVE  stable'[r] = stable[r] /\ map'[rkey[r]] = map[rkey[r]] /\ KeepsKey(rkey[r])
  <2>1. KeepsKey(rkey[r])
    BY <1>6, <1>9, KeyKept
  <2> QED BY <1>2, <2>1
<1> QED BY <1>2, <1>6, <1>8, <1>10, <1>11, <1>12, <1>13, <1>14, <1>15, <1>16, SlotStep

\* The key is stored.
LEMMA OccupyKeyKeeps ==
  ASSUME ShardInv, OccupyKey
  PROVE  ShardInv'
<1>1. /\ wpc = "key" /\ wpc' = "value" /\ SetSlot(wslot, "key", wkey) /\ current' = current /\ len' = len
      /\ wkey' = wkey /\ wval' = wval /\ wslot' = wslot /\ moved' = moved /\ fresh' = fresh
      /\ inserts' = inserts /\ removes' = removes /\ keyOf' = keyOf /\ map' = map /\ UNCHANGED reader
      /\ stable' = stable
  BY DEF OccupyKey
<1>2. /\ MapTypeOK /\ IsTables /\ current \in Tables /\ GoodTable(Now, current)
      /\ Null \notin Values /\ Holds(map, Now, current)
  BY <1>1, CurrentTable
<1>3. /\ wkey \in Keys /\ wval \in Values /\ wslot \in SlotsOf(current) /\ Now[wslot].state = "Reserved"
      /\ ReachesSlot(Now, wkey, current, wslot) /\ \A s \in SlotsOf(current) : ~FullKey(Now, s, wkey)
      /\ \A r \in MapReaders : stable[r] # Null => rkey[r] # wkey
  BY <1>1, WritersSlot
<1>4. Now[wslot].value = Null
  BY <1>1, <1>3 DEF ShardInv, WriterInv, ValuesPlaced
<1>5. SlotBecomes(wslot, "Reserved", wkey, Null)
  <2>1. SlotBecomes(wslot, Now[wslot].state, wkey, Now[wslot].value)
    BY <1>1, <1>2, <1>3, SetFields
  <2> QED BY <1>3, <1>4, <2>1
<1>6. /\ SlotSet(Now, Now', current, wslot, "Reserved", wkey, Null)
      /\ \A t \in Tables : table'[t] \in [SlotsOf(t) -> SlotType]
  BY <1>1, <1>3, <1>5, TablesKept
<1>7. LenCounts'
  BY <1>1 DEF ShardInv, LenCounts, Bindings
<1>8. GoodTable(Now', current)
  BY <1>2, <1>3, <1>6, SetGood
<1>9. Holds(map', Now', current)
  BY <1>1, <1>2, <1>3, <1>6, HoldsKept
<1>10. WriterTypes'
  BY <1>1, <1>2, <1>6 DEF MapTypeOK, WriterTypes
<1>11. ValuesPlaced'
  BY <1>1, <1>3, <1>6 DEF ShardInv, WriterInv, ValuesPlaced, SlotSet
<1>12. WriterPlaced'
  <2>1. NoNewEmpty(Now, Now', current)
    BY <1>2, <1>3, <1>6, SetNoEmpty
  <2>2. ReachesSlot(Now', wkey, current, wslot)
    BY <1>2, <1>3, <2>1, ReachKept
  <2>3. \A u \in SlotsOf(current) : ~FullKey(Now', u, wkey)
    BY <1>3, <1>6 DEF FullKey, SlotSet
  <2>4. Now'[wslot].state = "Reserved" /\ Now'[wslot].key = wkey
    BY <1>6 DEF SlotSet
  <2> QED BY <1>1, <1>3, <2>2, <2>3, <2>4 DEF WriterPlaced
<1>13. ASSUME NEW r \in MapReaders, stable'[r] # Null
       PROVE  stable'[r] = stable[r] /\ map'[rkey[r]] = map[rkey[r]] /\ KeepsKey(rkey[r])
  <2>1. rkey[r] # wkey
    BY <1>1, <1>3, <1>13
  <2>2. KeepsKey(rkey[r])
    BY <1>3, <1>6, <2>1, KeyKept
  <2> QED BY <1>1, <2>2
<1> QED BY <1>1, <1>3, <1>5, <1>7, <1>8, <1>9, <1>10, <1>11, <1>12, <1>13, SlotStep

\* The value is stored.
LEMMA OccupyValueKeeps ==
  ASSUME ShardInv, OccupyValue
  PROVE  ShardInv'
<1>1. /\ wpc = "value" /\ wpc' = "full" /\ SetSlot(wslot, "value", wval) /\ current' = current /\ len' = len
      /\ wkey' = wkey /\ wval' = wval /\ wslot' = wslot /\ moved' = moved /\ fresh' = fresh
      /\ inserts' = inserts /\ removes' = removes /\ keyOf' = keyOf /\ map' = map /\ UNCHANGED reader
      /\ stable' = stable
  BY DEF OccupyValue
<1>2. /\ MapTypeOK /\ IsTables /\ current \in Tables /\ GoodTable(Now, current)
      /\ Null \notin Values /\ Holds(map, Now, current)
  BY <1>1, CurrentTable
<1>3. /\ wkey \in Keys /\ wval \in Values /\ wslot \in SlotsOf(current) /\ Now[wslot].state = "Reserved"
      /\ ReachesSlot(Now, wkey, current, wslot) /\ \A s \in SlotsOf(current) : ~FullKey(Now, s, wkey)
  BY <1>1, WritersSlot
<1>4. Now[wslot].key = wkey
  BY <1>1 DEF ShardInv, WriterInv, WriterPlaced
<1>5. SlotBecomes(wslot, "Reserved", wkey, wval)
  <2>1. SlotBecomes(wslot, Now[wslot].state, Now[wslot].key, wval)
    BY <1>1, <1>2, <1>3, SetFields
  <2> QED BY <1>3, <1>4, <2>1
<1>6. /\ SlotSet(Now, Now', current, wslot, "Reserved", wkey, wval)
      /\ \A t \in Tables : table'[t] \in [SlotsOf(t) -> SlotType]
  BY <1>1, <1>3, <1>5, TablesKept
<1>7. LenCounts'
  BY <1>1 DEF ShardInv, LenCounts, Bindings
<1>8. GoodTable(Now', current)
  BY <1>2, <1>3, <1>6, SetGood
<1>9. Holds(map', Now', current)
  BY <1>1, <1>2, <1>3, <1>6, HoldsKept
<1>10. WriterTypes'
  BY <1>1, <1>2, <1>6 DEF MapTypeOK, WriterTypes
<1>11. ValuesPlaced'
  BY <1>1, <1>3, <1>6 DEF ShardInv, WriterInv, ValuesPlaced, SlotSet
<1>12. WriterPlaced'
  <2>1. NoNewEmpty(Now, Now', current)
    BY <1>2, <1>3, <1>6, SetNoEmpty
  <2>2. ReachesSlot(Now', wkey, current, wslot)
    BY <1>2, <1>3, <2>1, ReachKept
  <2>3. \A u \in SlotsOf(current) : ~FullKey(Now', u, wkey)
    BY <1>3, <1>6 DEF FullKey, SlotSet
  <2>4. Now'[wslot].state = "Reserved" /\ Now'[wslot].key = wkey /\ Now'[wslot].value = wval
    BY <1>6 DEF SlotSet
  <2> QED BY <1>1, <1>3, <2>2, <2>3, <2>4 DEF WriterPlaced
<1>13. ASSUME NEW r \in MapReaders, stable'[r] # Null
       PROVE  stable'[r] = stable[r] /\ map'[rkey[r]] = map[rkey[r]] /\ KeepsKey(rkey[r])
  <2>1. KeepsKey(rkey[r])
    BY <1>3, <1>4, <1>6, KeyKept
  <2> QED BY <1>1, <2>1
<1> QED BY <1>1, <1>3, <1>5, <1>7, <1>8, <1>9, <1>10, <1>11, <1>12, <1>13, SlotStep

\* The key becomes visible.
LEMMA OccupyFullKeeps ==
  ASSUME ShardInv, OccupyFull
  PROVE  ShardInv'
<1>1. /\ wpc = "full" /\ wpc' = "idle" /\ SetSlot(wslot, "state", "Full") /\ current' = current /\ len' = len + 1
      /\ wkey' = wkey /\ wval' = wval /\ wslot' = wslot /\ moved' = moved /\ fresh' = fresh
      /\ inserts' = inserts /\ removes' = removes /\ keyOf' = keyOf /\ map' = [map EXCEPT ![wkey] = wval]
      /\ UNCHANGED reader /\ Touch({wkey})
  BY DEF OccupyFull
<1>2. /\ MapTypeOK /\ IsTables /\ current \in Tables /\ GoodTable(Now, current)
      /\ map \in [Keys -> Values \union {Null}] /\ Null \notin Values /\ Holds(map, Now, current)
      /\ len = Cardinality(BoundKeys(map))
  BY <1>1, CurrentTable, BindingsBounded
<1>3. /\ wkey \in Keys /\ wval \in Values /\ wslot \in SlotsOf(current) /\ Now[wslot].state = "Reserved"
      /\ ReachesSlot(Now, wkey, current, wslot) /\ \A s \in SlotsOf(current) : ~FullKey(Now, s, wkey)
      /\ map[wkey] = Null
  BY <1>1, WritersSlot
<1>4. Now[wslot].key = wkey /\ Now[wslot].value = wval
  BY <1>1 DEF ShardInv, WriterInv, WriterPlaced
<1>5. SlotBecomes(wslot, "Full", wkey, wval)
  <2>1. "Full" \in SlotStates
    BY DEF SlotStates
  <2>2. SlotBecomes(wslot, "Full", Now[wslot].key, Now[wslot].value)
    BY <1>1, <1>2, <1>3, <2>1, SetFields
  <2> QED BY <1>4, <2>2
<1>6. /\ SlotSet(Now, Now', current, wslot, "Full", wkey, wval)
      /\ \A t \in Tables : table'[t] \in [SlotsOf(t) -> SlotType]
  BY <1>1, <1>3, <1>5, TablesKept
<1>7. /\ map' \in [Keys -> Values \union {Null}] /\ \A j \in Keys : j # wkey => map'[j] = map[j]
      /\ Cardinality(BoundKeys(map')) = Cardinality(BoundKeys(map)) + 1
  <2>1. wval \in Values \union {Null} /\ wval # Null
    BY <1>2, <1>3
  <2>2. Rebinds(map, map', wkey, wval)
    BY <1>1 DEF Rebinds
  <2> QED BY <1>2, <1>3, <2>1, <2>2, BindingsChange
<1>8. LenCounts'
  <2>1. Cardinality(BoundKeys(map')) \in Nat
    BY BindingsBounded, FS_CardinalityType
  <2>2. len' = Cardinality(BoundKeys(map')) + 0
    BY <1>1, <1>2, <1>7, <2>1
  <2> QED BY <1>1, <2>2 DEF LenCounts, Bindings, BoundKeys
<1>9. GoodTable(Now', current)
  <2>1. NoNewEmpty(Now, Now', current)
    BY <1>2, <1>3, <1>6, SetNoEmpty
  <2>2. /\ Now' \in [SlotsOf(current) -> SlotType] /\ Now'[wslot].key = wkey
        /\ \A s \in SlotsOf(current) : s # wslot /\ Now'[s].state = "Full" =>
             Now[s].state = "Full" /\ Now'[s].key = Now[s].key
    BY <1>6 DEF SlotSet
  <2>3. Adds(Now, Now', current, wslot, wkey)
    BY <1>3, <2>1, <2>2 DEF Adds
  <2> QED BY <1>2, <2>3, GoodAdded
<1>10. Holds(map', Now', current)
  BY <1>1, <1>2, <1>3, <1>6, HoldsSet DEF Rebinds
<1>11. WriterTypes'
  BY <1>1, <1>2, <1>6, <1>7, Touched DEF MapTypeOK, WriterTypes
<1>12. ValuesPlaced' /\ WriterPlaced'
  BY <1>1, <1>2, <1>3, <1>6 DEF ShardInv, WriterInv, ValuesPlaced, WriterPlaced, SlotSet
<1>13. ASSUME NEW r \in MapReaders, stable'[r] # Null
       PROVE  stable'[r] = stable[r] /\ map'[rkey[r]] = map[rkey[r]] /\ KeepsKey(rkey[r])
  <2>1. stable'[r] = stable[r] /\ rkey[r] # wkey
    BY <1>1, <1>13, Touched
  <2>2. rkey[r] \in Keys
    BY <1>13, <2>1, CurrentTable
  <2>3. KeepsKey(rkey[r])
    BY <1>3, <1>6, <2>1, KeyKept
  <2> QED BY <1>7, <2>1, <2>2, <2>3
<1> QED BY <1>1, <1>3, <1>5, <1>8, <1>9, <1>10, <1>11, <1>12, <1>13, SlotStep

\* A removal takes the value.
LEMMA RemoveTakeKeeps ==
  ASSUME ShardInv, NEW k \in Keys, RemoveTake(k)
  PROVE  ShardInv'
<1> DEFINE s == FoundSlot(k)
<1>1. /\ wpc = "idle" /\ wpc' = "tombstone" /\ Found(k) /\ SetSlot(s, "value", Null) /\ wslot' = s
      /\ map' = [map EXCEPT ![k] = Null] /\ Touch({k}) /\ current' = current /\ len' = len
      /\ wkey' = k /\ wval' = wval /\ moved' = moved /\ fresh' = fresh
      /\ inserts' = inserts /\ keyOf' = keyOf /\ UNCHANGED reader
      /\ removes < MaxRemove /\ removes' = removes + 1
  BY DEF RemoveTake
<1>2. /\ MapTypeOK /\ IsTables /\ current \in Tables /\ GoodTable(Now, current)
      /\ map \in [Keys -> Values \union {Null}] /\ Null \notin Values /\ Holds(map, Now, current)
      /\ len = Cardinality(BoundKeys(map))
  BY <1>1, CurrentTable, BindingsBounded
<1>3. s \in SlotsOf(current) /\ FullKey(Now, s, k)
  <2>1. Hits(Now, k, current) # {} /\ s = Nth(k, current, First(Hits(Now, k, current)))
    BY <1>1 DEF Found, FoundSlot, Now
  <2>2. \E u \in SlotsOf(current) : FullKey(Now, u, k)
    BY <1>2, <2>1, FoundThere
  <2>3. \A u \in SlotsOf(current) : FullKey(Now, u, k) => u = s
    BY <1>2, <2>1, FoundThere
  <2> QED BY <2>2, <2>3
<1> HIDE DEF s
<1>4. Now[s].state = "Full" /\ Now[s].key = k
  BY <1>3 DEF FullKey
<1>5. SlotBecomes(s, "Full", k, Null)
  <2>1. SlotBecomes(s, Now[s].state, Now[s].key, Null)
    BY <1>1, <1>2, <1>3, SetFields
  <2> QED BY <1>4, <2>1
<1>6. /\ SlotSet(Now, Now', current, s, "Full", k, Null)
      /\ \A t \in Tables : table'[t] \in [SlotsOf(t) -> SlotType]
  BY <1>1, <1>3, <1>5, TablesKept
<1>7. map[k] # Null
  <2>1. Now[s].value # Null
    BY <1>1, <1>3, <1>4 DEF ShardInv, WriterInv, ValuesPlaced
  <2>2. Now[s].value \in Values
    BY <1>3, <2>1, CurrentTable
  <2> QED BY <1>2, <1>3, <2>1, <2>2, BoundThere
<1>8. /\ map' \in [Keys -> Values \union {Null}] /\ map'[k] = Null /\ \A j \in Keys : j # k => map'[j] = map[j]
      /\ Cardinality(BoundKeys(map')) = Cardinality(BoundKeys(map)) - 1
  <2>1. Rebinds(map, map', k, Null)
    BY <1>1 DEF Rebinds
  <2> QED BY <1>2, <1>7, <2>1, BindingsChange
<1>9. LenCounts'
  <2>1. Cardinality(BoundKeys(map')) \in Nat /\ Cardinality(BoundKeys(map)) \in Nat
    BY BindingsBounded, FS_CardinalityType
  <2>2. len' = Cardinality(BoundKeys(map')) + 1
    BY <1>1, <1>2, <1>8, <2>1
  <2> QED BY <1>1, <2>2 DEF LenCounts, Bindings, BoundKeys
<1>10. GoodTable(Now', current)
  BY <1>2, <1>3, <1>4, <1>6, SetGood
<1>11. Holds(map', Now', current)
  <2>1. \A u \in SlotsOf(current) : u # s => ~FullKey(Now, u, k)
    BY <1>2, <1>3 DEF GoodTable, FullKey
  <2> QED BY <1>1, <1>2, <1>3, <1>4, <1>6, <2>1, HoldsSet DEF Rebinds
<1>12. WriterTypes'
  <2>1. wslot' \in SlotsOf(MaxTables)
    BY <1>1, <1>2, <1>3, SlotsFit
  <2>2. removes' \in 0..MaxRemove
    <3>1. removes \in 0..MaxRemove
      BY <1>2 DEF MapTypeOK
    <3> QED BY <1>1, <3>1, ShardedMapAssumption
  <2> QED BY <1>1, <1>2, <1>6, <1>8, <2>1, <2>2, Touched DEF MapTypeOK, WriterTypes
<1>13. ValuesPlaced'
  BY <1>1, <1>2, <1>3, <1>6 DEF ShardInv, WriterInv, ValuesPlaced, SlotSet
<1>14. WriterPlaced'
  BY <1>1, <1>3, <1>6, <1>8 DEF WriterPlaced, SlotSet, Entry, FullKey
<1>15. ASSUME NEW r \in MapReaders, stable'[r] # Null
       PROVE  stable'[r] = stable[r] /\ map'[rkey[r]] = map[rkey[r]] /\ KeepsKey(rkey[r])
  <2>1. stable'[r] = stable[r] /\ rkey[r] # k
    BY <1>1, <1>15, Touched
  <2>2. rkey[r] \in Keys
    BY <1>15, <2>1, CurrentTable
  <2>3. KeepsKey(rkey[r])
    BY <1>3, <1>4, <1>6, KeyKept
  <2> QED BY <1>8, <2>1, <2>2, <2>3
<1> QED BY <1>1, <1>3, <1>5, <1>9, <1>10, <1>11, <1>12, <1>13, <1>14, <1>15, SlotStep

\* The removed key's slot becomes a tombstone.
LEMMA RemoveTombstoneKeeps ==
  ASSUME ShardInv, RemoveTombstone
  PROVE  ShardInv'
<1>1. /\ wpc = "tombstone" /\ wpc' = "idle" /\ SetSlot(wslot, "state", "Tombstone") /\ current' = current
      /\ len' = len - 1 /\ wkey' = wkey /\ wval' = wval /\ wslot' = wslot /\ moved' = moved /\ fresh' = fresh
      /\ inserts' = inserts /\ removes' = removes /\ keyOf' = keyOf /\ map' = map
      /\ UNCHANGED reader /\ stable' = stable
  BY DEF RemoveTombstone, MarkedTombstone
<1>2. /\ MapTypeOK /\ IsTables /\ current \in Tables /\ GoodTable(Now, current)
      /\ map \in [Keys -> Values \union {Null}] /\ Null \notin Values /\ Holds(map, Now, current)
      /\ len = Cardinality(BoundKeys(map)) + 1
  BY <1>1, CurrentTable
<1>3. /\ wkey \in Keys /\ wslot \in SlotsOf(current) /\ Now[wslot].state = "Full" /\ Now[wslot].key = wkey
      /\ Now[wslot].value = Null /\ map[wkey] = Null
  BY <1>1 DEF ShardInv, WriterInv, WriterPlaced, Entry, FullKey
<1>4. SlotBecomes(wslot, "Tombstone", wkey, Null)
  <2>1. "Tombstone" \in SlotStates
    BY DEF SlotStates
  <2>2. SlotBecomes(wslot, "Tombstone", Now[wslot].key, Now[wslot].value)
    BY <1>1, <1>2, <1>3, <2>1, SetFields
  <2> QED BY <1>3, <2>2
<1>5. /\ SlotSet(Now, Now', current, wslot, "Tombstone", wkey, Null)
      /\ \A t \in Tables : table'[t] \in [SlotsOf(t) -> SlotType]
  BY <1>1, <1>3, <1>4, TablesKept
<1>6. LenCounts'
  <2>1. Cardinality(BoundKeys(map)) \in Nat
    BY BindingsBounded, FS_CardinalityType
  <2>2. len' = Cardinality(BoundKeys(map')) + 0
    BY <1>1, <1>2, <2>1
  <2> QED BY <1>1, <2>2 DEF LenCounts, Bindings, BoundKeys
<1>7. GoodTable(Now', current)
  BY <1>2, <1>3, <1>5, SetGood
<1>8. Holds(map', Now', current)
  <2>1. \A u \in SlotsOf(current) : u # wslot => ~FullKey(Now, u, wkey)
    BY <1>2, <1>3 DEF GoodTable, FullKey
  <2>2. map = [map EXCEPT ![wkey] = Null]
    BY <1>2, <1>3
  <2>3. Holds(map, Now', current)
    BY <1>2, <1>3, <1>5, <2>1, <2>2, HoldsSet DEF Rebinds
  <2> QED BY <1>1, <2>3
<1>9. WriterTypes'
  BY <1>1, <1>2, <1>5 DEF MapTypeOK, WriterTypes
<1>10. ValuesPlaced' /\ WriterPlaced'
  BY <1>1, <1>2, <1>3, <1>5 DEF ShardInv, WriterInv, ValuesPlaced, WriterPlaced, SlotSet
<1>11. ASSUME NEW r \in MapReaders, stable'[r] # Null
       PROVE  stable'[r] = stable[r] /\ map'[rkey[r]] = map[rkey[r]] /\ KeepsKey(rkey[r])
  <2>1. rkey[r] # wkey
    BY <1>1, <1>3, <1>11, CurrentTable
  <2>2. KeepsKey(rkey[r])
    BY <1>3, <1>5, <2>1, KeyKept
  <2> QED BY <1>1, <2>2
<1> QED BY <1>1, <1>3, <1>4, <1>6, <1>7, <1>8, <1>9, <1>10, <1>11, SlotStep

-----------------------------------------------------------------------------
(* resize_locked *)

\* A resize with nothing moved.
LEMMA ResizeStartKeeps ==
  ASSUME ShardInv, ResizeStart
  PROVE  ShardInv'
<1> DEFINE t == current + 1
<1>1. /\ wpc = "insert" /\ wpc' = "resize" /\ table' = table /\ current' = current /\ len' = len
      /\ wkey' = wkey /\ wval' = wval /\ wslot' = wslot /\ moved' = 0 /\ current < MaxTables
      /\ fresh' = [s \in SlotsOf(t) |-> Free]
      /\ inserts' = inserts /\ removes' = removes /\ keyOf' = keyOf /\ map' = map
      /\ UNCHANGED reader /\ Touch(Keys)
  BY DEF ResizeStart
<1>2. /\ MapTypeOK /\ IsTables /\ current \in Tables /\ GoodTable(Now, current) /\ Null \notin Values
      /\ Holds(map, Now, current)
  BY <1>1, CurrentTable
<1>3. Now' = Now
  BY <1>1 DEF Now
<1>4. t \in Tables /\ Size(current) \in Nat /\ Size(MaxTables) \in Nat
  <2>1. t \in Tables /\ MaxTables \in Tables
    BY <1>1, <1>2, ShardedMapAssumption DEF Tables
  <2> QED BY <1>2, <2>1, SizeType
<1>5. /\ \A u \in SlotsOf(t) : fresh'[u] = Free /\ fresh'[u].state = "Empty"
      /\ fresh' \in [SlotsOf(t) -> SlotType]
  <2>1. Free \in SlotType /\ Free.state = "Empty"
    BY DEF Free, SlotType
  <2> HIDE DEF t
  <2> QED BY <1>1, <2>1
<1> HIDE DEF t
<1>6. stable' \in [MapReaders -> Values \union {Null}] /\ \A r \in MapReaders : stable'[r] = Null
  BY <1>1, Touched, CurrentTable
<1>7. WriterTypes'
  <2>1. moved' \in 0..Size(MaxTables)
    BY <1>1, <1>4
  <2> QED BY <1>1, <1>2, <1>6, <2>1 DEF MapTypeOK, WriterTypes
<1>8. OldTablesOwnNothing' /\ IsTables' /\ LenCounts'
  BY <1>1 DEF ShardInv, OwnershipInv, OldTablesOwnNothing, IsTables, LenCounts, Bindings
<1>9. ValuesPlaced' /\ WriterPlaced'
  <2>1. \A s \in SlotsOf(current) : ~(s < 0)
    BY <1>2, SlotsFinite
  <2> QED BY <1>1, <1>3, <2>1 DEF ShardInv, WriterInv, ValuesPlaced, WriterPlaced
<1>10. FreshPlaced'
  <2>1. GoodTable(fresh', t)
    BY <1>5 DEF GoodTable
  <2>2. FreshFull' = {}
    BY <1>1, <1>5 DEF FreshFull, t
  <2>3. Cardinality(FreshFull') <= 0
    BY <2>2, FS_EmptySet
  <2>4. 0 \in 0..Size(current)
    BY <1>4
  <2> QED BY <1>1, <1>3, <1>5, <2>1, <2>3, <2>4 DEF FreshPlaced, t
<1>11. MapIsBound'
  <2>1. ASSUME NEW k, NEW v, NEW u \in SlotsOf(t) PROVE ~Entry(fresh', u, k, v)
    BY <1>5 DEF Entry, FullKey
  <2>2. ASSUME NEW k \in Keys, NEW v \in Values PROVE map'[k] = v <=> Bound(k, v)'
    <3>1. Bound(k, v)' <=> \E s \in SlotsOf(current) : Entry(Now, s, k, v)
      BY <1>1, <1>3, <2>1 DEF Bound, t
    <3> QED BY <1>1, <1>2, <3>1 DEF Holds
  <2> QED BY <2>2 DEF MapIsBound
<1>12. WriterInv'
  BY <1>1, <1>2, <1>3, <1>9, <1>10, <1>11 DEF WriterInv
<1>13. LeavesReaders
  BY <1>1, <1>6 DEF LeavesReaders
<1>14. ReadersPlaced'
  BY <1>13, ReadersKept DEF ShardInv, OwnershipInv
<1> QED BY <1>1, <1>7, <1>8, <1>12, <1>14, WriterKeeps

\* A resize under way: the new table is the bigger one and no get has a stable binding.
LEMMA Resizing ==
  ASSUME ShardInv, wpc = "resize"
  PROVE  /\ current + 1 \in Tables /\ Size(current) \in Nat \ {0} /\ Size(current + 1) = 2 * Size(current)
         /\ SlotsOf(current) = 0..(Size(current) - 1) /\ moved \in 0..Size(current)
         /\ wkey \in Keys /\ wval \in Values /\ GoodTable(fresh, current + 1)
         /\ \A r \in MapReaders : stable[r] = Null
<1>1. current \in Tables /\ \A r \in MapReaders : stable[r] = Null
  BY CurrentTable
<1>2. current < MaxTables /\ moved \in 0..Size(current) /\ GoodTable(fresh, current + 1)
  BY DEF ShardInv, WriterInv, FreshPlaced
<1>3. current + 1 \in Tables
  BY <1>1, <1>2, ShardedMapAssumption DEF Tables
<1>4. Size(current) \in Nat \ {0} /\ Size(current + 1) = 2 * Size(current)
  BY <1>1, <1>3, SizeType, SizeStep
<1>5. wkey \in Keys /\ wval \in Values
  BY DEF ShardInv, WriterInv, WriterPlaced
<1> QED BY <1>1, <1>2, <1>3, <1>4, <1>5 DEF SlotsOf

\* The new table has room for what is still to be moved.
LEMMA FreshHasRoom ==
  ASSUME ShardInv, wpc = "resize", moved < Size(current), NEW k \in Keys
  PROVE  LET n == ProbeLength(fresh, k, current + 1)
             p == Nth(k, current + 1, n)
         IN  /\ p \in SlotsOf(current + 1) /\ fresh[p].state = "Empty"
             /\ ReachesSlot(fresh, k, current + 1, p)
<1> DEFINE t == current + 1
           n == ProbeLength(fresh, k, t)
           p == Nth(k, t, n)
<1>1. /\ t \in Tables /\ Size(current) \in Nat \ {0} /\ Size(t) = 2 * Size(current) /\ moved \in 0..Size(current)
  BY Resizing
<1>2. /\ \A u \in SlotsOf(t) : fresh[u] = Free \/ (fresh[u].state = "Full" /\ fresh[u].value # Null)
      /\ Cardinality(FreshFull) <= moved
  BY DEF ShardInv, WriterInv, FreshPlaced
<1>3. FreshFull = {u \in SlotsOf(t) : fresh[u].state = "Full"}
  BY DEF FreshFull
<1>4. k \in Nat
  BY ShardedMapAssumption
<1> HIDE DEF t
<1>5. /\ n \in 0..Size(t)
      /\ \A m \in 0..(n - 1) : fresh[Nth(k, t, m)].state # "Empty"
      /\ n < Size(t) => n \in SlotsOf(t) /\ fresh[Nth(k, t, n)].state = "Empty"
  BY <1>1, <1>4, ProbeEnds
<1> HIDE DEF n
<1>6. n < Size(t)
  <2> SUFFICES ASSUME n = Size(t) PROVE FALSE
    BY <1>1, <1>5
  <2>1. ASSUME NEW u \in SlotsOf(t) PROVE u \in FreshFull
    <3>1. PICK m \in SlotsOf(t) : Nth(k, t, m) = u
      BY <1>1, <1>4, NthOnto
    <3>2. fresh[u].state # "Empty"
      BY <1>5, <3>1 DEF SlotsOf
    <3>3. Free.state = "Empty"
      BY DEF Free
    <3> QED BY <1>2, <1>3, <3>2, <3>3
  <2>2. FreshFull = SlotsOf(t)
    BY <1>3, <2>1
  <2>3. Cardinality(FreshFull) = Size(t)
    BY <1>1, <2>2, SlotsFinite
  <2> QED BY <1>1, <1>2, <2>3
<1>7. n \in SlotsOf(t) /\ fresh[p].state = "Empty" /\ n \in Nat
  BY <1>1, <1>5, <1>6
<1>8. p \in SlotsOf(t)
  BY <1>1, <1>4, <1>7, NthSlot
<1>9. ReachesSlot(fresh, k, t, p)
  BY <1>5, <1>7 DEF ReachesSlot, Reaches
<1> QED BY <1>7, <1>8, <1>9 DEF n, t

\* A slot is moved: what was in the old table is in the new one.
LEMMA MoveKeeps ==
  ASSUME ShardInv, wpc = "resize", moved < Size(current), NEW k, NEW v, NEW p,
         FullKey(Now, moved, k), Now[moved].value = v, v # Null,
         p = Nth(k, current + 1, ProbeLength(fresh, k, current + 1)),
         SetSlot(moved, "value", Null),
         fresh' = [fresh EXCEPT ![p] = [state |-> "Full", key |-> k, value |-> v]],
         moved' = moved + 1, UNCHANGED reader,
         UNCHANGED <<current, len, wpc, wkey, wval, wslot, inserts, removes, keyOf, map, stable>>
  PROVE  ShardInv'
<1> DEFINE t == current + 1
<1>1. /\ t \in Tables /\ Size(current) \in Nat \ {0} /\ SlotsOf(current) = 0..(Size(current) - 1)
      /\ moved \in 0..Size(current) /\ GoodTable(fresh, t) /\ \A r \in MapReaders : stable[r] = Null
  BY Resizing
<1>2. moved \in SlotsOf(current) /\ moved \in Nat /\ moved + 1 \in 0..Size(current)
  BY <1>1
<1>3. /\ MapTypeOK /\ IsTables /\ current \in Tables /\ GoodTable(Now, current) /\ Null \notin Values
      /\ Now[moved].value \in Values \union {Null}
  BY <1>2, CurrentTable
<1>4. k \in Keys /\ v \in Values /\ Now[moved].state = "Full" /\ Now[moved].key = k
  BY <1>2, <1>3 DEF GoodTable, FullKey
<1>5. /\ \A u \in SlotsOf(t) : fresh[u] = Free \/ (fresh[u].state = "Full" /\ fresh[u].value # Null)
      /\ Cardinality(FreshFull) <= moved
      /\ \A u \in SlotsOf(t), s \in SlotsOf(current) :
           fresh[u].state = "Full" /\ Now[s].state = "Full" /\ moved <= s => fresh[u].key # Now[s].key
  BY DEF ShardInv, WriterInv, FreshPlaced
<1>6. p \in SlotsOf(t) /\ fresh[p].state = "Empty" /\ ReachesSlot(fresh, k, t, p)
  BY <1>4, FreshHasRoom
<1> HIDE DEF t
<1>7. SlotBecomes(moved, "Full", k, Null)
  <2>1. SlotBecomes(moved, Now[moved].state, Now[moved].key, Null)
    BY <1>2, <1>3, SetFields
  <2> QED BY <1>4, <2>1
<1>8. /\ SlotSet(Now, Now', current, moved, "Full", k, Null) /\ OldTablesOwnNothing' /\ IsTables'
      /\ \A q \in Tables : table'[q] \in [SlotsOf(q) -> SlotType]
  BY <1>2, <1>7, TablesKept
<1>9. SlotSet(fresh, fresh', t, p, "Full", k, v)
  <2>1. fresh \in [SlotsOf(t) -> SlotType]
    BY <1>1 DEF GoodTable
  <2>2. [state |-> "Full", key |-> k, value |-> v] \in SlotType
    BY <1>4 DEF SlotType
  <2> QED BY <1>6, <2>1, <2>2 DEF SlotSet
<1>10. WriterTypes'
  <2>1. moved' \in 0..Size(MaxTables)
    <3>1. Size(current) \in 0..Size(MaxTables) /\ Size(MaxTables) \in Nat
      <4>1. MaxTables \in Tables
        BY ShardedMapAssumption DEF Tables
      <4> QED BY <1>3, <4>1, SlotsFit, SizeType
    <3> QED BY <1>2, <3>1
  <2> QED BY <1>3, <1>8, <2>1 DEF MapTypeOK, WriterTypes
<1>11. LenCounts'
  BY DEF ShardInv, LenCounts, Bindings
<1>12. GoodTable(Now', current)
  BY <1>2, <1>3, <1>4, <1>8, SetGood
<1>13. ValuesPlaced'
  <2>1. \A s \in SlotsOf(current) : s < moved + 1 <=> (s < moved \/ s = moved)
    BY <1>1, <1>2
  <2> QED BY <1>2, <1>8, <2>1 DEF ShardInv, WriterInv, ValuesPlaced, SlotSet
<1>14. WriterPlaced'
  BY DEF ShardInv, WriterInv, WriterPlaced
<1>15. GoodTable(fresh', t)
  <2>1. NoNewEmpty(fresh, fresh', t)
    BY <1>1, <1>6, <1>9, SetNoEmpty
  <2>2. \A u \in SlotsOf(t) : ~FullKey(fresh, u, k)
    BY <1>2, <1>4, <1>5 DEF FullKey
  <2>3. /\ fresh' \in [SlotsOf(t) -> SlotType] /\ fresh'[p].key = k
        /\ \A s \in SlotsOf(t) : s # p /\ fresh'[s].state = "Full" =>
             fresh[s].state = "Full" /\ fresh'[s].key = fresh[s].key
    BY <1>9 DEF SlotSet
  <2>4. Adds(fresh, fresh', t, p, k)
    BY <1>4, <1>6, <2>1, <2>2, <2>3 DEF Adds
  <2> QED BY <1>1, <2>4, GoodAdded
<1>16. FreshPlaced'
  <2>1. current < MaxTables
    BY DEF ShardInv, WriterInv, FreshPlaced
  <2>2. \A u \in SlotsOf(t) : fresh'[u] = Free \/ (fresh'[u].state = "Full" /\ fresh'[u].value # Null)
    BY <1>5, <1>9 DEF SlotSet
  <2>3. Cardinality(FreshFull') <= moved + 1
    <3>1. FreshFull' = FreshFull \union {p} /\ p \notin FreshFull
      BY <1>6, <1>9 DEF FreshFull, SlotSet, t
    <3>2. IsFiniteSet(FreshFull)
      <4>1. FreshFull \subseteq SlotsOf(t) /\ IsFiniteSet(SlotsOf(t))
        BY <1>1, SlotsFinite DEF FreshFull, t
      <4> QED BY <4>1, FS_Subset
    <3>3. Cardinality(FreshFull') = Cardinality(FreshFull) + 1 /\ Cardinality(FreshFull) \in Nat
      BY <3>1, <3>2, FS_AddElement, FS_CardinalityType
    <3> QED BY <1>2, <1>5, <3>3
  <2>4. ASSUME NEW u \in SlotsOf(t), NEW s \in SlotsOf(current), fresh'[u].state = "Full",
               Now'[s].state = "Full", moved + 1 <= s
        PROVE  fresh'[u].key # Now'[s].key
    <3>1. s # moved /\ moved <= s
      BY <1>1, <1>2, <2>4
    <3>2. Now'[s] = Now[s]
      BY <1>8, <3>1 DEF SlotSet
    <3>3. CASE u = p
      <4>1. Now[s].key # k
        BY <1>2, <1>3, <1>4, <2>4, <3>1, <3>2 DEF GoodTable
      <4> QED BY <1>9, <3>2, <3>3, <4>1 DEF SlotSet
    <3>4. CASE u # p
      BY <1>5, <1>9, <2>4, <3>1, <3>2, <3>4 DEF SlotSet
    <3> QED BY <3>3, <3>4
  <2>5. /\ wpc' = wpc /\ current' = current /\ moved' = moved + 1
    OBVIOUS
  <2> QED BY <1>2, <1>15, <2>1, <2>2, <2>3, <2>4, <2>5 DEF FreshPlaced, t
<1>17. MapIsBound'
  <2>1. ASSUME NEW j \in Keys, NEW w \in Values PROVE map'[j] = w <=> Bound(j, w)'
    <3>1. map[j] = w <=> Bound(j, w)
      BY DEF ShardInv, WriterInv, MapIsBound
    <3>2. Bound(j, w) <=> \/ \E s \in SlotsOf(current) : Entry(Now, s, j, w)
                          \/ \E u \in SlotsOf(t) : Entry(fresh, u, j, w)
      BY DEF Bound, t
    <3>3. Bound(j, w)' <=> \/ \E s \in SlotsOf(current) : Entry(Now', s, j, w)
                           \/ \E u \in SlotsOf(t) : Entry(fresh', u, j, w)
      BY DEF Bound, t
    <3>4. \A s \in SlotsOf(current) : s # moved => (Entry(Now', s, j, w) <=> Entry(Now, s, j, w))
      BY <1>8 DEF SlotSet, Entry, FullKey
    <3>5. ~Entry(Now', moved, j, w)
      BY <1>3, <1>8 DEF SlotSet, Entry, FullKey
    <3>6. \A u \in SlotsOf(t) : u # p => (Entry(fresh', u, j, w) <=> Entry(fresh, u, j, w))
      BY <1>9 DEF SlotSet, Entry, FullKey
    <3>7. Entry(fresh', p, j, w) <=> Entry(Now, moved, j, w)
      BY <1>4, <1>9 DEF SlotSet, Entry, FullKey
    <3>8. ~Entry(fresh, p, j, w)
      BY <1>6 DEF Entry, FullKey
    <3>9. Bound(j, w)' <=> Bound(j, w)
      BY <1>2, <1>6, <3>2, <3>3, <3>4, <3>5, <3>6, <3>7, <3>8
    <3> QED BY <3>1, <3>9
  <2> QED BY <2>1 DEF MapIsBound
<1>18. WriterInv'
  BY <1>12, <1>13, <1>14, <1>16, <1>17 DEF WriterInv
<1>19. LeavesReaders
  BY <1>1 DEF LeavesReaders
<1>20. ReadersPlaced'
  BY <1>19, ReadersKept DEF ShardInv, OwnershipInv
<1> QED BY <1>8, <1>10, <1>11, <1>18, <1>20, WriterKeeps

\* A slot that holds nothing is passed over.
LEMMA SkipKeeps ==
  ASSUME ShardInv, wpc = "resize", moved < Size(current), Now[moved].state # "Full",
         moved' = moved + 1, UNCHANGED reader,
         UNCHANGED <<table, fresh, current, len, wpc, wkey, wval, wslot, inserts, removes, keyOf, map, stable>>
  PROVE  ShardInv'
<1>1. /\ current + 1 \in Tables /\ Size(current) \in Nat \ {0} /\ SlotsOf(current) = 0..(Size(current) - 1)
      /\ moved \in 0..Size(current) /\ \A r \in MapReaders : stable[r] = Null
  BY Resizing
<1>2. moved \in SlotsOf(current) /\ moved \in Nat /\ moved + 1 \in 0..Size(current)
  BY <1>1
<1>3. MapTypeOK /\ current \in Tables /\ GoodTable(Now, current)
  BY CurrentTable
<1>4. Now' = Now
  BY DEF Now
<1>5. WriterTypes'
  <2>1. moved' \in 0..Size(MaxTables)
    <3>1. Size(current) \in 0..Size(MaxTables) /\ Size(MaxTables) \in Nat
      <4>1. MaxTables \in Tables
        BY ShardedMapAssumption DEF Tables
      <4> QED BY <1>3, <4>1, SlotsFit, SizeType
    <3> QED BY <1>2, <3>1
  <2> QED BY <1>3, <2>1 DEF MapTypeOK, WriterTypes
<1>6. OldTablesOwnNothing' /\ IsTables' /\ LenCounts'
  BY DEF ShardInv, OwnershipInv, OldTablesOwnNothing, IsTables, LenCounts, Bindings
<1>7. ValuesPlaced'
  <2>1. \A s \in SlotsOf(current) : s < moved + 1 <=> (s < moved \/ s = moved)
    BY <1>1, <1>2
  <2> QED BY <1>2, <1>4, <2>1 DEF ShardInv, WriterInv, ValuesPlaced
<1>8. WriterPlaced'
  BY DEF ShardInv, WriterInv, WriterPlaced
<1>9. FreshPlaced'
  <2>1. FreshPlaced
    BY DEF ShardInv, WriterInv
  <2>2. FreshFull' = FreshFull
    BY DEF FreshFull
  <2>3. Cardinality(FreshFull) <= moved + 1
    <3>1. Cardinality(FreshFull) <= moved
      BY <2>1 DEF FreshPlaced
    <3>2. IsFiniteSet(FreshFull)
      <4>1. FreshFull \subseteq SlotsOf(current + 1) /\ IsFiniteSet(SlotsOf(current + 1))
        BY <1>1, SlotsFinite DEF FreshFull
      <4> QED BY <4>1, FS_Subset
    <3>3. Cardinality(FreshFull) \in Nat
      BY <3>2, FS_CardinalityType
    <3> QED BY <1>2, <3>1, <3>3
  <2>4. \A s \in SlotsOf(current) : moved + 1 <= s => moved <= s
    BY <1>1, <1>2
  <2> QED BY <1>2, <1>4, <2>1, <2>2, <2>3, <2>4 DEF FreshPlaced
<1>10. MapIsBound'
  BY <1>4 DEF ShardInv, WriterInv, MapIsBound, Bound
<1>11. WriterInv'
  BY <1>3, <1>4, <1>7, <1>8, <1>9, <1>10 DEF WriterInv
<1>12. LeavesReaders
  BY <1>1 DEF LeavesReaders
<1>13. ReadersPlaced'
  BY <1>12, ReadersKept DEF ShardInv, OwnershipInv
<1> QED BY <1>5, <1>6, <1>11, <1>13, WriterKeeps

\* One slot of a resize.
LEMMA ResizeMoveKeeps ==
  ASSUME ShardInv, ResizeMove
  PROVE  ShardInv'
<1> DEFINE old == Now[moved]
           p == Nth(old.key, current + 1, ProbeLength(fresh, old.key, current + 1))
<1>1. /\ wpc = "resize" /\ moved < Size(current) /\ moved' = moved + 1 /\ UNCHANGED reader
      /\ UNCHANGED <<current, len, wpc, wkey, wval, wslot, inserts, removes, keyOf, map, stable>>
      /\ IF old.state = "Full" /\ old.value # Null
         THEN /\ SetSlot(moved, "value", Null)
              /\ fresh' = [fresh EXCEPT ![p] = [state |-> "Full", key |-> old.key, value |-> old.value]]
         ELSE UNCHANGED <<table, fresh>>
  BY DEF ResizeMove, Now, ValueTaken
<1>2. moved \in SlotsOf(current) /\ moved \in Nat
  BY <1>1, Resizing
<1>3. CASE old.state = "Full" /\ old.value # Null
  <2>1. FullKey(Now, moved, old.key)
    BY <1>3 DEF FullKey
  <2> QED BY <1>1, <1>3, <2>1, MoveKeeps
<1>4. CASE ~(old.state = "Full" /\ old.value # Null)
  <2>1. old.state # "Full"
    <3>1. old.state = "Full" => old.value # Null
      BY <1>1, <1>2 DEF ShardInv, WriterInv, ValuesPlaced
    <3> QED BY <1>4, <3>1
  <2> QED BY <1>1, <1>4, <2>1, SkipKeeps
<1> QED BY <1>3, <1>4

\* The new table is published.
LEMMA ResizePublishKeeps ==
  ASSUME ShardInv, ResizePublish
  PROVE  ShardInv'
<1> DEFINE t == current + 1
<1>1. /\ wpc = "resize" /\ wpc' = "insert" /\ moved = Size(current) /\ current' = t
      /\ table' = [table EXCEPT ![t] = fresh] /\ len' = len /\ wkey' = wkey /\ wval' = wval /\ wslot' = wslot
      /\ moved' = moved /\ inserts' = inserts /\ removes' = removes /\ keyOf' = keyOf /\ map' = map
      /\ UNCHANGED reader /\ stable' = stable
  BY DEF ResizePublish
<1>2. /\ t \in Tables /\ Size(current) \in Nat \ {0} /\ SlotsOf(current) = 0..(Size(current) - 1)
      /\ GoodTable(fresh, t) /\ wkey \in Keys /\ wval \in Values /\ \A r \in MapReaders : stable[r] = Null
  BY <1>1, Resizing
<1>3. MapTypeOK /\ IsTables /\ current \in Tables /\ Null \notin Values
  BY CurrentTable
<1>4. \A s \in SlotsOf(current) : Now[s].value = Null
  <2>1. \A s \in SlotsOf(current) : s < moved
    BY <1>1, <1>2
  <2> QED BY <1>1, <2>1 DEF ShardInv, WriterInv, ValuesPlaced
<1>5. \A u \in SlotsOf(t) : fresh[u] = Free \/ (fresh[u].state = "Full" /\ fresh[u].value # Null)
  BY <1>1 DEF ShardInv, WriterInv, FreshPlaced
<1>6. t # current /\ t \in Int /\ current \in Int /\ t - 1 = current
  BY <1>3 DEF Tables
<1>7. /\ IsTables' /\ Now' = fresh /\ \A q \in Tables : q # t => table'[q] = table[q]
  <2>1. table = [q \in Tables |-> table[q]]
    BY <1>3 DEF IsTables
  <2>2. table'[t] = fresh /\ \A q \in Tables : q # t => table'[q] = table[q]
    BY <1>1, <1>2, <2>1
  <2>3. table' = [q \in Tables |-> table'[q]]
    BY <1>1, <2>1
  <2> QED BY <1>1, <2>2, <2>3 DEF IsTables, Now
<1> HIDE DEF t
<1>8. OldTablesOwnNothing'
  <2>1. ASSUME NEW q \in 1..(t - 1), NEW s \in SlotsOf(q) PROVE table'[q][s].value = Null
    <3>1. q \in Tables /\ q # t /\ (q = current \/ q \in 1..(current - 1))
      BY <1>3, <1>6, ShardedMapAssumption DEF Tables
    <3>2. table'[q] = table[q]
      BY <1>7, <3>1
    <3>3. table[q][s].value = Null
      BY <1>4, <2>1, <3>1 DEF ShardInv, OwnershipInv, OldTablesOwnNothing, Now
    <3> QED BY <3>2, <3>3
  <2> QED BY <1>1, <2>1 DEF OldTablesOwnNothing
<1>9. WriterTypes'
  <2>1. \A q \in Tables : table'[q] \in [SlotsOf(q) -> SlotType]
    <3>1. table'[t] \in [SlotsOf(t) -> SlotType]
      BY <1>1, <1>2, <1>7 DEF Now, GoodTable
    <3> QED BY <1>3, <1>7, <3>1 DEF MapTypeOK
  <2> QED BY <1>1, <1>2, <1>3, <2>1 DEF MapTypeOK, WriterTypes
<1>10. LenCounts'
  BY <1>1 DEF ShardInv, LenCounts, Bindings
<1>11. ValuesPlaced' /\ WriterPlaced' /\ FreshPlaced'
  <2>1. Free.state = "Empty" /\ Free.value = Null
    BY DEF Free
  <2>2. ValuesPlaced'
    BY <1>1, <1>5, <1>7, <2>1 DEF ValuesPlaced
  <2> QED BY <1>1, <1>2, <2>2 DEF WriterPlaced, FreshPlaced
<1>12. MapIsBound'
  <2>1. ASSUME NEW j \in Keys, NEW w \in Values PROVE map'[j] = w <=> Bound(j, w)'
    <3>1. map[j] = w <=> Bound(j, w)
      BY DEF ShardInv, WriterInv, MapIsBound
    <3>2. Bound(j, w) <=> \/ \E s \in SlotsOf(current) : Entry(Now, s, j, w)
                          \/ \E u \in SlotsOf(t) : Entry(fresh, u, j, w)
      BY <1>1 DEF Bound, t
    <3>3. \A s \in SlotsOf(current) : ~Entry(Now, s, j, w)
      BY <1>3, <1>4 DEF Entry
    <3>4. Bound(j, w)' <=> \E u \in SlotsOf(t) : Entry(fresh, u, j, w)
      BY <1>1, <1>7 DEF Bound
    <3> QED BY <1>1, <3>1, <3>2, <3>3, <3>4
  <2> QED BY <2>1 DEF MapIsBound
<1>13. WriterInv'
  BY <1>1, <1>2, <1>7, <1>11, <1>12 DEF WriterInv
<1>14. ReadersPlaced'
  <2>1. \A r \in MapReaders : stable'[r] = Null
    BY <1>1, <1>2
  <2> QED BY <1>1, <2>1 DEF ShardInv, ReadersPlaced, IsGets, reader
<1> QED BY <1>1, <1>7, <1>8, <1>9, <1>10, <1>13, <1>14, WriterKeeps

-----------------------------------------------------------------------------
(* The invariant *)

\* The first table is empty, no key is bound, no get runs.
LEMMA ShardInit == MapInit => ShardInv
<1> SUFFICES ASSUME MapInit PROVE ShardInv
  OBVIOUS
<1>1. /\ table = [t \in Tables |-> [s \in SlotsOf(t) |-> Free]] /\ current = 1 /\ len = 0 /\ wpc = "idle"
      /\ wkey = 0 /\ wval = Null /\ wslot = 0 /\ moved = 0 /\ inserts = 0 /\ removes = 0
      /\ keyOf = [v \in Values |-> 0] /\ map = [k \in Keys |-> Null]
      /\ rpc = [r \in MapReaders |-> "idle"] /\ rkey = [r \in MapReaders |-> 0]
      /\ rtable = [r \in MapReaders |-> 1] /\ rslot = [r \in MapReaders |-> 0] /\ rcount = [r \in MapReaders |-> 0]
      /\ result = [r \in MapReaders |-> Null] /\ stable = [r \in MapReaders |-> Null]
  BY DEF MapInit
<1>2. 1 \in Tables /\ MaxTables \in Tables
  BY ShardedMapAssumption DEF Tables
<1>3. Size(1) \in Nat \ {0} /\ Size(MaxTables) \in Nat \ {0}
  BY <1>2, SizeType
<1>4. 0 \in SlotsOf(1) /\ 0 \in SlotsOf(MaxTables) /\ 0 \in 0..Size(1) /\ 0 \in 0..Size(MaxTables)
  BY <1>3 DEF SlotsOf
<1>5. Free \in SlotType /\ Free.state = "Empty" /\ Free.value = Null
  BY DEF Free, SlotType
<1>6. \A t \in Tables : table[t] = [s \in SlotsOf(t) |-> Free]
  BY <1>1
<1>7. Now = [s \in SlotsOf(1) |-> Free]
  BY <1>1, <1>2, <1>6 DEF Now
<1>8. BoundKeys(map) = {} /\ Bindings = {} /\ Cardinality(Bindings) = 0
  <2>1. Bindings = {}
    BY <1>1 DEF Bindings
  <2> QED BY <2>1, FS_EmptySet DEF Bindings, BoundKeys
<1>9. MapTypeOK
  <2>1. \A t \in Tables : table[t] \in [SlotsOf(t) -> SlotType]
    BY <1>5, <1>6
  <2>2. len \in 0..Cardinality(Keys)
    <3>1. Cardinality(Keys) \in Nat
      BY ShardedMapAssumption, FS_CardinalityType
    <3> QED BY <1>1, <3>1
  <2>3. inserts \in 0..MaxInsert /\ removes \in 0..MaxRemove
    BY <1>1, ShardedMapAssumption
  <2>4. \A r \in MapReaders : rslot[r] \in SlotsOf(rtable[r]) /\ rcount[r] \in 0..Size(rtable[r])
    BY <1>1, <1>4
  <2> QED BY <1>1, <1>2, <1>4, <2>1, <2>2, <2>3, <2>4 DEF MapTypeOK
<1>10. OldTablesOwnNothing /\ IsTables
  <2>1. OldTablesOwnNothing
    BY <1>1 DEF OldTablesOwnNothing
  <2>2. IsTables
    BY <1>1 DEF IsTables
  <2> QED BY <2>1, <2>2
<1>11. GoodTable(Now, current)
  BY <1>1, <1>5, <1>7 DEF GoodTable
<1>12. ValuesPlaced /\ WriterPlaced /\ FreshPlaced
  BY <1>1, <1>5, <1>7 DEF ValuesPlaced, WriterPlaced, FreshPlaced
<1>13. MapIsBound
  <2>1. \A v \in Values : v # Null
    BY DEF Values, Null
  <2> QED BY <1>1, <1>5, <1>7, <2>1 DEF MapIsBound, Bound, Entry, FullKey
<1>14. LenCounts
  BY <1>1, <1>8 DEF LenCounts
<1>15. ReadersPlaced
  BY <1>1 DEF ReadersPlaced, IsGets
<1> QED BY <1>9, <1>10, <1>11, <1>12, <1>13, <1>14, <1>15 DEF ShardInv, OwnershipInv, WriterInv

\* Every step of a writer or of a get keeps the invariant.
LEMMA ShardNext == ShardInv /\ [MapNext]_map_vars => ShardInv'
<1> SUFFICES ASSUME ShardInv, [MapNext]_map_vars PROVE ShardInv'
  OBVIOUS
<1>1. CASE WriterStep
  <2>1. ASSUME NEW k \in Keys, InsertLock(k) \/ RemoveTake(k) PROVE ShardInv'
    BY <2>1, InsertLockKeeps, RemoveTakeKeeps
  <2>2. CASE InsertOverwrite
    BY <2>2, InsertOverwriteKeeps
  <2>3. CASE OccupyReserve \/ OccupyKey \/ OccupyValue \/ OccupyFull
    BY <2>3, OccupyReserveKeeps, OccupyKeyKeeps, OccupyValueKeeps, OccupyFullKeeps
  <2>4. CASE ResizeStart \/ ResizeMove \/ ResizePublish
    BY <2>4, ResizeStartKeeps, ResizeMoveKeeps, ResizePublishKeeps
  <2>5. CASE RemoveTombstone
    BY <2>5, RemoveTombstoneKeeps
  <2> QED BY <1>1, <2>1, <2>2, <2>3, <2>4, <2>5 DEF WriterStep
<1>2. CASE \E r \in MapReaders : ReaderStep(r)
  <2>1. PICK r \in MapReaders : ReaderStep(r)
    BY <1>2
  <2>2. CASE \E k \in Keys : GetStart(r, k)
    BY <2>2, GetStartKeeps
  <2>3. CASE GetState(r) \/ GetKey(r) \/ GetValue(r) \/ GetReturn(r)
    BY <2>3, GetStateKeeps, GetKeyKeeps, GetValueKeeps, GetReturnKeeps
  <2> QED BY <2>1, <2>2, <2>3 DEF ReaderStep
<1>3. CASE UNCHANGED map_vars
  <2>1. ReadsOnly /\ UNCHANGED reader /\ stable' = stable
    BY <1>3 DEF map_vars, ReadsOnly
  <2>2. ReaderTypes'
    BY <2>1 DEF ShardInv, OwnershipInv, MapTypeOK, ReaderTypes, reader
  <2>3. \A j : KeepsKey(j)
    BY <2>1, WriterPartKept DEF KeepsKey
  <2>4. wpc' = wpc /\ map' = map /\ current' = current
    BY <2>1, WriterPartKept
  <2>5. LeavesReaders
    BY <2>1, <2>3, <2>4, CurrentTable DEF LeavesReaders
  <2>6. ReadersPlaced'
    BY <2>5, ReadersKept DEF ShardInv, OwnershipInv
  <2> QED BY <2>1, <2>2, <2>6, GetKeeps
<1> QED BY <1>1, <1>2, <1>3 DEF MapNext

\* In every state of every run of one shard, whatever the keys, the readers and the resizes: every
\* key of the published table is where its probe finds it, the bindings are the entries, and a get
\* of a key that nobody writes has not passed the key's slot.
THEOREM ShardInvHolds == MapSpec => []ShardInv
BY ShardInit, ShardNext, PTL DEF MapSpec

\* The variables keep their types, the bounds of `len` and of the probe among them, and a table that
\* a resize replaced holds no pointer, so dropping it frees nothing the new one owns.
THEOREM OwnershipHolds == MapSpec => []OwnershipInv
<1>1. ShardInv => OwnershipInv
  BY DEF ShardInv
<1> QED BY <1>1, ShardInvHolds, PTL

\* Between writes every key's probe finds its binding and nothing else, `len` counts the bindings
\* and no key is in the table twice.
THEOREM TableStaysMap == MapSpec => []TableIsMap
<1>1. ShardInv => TableIsMap
  <2> SUFFICES ASSUME ShardInv, wpc = "idle"
               PROVE  /\ \A k \in Keys : Lookup(k) = map[k]
                      /\ len = Cardinality({k \in Keys : map[k] # Null})
                      /\ \A k \in Keys : Cardinality({s \in SlotsOf(current) :
                           table[current][s].state = "Full" /\ table[current][s].key = k}) <= 1
    BY DEF TableIsMap
  <2>1. /\ current \in Tables /\ GoodTable(Now, current) /\ map \in [Keys -> Values \union {Null}]
        /\ Null \notin Values /\ Holds(map, Now, current) /\ len = Cardinality(BoundKeys(map)) + 0
    BY CurrentTable
  <2>2. ASSUME NEW k \in Keys PROVE Lookup(k) = map[k]
    <3> DEFINE H == Hits(Now, k, current)
    <3>1. Lookup(k) = IF H # {} THEN Now[Nth(k, current, First(H))].value ELSE Null
      BY DEF Lookup, Found, FoundSlot, Now
    <3> HIDE DEF H
    <3>2. CASE \E s \in SlotsOf(current) : FullKey(Now, s, k)
      <4>1. PICK s \in SlotsOf(current) : FullKey(Now, s, k)
        BY <3>2
      <4>2. H # {} /\ Nth(k, current, First(H)) = s
        BY <2>1, <4>1, FoundThere DEF H
      <4>3. Now[s].value # Null
        BY <4>1 DEF ShardInv, WriterInv, ValuesPlaced, FullKey
      <4>4. Now[s].value \in Values
        BY <4>3, CurrentTable
      <4>5. map[k] = Now[s].value
        BY <2>1, <4>1, <4>4, BoundThere
      <4> QED BY <3>1, <4>2, <4>5
    <3>3. CASE \A s \in SlotsOf(current) : ~FullKey(Now, s, k)
      <4>1. H = {}
        BY <2>1, <3>3, FoundThere DEF H
      <4>2. map[k] = Null
        BY <2>1, <3>3, Unbound
      <4> QED BY <3>1, <4>1, <4>2
    <3> QED BY <3>2, <3>3
  <2>3. len = Cardinality({k \in Keys : map[k] # Null})
    <3>1. Cardinality(BoundKeys(map)) \in Nat
      BY BindingsBounded, FS_CardinalityType
    <3> QED BY <2>1, <3>1 DEF BoundKeys
  <2>4. ASSUME NEW k \in Keys
        PROVE  Cardinality({s \in SlotsOf(current) :
                 table[current][s].state = "Full" /\ table[current][s].key = k}) <= 1
    <3> DEFINE S == {s \in SlotsOf(current) : table[current][s].state = "Full" /\ table[current][s].key = k}
    <3>1. \A s, u \in S : s = u
      BY <2>1 DEF GoodTable, Now
    <3>2. S = {} \/ \E s : S = {s}
      <4> HIDE DEF S
      <4> QED BY <3>1
    <3> HIDE DEF S
    <3>3. Cardinality(S) = 0 \/ Cardinality(S) = 1
      BY <3>2, FS_EmptySet, FS_Singleton
    <3> QED BY <3>3 DEF S
  <2> QED BY <2>2, <2>3, <2>4
<1> QED BY <1>1, ShardInvHolds, PTL

\* A get of a key whose binding does not change and that overlaps no resize returns that binding,
\* however the writer's stores to other slots, tombstones and reinserts interleave with its probe.
THEOREM StableKeysFound == MapSpec => []StableKeyFound
<1>1. ShardInv => StableKeyFound
  BY DEF ShardInv, ReadersPlaced, ReaderOK, StableKeyFound
<1> QED BY <1>1, ShardInvHolds, PTL
=============================================================================
