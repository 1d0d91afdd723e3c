---------------------------- MODULE GoSlabProofs ----------------------------
(***************************************************************************)
(* Theorems about GoSlab, for any threads and any number and size of slabs.*)
(*                                                                         *)
(* That Push never hands out a key in use is not inductive.  It needs that *)
(* keys in use lie below the end of their slab, for a slot that is added   *)
(* (SlotsKept), and that the free list leads only to free slots and to     *)
(* each at most once, for one that is used again (FreeListSound).  The     *)
(* list lost behind slot 0 is no exception: nothing leads to it any more.  *)
(* How much is lost is the second part: the list leads to every free slot  *)
(* that is not lost, so a slab grows only when all others are in use.      *)
(***************************************************************************)
EXTENDS GoSlab, FiniteSetTheorems, TLAPS

Slot == [next : Indexes, data : Threads]

Types ==
  /\ items \in [Slabs -> Seq(Slot)]
  /\ \A s \in Slabs : Len(items[s]) <= MaxSlots
  /\ next \in [Slabs -> Indexes] /\ index \in Slabs
  /\ target \in [Threads -> Slabs \cup {-1}]
  /\ used \in [Keys -> Threads \cup {NoData}]

\* DataKept, by slab and index: a key in use is a slot below the end of its
\* slab, which holds the data.
InSlot(s, i) == used[KeyOf(i, s)]
SlotsKept ==
  \A s \in Slabs, i \in Indexes : InSlot(s, i) # NoData =>
    i < Len(items[s]) /\ Item(s, i).data = InSlot(s, i)

SlabInv == Types /\ SlotsKept /\ FreeListSound

-----------------------------------------------------------------------------
(* Keys *)

USE GoSlabAssumption

\* A slab and an index make a key, and each key is of one slab and one index.
LEMMA KeysOfSlots ==
  ASSUME NEW s \in Slabs, NEW i \in Indexes
  PROVE  /\ KeyOf(i, s) \in Keys
         /\ SlabOf(KeyOf(i, s)) = s
         /\ IndexOf(KeyOf(i, s)) = i
<1>1. i * SlabCnt \in Nat /\ i * SlabCnt + SlabCnt <= MaxSlots * SlabCnt
  BY DEF Indexes
<1>2. KeyOf(i, s) \in Keys
  BY <1>1 DEF KeyOf, Keys, Slabs
<1>3. SlabOf(KeyOf(i, s)) = s
  BY <1>1 DEF SlabOf, KeyOf, Slabs, Indexes
<1>4. IndexOf(KeyOf(i, s)) = i
  BY <1>1 DEF IndexOf, KeyOf, Slabs, Indexes
<1>5. QED
  BY <1>2, <1>3, <1>4

\* The way back.
LEMMA SlotsOfKeys ==
  ASSUME NEW k \in Keys
  PROVE  /\ SlabOf(k) \in Slabs
         /\ IndexOf(k) \in Indexes
         /\ KeyOf(IndexOf(k), SlabOf(k)) = k
<1>1. k \in Nat /\ SlabCnt \in Nat /\ SlabCnt > 0
  BY DEF Keys
<1>2. k % SlabCnt \in 0 .. SlabCnt - 1 /\ k \div SlabCnt \in Nat
  BY <1>1
<1>3. k = SlabCnt * (k \div SlabCnt) + (k % SlabCnt)
  BY <1>1
<1>4. k \div SlabCnt < MaxSlots
  <2>1. SUFFICES ASSUME k \div SlabCnt >= MaxSlots PROVE FALSE
    BY <1>2
  <2>2. SlabCnt * (k \div SlabCnt) >= MaxSlots * SlabCnt
    BY <2>1, <1>1, <1>2
  <2>3. QED
    BY <2>2, <1>2, <1>3 DEF Keys
<1>5. QED
  BY <1>1, <1>2, <1>3, <1>4 DEF SlabOf, IndexOf, KeyOf, Slabs, Indexes

-----------------------------------------------------------------------------
(* Steps *)

\* Different slots have different keys, so a store under one key changes what
\* is in one slot.
LEMMA KeysApart ==
  \A q, s \in Slabs, i, j \in Indexes :
    KeyOf(i, s) \in Keys /\ (KeyOf(j, q) = KeyOf(i, s) => q = s /\ j = i)
  BY KeysOfSlots

\* Overwriting one slot of a slab keeps its length and the other slots.
Overwritten(s, i, r) ==
  /\ items' \in [Slabs -> Seq(Slot)]
  /\ \A q \in Slabs : Len(items'[q]) = Len(items[q])
  /\ \A q \in Slabs, j \in Indexes : j < Len(items[q]) =>
       Item(q, j)' = IF q = s /\ j = i THEN r ELSE Item(q, j)

\* An assignment to one slot does that.
LEMMA OverwriteSlot ==
  ASSUME Types, NEW s \in Slabs, NEW i \in Indexes, i < Len(items[s]), NEW r \in Slot,
         items' = [items EXCEPT ![s][i + 1] = r]
  PROVE  Overwritten(s, i, r)
<1>1. items[s] \in Seq(Slot) /\ i + 1 \in 1 .. Len(items[s])
  BY DEF Types, Indexes
<1>2. items'[s] = [items[s] EXCEPT ![i + 1] = r]
  BY DEF Types
<1>3. items'[s] \in Seq(Slot) /\ Len(items'[s]) = Len(items[s])
  BY <1>1, <1>2
<1>4. \A q \in Slabs : q # s => items'[q] = items[q]
  BY DEF Types
<1>5. items' \in [Slabs -> Seq(Slot)]
  BY <1>3 DEF Types
<1>6. \A j \in Indexes : j < Len(items[s]) => Item(s, j)' = IF j = i THEN r ELSE Item(s, j)
  BY <1>1, <1>2, <1>3 DEF Item, Indexes
<1>7. QED
  BY <1>3, <1>4, <1>5, <1>6 DEF Overwritten, Item

\* The list of a slab a step leaves alone stays sound.
LEMMA ElsewhereSound ==
  ASSUME SlabInv, NEW q \in Slabs, items'[q] = items[q], next'[q] = next[q],
         \A j \in Indexes : InSlot(q, j)' = InSlot(q, j)
  PROVE  ListSound(q)'
<1>1. FreeSlots(q) \subseteq Indexes
  BY DEF SlabInv, Types, FreeSlots, Indexes
<1>2. FreeSlots(q)' = FreeSlots(q)
  BY DEF SlabInv, Types, FreeSlots, InSlot, Indexes
<1>3. \A j \in FreeSlots(q) : Link(q, j)' = Link(q, j)
  BY DEF Link, Item
<1>4. QED
  BY <1>2, <1>3 DEF SlabInv, FreeListSound, ListSound

\* What Grow does to the slabs: a slot more, in use, at the end of one of them.
Grown(s, t, n, r) ==
  /\ n = Len(items[s]) /\ items[s] \in Seq(Slot) /\ r = [next |-> 0, data |-> t]
  /\ items'[s] = Append(items[s], r)
  /\ \A q \in Slabs : q # s => items'[q] = items[q]
  /\ UNCHANGED next
  /\ used' \in [Keys -> Threads \cup {NoData}]
  /\ \A q \in Slabs, j \in Indexes : InSlot(q, j)' = IF q = s /\ j = n THEN t ELSE InSlot(q, j)
  /\ items'[s] \in Seq(Slot) /\ Len(items'[s]) = n + 1
  /\ \A j \in 0 .. n - 1 : Item(s, j)' = Item(s, j)
  /\ Item(s, n)' = r

\* A Push that finds no free slot does that, to the slab it was sent to.
LEMMA GrowEffect ==
  ASSUME SlabInv, NEW t \in Threads, NEW s \in Slabs, Grow(s, t)
  PROVE  \E n \in Indexes, r \in Slot : Grown(s, t, n, r)
<1> DEFINE r == [next |-> 0, data |-> t]
<1>0. PICK n \in Nat : n = Len(items[s])
  BY DEF SlabInv, Types
<1>1. /\ n \in Indexes /\ r \in Slot
      /\ items[s] \in Seq(Slot) /\ n = Len(items[s])
  <2>1. n \in Indexes
    BY <1>0 DEF Grow, Indexes
  <2>2. r \in Slot
    BY DEF Indexes, Slot
  <2>3. items[s] \in Seq(Slot)
    BY DEF SlabInv, Types
  <2>4. QED
    BY <1>0, <2>1, <2>2, <2>3
<1>2. /\ items'[s] = Append(items[s], r)
      /\ \A q \in Slabs : q # s => items'[q] = items[q]
      /\ used' = [used EXCEPT ![KeyOf(n, s)] = t]
      /\ UNCHANGED next
  BY <1>1 DEF SlabInv, Types, Grow
<1>3. /\ used' \in [Keys -> Threads \cup {NoData}]
      /\ \A q \in Slabs, j \in Indexes :
           InSlot(q, j)' = IF q = s /\ j = n THEN t ELSE InSlot(q, j)
  <2>1. Types /\ n \in Indexes /\ t \in Threads \cup {NoData}
    BY <1>1 DEF SlabInv
  <2>2. used' = [used EXCEPT ![KeyOf(n, s)] = t]
    BY <1>2
  <2>3. QED
    BY <2>1, <2>2, KeysApart DEF Types, InSlot
<1>4. /\ items'[s] \in Seq(Slot) /\ Len(items'[s]) = n + 1
      /\ \A j \in 0 .. n - 1 : Item(s, j)' = Item(s, j)
      /\ Item(s, n)' = r
  BY <1>1, <1>2 DEF Item
<1>5. Grown(s, t, n, r)
  BY <1>1, <1>2, <1>3, <1>4 DEF Grown
<1>6. QED
  BY <1>1, <1>5

\* A slab that grows keeps the invariant: the new slot is in use at once.
LEMMA GrowKeeps ==
  ASSUME SlabInv, NEW t \in Threads, NEW s \in Slabs, Grow(s, t),
         UNCHANGED index, target' = [target EXCEPT ![t] = -1]
  PROVE  SlabInv'
<1>1. PICK n \in Indexes, r \in Slot : Grown(s, t, n, r)
  BY GrowEffect
<1> USE DEF Grown
<1>2. Types'
  <2>1. items' \in [Slabs -> Seq(Slot)]
    BY <1>1 DEF SlabInv, Types, Grow
  <2>2. \A q \in Slabs : Len(items'[q]) <= MaxSlots
    BY <1>1 DEF SlabInv, Types, Grow
  <2>3. QED
    BY <2>1, <2>2, <1>1 DEF SlabInv, Types
<1>3. SlotsKept'
  <2>1. SUFFICES ASSUME NEW q \in Slabs, NEW j \in Indexes, InSlot(q, j)' # NoData
                 PROVE  j < Len(items'[q]) /\ Item(q, j)'.data = InSlot(q, j)'
    BY DEF SlotsKept, InSlot, Item
  <2>2. CASE q # s
    BY <2>1, <2>2, <1>1 DEF SlabInv, SlotsKept, Item
  <2>3. CASE q = s /\ j = n
    BY <2>3, <1>1 DEF Indexes
  <2>4. CASE q = s /\ j # n
    <3>1. InSlot(s, j) # NoData /\ InSlot(s, j)' = InSlot(s, j)
      BY <2>1, <2>4, <1>1
    <3>2. j \in 0 .. n - 1 /\ Item(s, j).data = InSlot(s, j)
      BY <3>1, <1>1 DEF SlabInv, SlotsKept, Indexes
    <3>3. QED
      BY <2>4, <3>1, <3>2, <1>1 DEF Indexes
  <2>5. QED
    BY <2>2, <2>3, <2>4
<1>4. FreeListSound'
  <2>1. SUFFICES ASSUME NEW q \in Slabs PROVE ListSound(q)'
    BY DEF FreeListSound
  <2>2. CASE q # s
    BY <2>2, <1>1, ElsewhereSound DEF SlabInv
  <2>3. CASE q = s
    <3>1. FreeSlots(s)' = FreeSlots(s)
      BY <1>1, <1>2 DEF FreeSlots, InSlot, Types, Indexes
    <3>2. \A j \in FreeSlots(s) : Link(s, j)' = Link(s, j)
      BY <1>1 DEF FreeSlots, Link
    <3>3. QED
      BY <2>3, <3>1, <3>2, <1>1 DEF SlabInv, FreeListSound, ListSound
  <2>4. QED
    BY <2>2, <2>3
<1>5. QED
  BY <1>2, <1>3, <1>4 DEF SlabInv

\* What Reuse does to the slabs: the head of one list is in use, the list goes on
\* behind it.
Reused(s, t, i, r) ==
  /\ i = next[s] /\ i \in FreeSlots(s) /\ i \in 1 .. Len(items[s]) - 1
  /\ InSlot(s, i) = NoData /\ r = [next |-> 0, data |-> t]
  /\ Link(s, i) \in Indexes /\ next' = [next EXCEPT ![s] = Link(s, i)]
  /\ used' \in [Keys -> Threads \cup {NoData}]
  /\ \A q \in Slabs, j \in Indexes : InSlot(q, j)' = IF q = s /\ j = i THEN t ELSE InSlot(q, j)
  /\ \A q \in Slabs : q # s => items'[q] = items[q]
  /\ Overwritten(s, i, r)

\* A Push that finds one does that.
LEMMA ReuseEffect ==
  ASSUME SlabInv, NEW t \in Threads, NEW s \in Slabs, Reuse(s, t)
  PROVE  \E i \in Indexes, r \in Slot : Reused(s, t, i, r)
<1>5. PICK r \in Slot : r = [next |-> 0, data |-> t]
  <2>1. [next |-> 0, data |-> t] \in Slot
    BY DEF Indexes, Slot
  <2>2. QED
    BY <2>1
<1>0. PICK i \in Indexes : i = next[s]
  BY DEF SlabInv, Types
<1>1. /\ i \in FreeSlots(s) /\ i \in 1 .. Len(items[s]) - 1 /\ InSlot(s, i) = NoData
      /\ items[s] \in Seq(Slot)
  <2>1. i \in FreeSlots(s)
    BY <1>0 DEF SlabInv, FreeListSound, ListSound, Reuse
  <2>2. items[s] \in Seq(Slot)
    BY DEF SlabInv, Types
  <2>3. QED
    BY <2>1, <2>2 DEF FreeSlots, InSlot
<1>2. /\ items' = [items EXCEPT ![s][i + 1] = r]
      /\ next' = [next EXCEPT ![s] = Link(s, i)]
      /\ used' = [used EXCEPT ![KeyOf(i, s)] = t]
  BY <1>0, <1>5 DEF Reuse, Link
<1>3. /\ used' \in [Keys -> Threads \cup {NoData}]
      /\ \A q \in Slabs, j \in Indexes :
           InSlot(q, j)' = IF q = s /\ j = i THEN t ELSE InSlot(q, j)
  <2>1. Types /\ t \in Threads \cup {NoData}
    BY DEF SlabInv
  <2>2. used' = [used EXCEPT ![KeyOf(i, s)] = t]
    BY <1>2
  <2>3. QED
    BY <2>1, <2>2, KeysApart DEF Types, InSlot
<1>4. Overwritten(s, i, r)
  <2>1. Types /\ i < Len(items[s])
    BY <1>1 DEF SlabInv
  <2>2. items' = [items EXCEPT ![s][i + 1] = r]
    BY <1>2
  <2>3. QED
    BY <2>1, <2>2, OverwriteSlot
<1>6. Link(s, i) \in Indexes
  <2>1. Item(s, i) \in Slot
    BY <1>1 DEF Item
  <2>2. QED
    BY <2>1 DEF Link, Slot
<1>7. \A q \in Slabs : q # s => items'[q] = items[q]
  BY <1>2 DEF SlabInv, Types
<1>8. Reused(s, t, i, r)
  BY <1>5, <1>0, <1>1, <1>2, <1>3, <1>4, <1>6, <1>7 DEF Reused
<1>9. QED
  BY <1>8

\* A slab that uses the head of its list again keeps the invariant.
LEMMA ReuseKeeps ==
  ASSUME SlabInv, NEW t \in Threads, NEW s \in Slabs, Reuse(s, t),
         UNCHANGED index, target' = [target EXCEPT ![t] = -1]
  PROVE  SlabInv'
<1>1. PICK i \in Indexes, r \in Slot : Reused(s, t, i, r)
  BY ReuseEffect
<1> USE DEF Reused, Overwritten
<1>2. Types'
  BY <1>1 DEF SlabInv, Types
<1>3. SlotsKept'
  <2>1. SUFFICES ASSUME NEW q \in Slabs, NEW j \in Indexes, InSlot(q, j)' # NoData
                 PROVE  j < Len(items'[q]) /\ Item(q, j)'.data = InSlot(q, j)'
    BY DEF SlotsKept, InSlot, Item
  <2>2. CASE q = s /\ j = i
    BY <2>2, <1>1
  <2>3. CASE ~(q = s /\ j = i)
    <3>1. j < Len(items[q]) /\ Item(q, j).data = InSlot(q, j) /\ InSlot(q, j)' = InSlot(q, j)
      BY <2>1, <2>3, <1>1 DEF SlabInv, SlotsKept
    <3>2. QED
      BY <2>3, <3>1, <1>1
  <2>4. QED
    BY <2>2, <2>3
<1>4. FreeListSound'
  <2>1. SUFFICES ASSUME NEW q \in Slabs PROVE ListSound(q)'
    BY DEF FreeListSound
  <2>2. CASE q # s
    BY <2>2, <1>1, ElsewhereSound DEF SlabInv, Types
  <2>3. CASE q = s
    <3>0. /\ FreeSlots(s) = {j \in Indexes : j # 0 /\ j < Len(items[s]) /\ InSlot(s, j) = NoData}
          /\ FreeSlots(s)' = {j \in Indexes : j # 0 /\ j < Len(items'[s]) /\ InSlot(s, j)' = NoData}
      <4>1. /\ Len(items[s]) \in Nat /\ Len(items[s]) <= MaxSlots
            /\ Len(items'[s]) \in Nat /\ Len(items'[s]) <= MaxSlots
        BY <1>2 DEF SlabInv, Types
      <4>2. /\ 1 .. Len(items[s]) - 1 = {j \in Indexes : j # 0 /\ j < Len(items[s])}
            /\ 1 .. Len(items'[s]) - 1 = {j \in Indexes : j # 0 /\ j < Len(items'[s])}
        BY <4>1 DEF Indexes
      <4>3. QED
        BY <4>2 DEF FreeSlots, InSlot
    <3>1. FreeSlots(s)' = FreeSlots(s) \ {i}
      <4>1. \A j \in Indexes : InSlot(s, j)' = IF j = i THEN t ELSE InSlot(s, j)
        BY <1>1
      <4>2. Len(items'[s]) = Len(items[s]) /\ t # NoData
        BY <1>1
      <4>3. QED
        BY <3>0, <4>1, <4>2, <1>1
    <3>2. \A j \in FreeSlots(s) \ {i} : Link(s, j)' = Link(s, j)
      BY <3>0, <1>1 DEF Link
    <3>3. next'[s] = Link(s, i)
      BY <1>1 DEF SlabInv, Types
    <3>4. ListSound(s) /\ next[s] = i
      BY <1>1 DEF SlabInv, FreeListSound
    <3>5. Link(s, i) # 0 => Link(s, i) \in FreeSlots(s) \ {i}
      BY <3>4, <1>1 DEF ListSound
    <3>6. \A j \in FreeSlots(s) \ {i} : Link(s, j) # 0 =>
            Link(s, j) \in FreeSlots(s) \ {i, Link(s, i)}
      BY <3>4, <1>1 DEF ListSound
    <3>7. \A j, l \in FreeSlots(s) \ {i} : Link(s, j) = Link(s, l) /\ Link(s, j) # 0 => j = l
      BY <3>4 DEF ListSound
    <3>8. ListSound(s)'
      BY <3>1, <3>2, <3>3, <3>5, <3>6, <3>7 DEF ListSound
    <3>9. QED
      BY <2>3, <3>8
  <2>4. QED
    BY <2>2, <2>3
<1>5. QED
  BY <1>2, <1>3, <1>4 DEF SlabInv

\* What Pop does to the slabs: a slot is free, leads to what was the head and is
\* the head.
Popped(s, i, h, r) ==
  /\ h = next[s] /\ i < Len(items[s]) /\ InSlot(s, i) # NoData
  /\ r.next = h /\ r.data = InSlot(s, i)
  /\ next' = [next EXCEPT ![s] = i]
  /\ used' \in [Keys -> Threads \cup {NoData}]
  /\ \A q \in Slabs, j \in Indexes : InSlot(q, j)' = IF q = s /\ j = i THEN NoData ELSE InSlot(q, j)
  /\ \A q \in Slabs : q # s => items'[q] = items[q]
  /\ Overwritten(s, i, r)

\* Pop does that.
LEMMA PopEffect ==
  ASSUME SlabInv, NEW k \in Keys, Pop(k)
  PROVE  \E s \in Slabs, i \in Indexes, h \in Indexes, r \in Slot : Popped(s, i, h, r)
<1>0. PICK s \in Slabs, i \in Indexes : s = SlabOf(k) /\ i = IndexOf(k) /\ k = KeyOf(i, s)
  BY SlotsOfKeys
<1>1. PICK h \in Indexes : h = next[s]
  BY DEF SlabInv, Types
<1>2. PICK r \in Slot : r = [Item(s, i) EXCEPT !.next = h]
  <2>1. InSlot(s, i) # NoData /\ i < Len(items[s]) /\ items[s] \in Seq(Slot)
    BY <1>0 DEF SlabInv, Types, SlotsKept, InSlot, Pop
  <2>2. Item(s, i) \in Slot
    BY <2>1 DEF Item, Indexes
  <2>3. [Item(s, i) EXCEPT !.next = h] \in Slot
    BY <2>2 DEF Slot
  <2>4. QED
    BY <2>3
<1>3. /\ i < Len(items[s]) /\ Item(s, i) \in Slot /\ InSlot(s, i) # NoData
      /\ r.next = h /\ r.data = InSlot(s, i)
  <2>1. InSlot(s, i) # NoData
    BY <1>0 DEF InSlot, Pop
  <2>2. i < Len(items[s]) /\ Item(s, i).data = InSlot(s, i)
    BY <2>1 DEF SlabInv, SlotsKept
  <2>3. items[s] \in Seq(Slot)
    BY DEF SlabInv, Types
  <2>4. Item(s, i) \in Slot
    BY <2>2, <2>3 DEF Item, Indexes
  <2>5. QED
    BY <2>1, <2>2, <2>4, <1>2 DEF Slot
<1>4. /\ items' = [items EXCEPT ![s][i + 1] = r]
      /\ next' = [next EXCEPT ![s] = i]
      /\ used' = [used EXCEPT ![KeyOf(i, s)] = NoData]
      /\ UNCHANGED <<index, target>>
  <2>1. items' = [items EXCEPT ![s][i + 1].next = h]
    BY <1>0, <1>1 DEF Pop
  <2>2. items' = [items EXCEPT ![s][i + 1] = r]
    BY <2>1, <1>2 DEF Item
  <2>3. QED
    BY <2>2, <1>0 DEF Pop
<1>5. /\ used' \in [Keys -> Threads \cup {NoData}]
      /\ \A q \in Slabs, j \in Indexes :
           InSlot(q, j)' = IF q = s /\ j = i THEN NoData ELSE InSlot(q, j)
  <2>1. Types /\ NoData \in Threads \cup {NoData}
    BY DEF SlabInv
  <2>2. used' = [used EXCEPT ![KeyOf(i, s)] = NoData]
    BY <1>4
  <2>3. QED
    BY <2>1, <2>2, KeysApart DEF Types, InSlot
<1>6. Overwritten(s, i, r)
  <2>1. Types /\ i < Len(items[s])
    BY <1>3 DEF SlabInv
  <2>2. items' = [items EXCEPT ![s][i + 1] = r]
    BY <1>4
  <2>3. QED
    BY <2>1, <2>2, OverwriteSlot
<1>7. \A q \in Slabs : q # s => items'[q] = items[q]
  BY <1>4 DEF SlabInv, Types
<1>8. Popped(s, i, h, r)
  BY <1>1, <1>3, <1>4, <1>5, <1>6, <1>7 DEF Popped
<1>9. QED
  BY <1>8

\* A slab whose slot is popped keeps the invariant: the slot becomes the head of
\* its list, or, if it is slot 0, the list is empty from now on.
LEMMA PopKeeps ==
  ASSUME SlabInv, NEW k \in Keys, Pop(k)
  PROVE  SlabInv'
<1>1. PICK s \in Slabs, i \in Indexes, h \in Indexes, r \in Slot : Popped(s, i, h, r)
  BY PopEffect
<1> USE DEF Popped, Overwritten
<1>2. Types'
  BY <1>1 DEF SlabInv, Types, Pop
<1>3. SlotsKept'
  <2>1. SUFFICES ASSUME NEW q \in Slabs, NEW j \in Indexes, InSlot(q, j)' # NoData
                 PROVE  j < Len(items'[q]) /\ Item(q, j)'.data = InSlot(q, j)'
    BY DEF SlotsKept, InSlot, Item
  <2>2. ~(q = s /\ j = i) /\ InSlot(q, j)' = InSlot(q, j)
    BY <2>1, <1>1
  <2>3. j < Len(items[q]) /\ Item(q, j).data = InSlot(q, j) /\ j \in Nat
    BY <2>1, <2>2 DEF SlabInv, SlotsKept, Indexes
  <2>4. QED
    BY <2>2, <2>3, <1>1
<1>4. FreeListSound'
  <2>1. SUFFICES ASSUME NEW q \in Slabs PROVE ListSound(q)'
    BY DEF FreeListSound
  <2>2. CASE q # s
    BY <2>2, <1>1, ElsewhereSound DEF SlabInv, Types
  <2>3. CASE q = s
    <3>0. /\ FreeSlots(s) = {j \in Indexes : j # 0 /\ j < Len(items[s]) /\ InSlot(s, j) = NoData}
          /\ FreeSlots(s)' = {j \in Indexes : j # 0 /\ j < Len(items'[s]) /\ InSlot(s, j)' = NoData}
      <4>1. /\ Len(items[s]) \in Nat /\ Len(items[s]) <= MaxSlots
            /\ Len(items'[s]) \in Nat /\ Len(items'[s]) <= MaxSlots
        BY <1>2 DEF SlabInv, Types
      <4>2. /\ 1 .. Len(items[s]) - 1 = {j \in Indexes : j # 0 /\ j < Len(items[s])}
            /\ 1 .. Len(items'[s]) - 1 = {j \in Indexes : j # 0 /\ j < Len(items'[s])}
        BY <4>1 DEF Indexes
      <4>3. QED
        BY <4>2 DEF FreeSlots, InSlot
    <3>1. /\ i \notin FreeSlots(s) /\ next'[s] = i
          /\ ListSound(s) /\ next[s] = h
          /\ 0 \notin FreeSlots(s)
      BY <1>1 DEF SlabInv, Types, FreeListSound, FreeSlots, InSlot
    <3>2. \A j \in FreeSlots(s) : Link(s, j)' = Link(s, j)
      BY <3>0, <3>1, <1>1 DEF Link
    <3>3. CASE i = 0
      <4>1. FreeSlots(s)' = FreeSlots(s)
        BY <3>0, <3>3, <1>1
      <4>2. QED
        BY <2>3, <3>1, <3>2, <3>3, <4>1 DEF ListSound
    <3>4. CASE i # 0
      <4>1. FreeSlots(s)' = FreeSlots(s) \cup {i}
        BY <3>0, <3>4, <1>1
      <4>2. Link(s, i)' = h
        BY <1>1 DEF Link, Indexes
      <4>3. QED
        BY <2>3, <3>1, <3>2, <4>1, <4>2 DEF ListSound
    <3>5. QED
      BY <3>3, <3>4
  <2>4. QED
    BY <2>2, <2>3
<1>5. QED
  BY <1>2, <1>3, <1>4 DEF SlabInv

\* Empty slabs satisfy the invariant.
LEMMA InitKeeps == Init => SlabInv
<1> SUFFICES ASSUME Init PROVE SlabInv
  OBVIOUS
<1>1. 0 \in Indexes /\ 0 \in Slabs
  BY DEF Indexes, Slabs
<1>2. \A s \in Slabs : items[s] = << >> /\ Len(items[s]) = 0 /\ next[s] = 0
  BY DEF Init
<1>3. Types
  BY <1>1, <1>2 DEF Init, Types
<1>4. SlotsKept
  BY KeysApart DEF Init, SlotsKept, InSlot
<1>5. FreeListSound
  <2>1. \A s \in Slabs : FreeSlots(s) = {}
    BY <1>2 DEF FreeSlots
  <2>2. QED
    BY <1>2, <2>1 DEF FreeListSound, ListSound
<1>6. QED
  BY <1>3, <1>4, <1>5 DEF SlabInv

\* A goroutine takes the next slab: the slabs are not touched.
LEMMA SpreadKeeps ==
  ASSUME SlabInv, NEW t \in Threads, Spread(t)
  PROVE  SlabInv'
<1>1. (index + 1) % SlabCnt \in Slabs
  <2>1. index + 1 \in Nat
    BY DEF SlabInv, Types, Slabs
  <2>2. QED
    BY <2>1 DEF Slabs
<1>2. Types'
  BY <1>1 DEF SlabInv, Types, Spread
<1>3. SlotsKept'
  BY DEF SlabInv, SlotsKept, InSlot, Item, Spread
<1>4. FreeListSound'
  BY DEF SlabInv, FreeListSound, ListSound, FreeSlots, Link, Item, Spread
<1>5. QED
  BY <1>2, <1>3, <1>4 DEF SlabInv

-----------------------------------------------------------------------------
(* Theorems *)

\* Every step of every thread keeps it.
LEMMA StepKeeps == SlabInv /\ [Next]_vars => SlabInv'
<1> SUFFICES ASSUME SlabInv, [Next]_vars PROVE SlabInv'
  OBVIOUS
<1>1. ASSUME NEW t \in Threads, Spread(t) PROVE SlabInv'
  BY <1>1, SpreadKeeps
<1>2. ASSUME NEW t \in Threads, Push(t) PROVE SlabInv'
  <2>1. PICK s \in Slabs : s = target[t]
    BY <1>2 DEF SlabInv, Types, Push
  <2>2. UNCHANGED index /\ target' = [target EXCEPT ![t] = -1]
    BY <1>2 DEF Push
  <2>3. CASE Grow(s, t)
    BY <2>2, <2>3, GrowKeeps
  <2>4. CASE Reuse(s, t)
    BY <2>2, <2>4, ReuseKeeps
  <2>5. QED
    BY <1>2, <2>1, <2>3, <2>4 DEF Push
<1>3. ASSUME NEW k \in Keys, Pop(k) PROVE SlabInv'
  BY <1>3, PopKeeps
<1>4. CASE UNCHANGED vars
  BY <1>4 DEF vars, SlabInv, Types, SlotsKept, FreeListSound, ListSound, FreeSlots, InSlot, Link, Item
<1>5. QED
  BY <1>1, <1>2, <1>3, <1>4 DEF Next

\* The inductive invariant of the slabs holds in every reachable state.
THEOREM SlabInvariant == Spec => []SlabInv
<1>1. QED
  BY InitKeeps, StepKeeps, PTL DEF Spec

\* No slot in use is on a free list, and none is on it twice.
THEOREM FreeListStaysSound == Spec => []FreeListSound
<1>1. SlabInv => FreeListSound
  BY DEF SlabInv
<1>2. QED
  BY <1>1, SlabInvariant, PTL

\* Whatever was pushed before and after, a key leads to its own data: Pop never
\* frees a response another call waits for.
THEOREM DataStays == Spec => []DataKept
<1>1. SlabInv => DataKept
  <2>1. SUFFICES ASSUME SlabInv, NEW k \in Keys, used[k] # NoData
                 PROVE  /\ IndexOf(k) < Len(items[SlabOf(k)])
                        /\ Item(SlabOf(k), IndexOf(k)).data = used[k]
    BY DEF DataKept
  <2>2. PICK s \in Slabs, i \in Indexes : s = SlabOf(k) /\ i = IndexOf(k) /\ k = KeyOf(i, s)
    BY SlotsOfKeys
  <2>3. QED
    BY <2>1, <2>2 DEF SlabInv, SlotsKept, InSlot
<1>2. QED
  BY <1>1, SlabInvariant, PTL

\* A MultiSlab implements KeyPool: Push stores under a key that is free, whether
\* it grows a slab or uses a slot again, and Pop frees a key.
THEOREM GoSlabImplementsKeyPool == Spec => PoolSpec
<1>1. Init => P!PoolInit
  BY DEF Init, P!PoolInit
<1>2. SlabInv /\ [Next]_vars => [P!PoolNext]_used
  <2> SUFFICES ASSUME SlabInv, [Next]_vars PROVE [P!PoolNext]_used
    OBVIOUS
  <2>1. ASSUME NEW t \in Threads, Spread(t) PROVE UNCHANGED used
    BY <2>1 DEF Spread
  <2>2. ASSUME NEW t \in Threads, Push(t) PROVE P!PoolNext
    <3>1. PICK s \in Slabs : s = target[t]
      BY <2>2 DEF SlabInv, Types, Push
    <3>2. CASE Grow(s, t)
      <4>1. PICK n \in Nat : n = Len(items[s])
        BY DEF SlabInv, Types
      <4>2. n \in Indexes /\ used' = [used EXCEPT ![KeyOf(n, s)] = t]
        BY <3>2, <4>1 DEF Grow, Indexes
      <4>3. used[KeyOf(n, s)] = NoData
        BY <4>1, <4>2 DEF SlabInv, SlotsKept, InSlot, Indexes
      <4>4. QED
        BY <4>2, <4>3, KeysOfSlots DEF P!PoolNext, P!Put
    <3>3. CASE Reuse(s, t)
      <4>1. PICK i \in Indexes : i = next[s]
        BY DEF SlabInv, Types
      <4>2. i # 0 /\ used' = [used EXCEPT ![KeyOf(i, s)] = t]
        BY <3>3, <4>1 DEF Reuse
      <4>3. used[KeyOf(i, s)] = NoData
        BY <4>1, <4>2 DEF SlabInv, FreeListSound, ListSound, FreeSlots
      <4>4. QED
        BY <4>2, <4>3, KeysOfSlots DEF P!PoolNext, P!Put
    <3>4. QED
      BY <2>2, <3>1, <3>2, <3>3 DEF Push
  <2>3. ASSUME NEW k \in Keys, Pop(k) PROVE P!PoolNext
    BY <2>3 DEF Pop, P!PoolNext, P!Take
  <2>4. CASE UNCHANGED vars
    BY <2>4 DEF vars
  <2>5. QED
    BY <2>1, <2>2, <2>3, <2>4 DEF Next
<1>3. QED
  BY <1>1, <1>2, SlabInvariant, PTL DEF Spec, PoolSpec, P!PoolSpec
-----------------------------------------------------------------------------
(* Growth *)

\* The peak of a slab is what the bound is about.
PeakTyped == peak \in [Slabs -> 0 .. MaxHeld]

\* A slab that is not full of keys appends a slot only where its list is empty, so
\* what matters is that the list leads to every free slot but those lost behind
\* slot 0.  No sequence is needed to say so: a set that holds the head and with
\* each slot the next one holds every free slot that is not lost.
Free(s) == {i \in Indexes : i < Len(items[s]) /\ InSlot(s, i) = NoData}
Follows(s, S) ==
  /\ next[s] # 0 => next[s] \in S
  /\ \A i \in S : Link(s, i) # 0 => Link(s, i) \in S
Lost(s, lost) ==
  /\ lost \subseteq Free(s)
  /\ lost # {} => 0 \in Free(s)
  /\ next[s] # 0 => next[s] \notin lost
  /\ \A i \in FreeSlots(s) \ lost : Link(s, i) # 0 => Link(s, i) \notin lost
  /\ \A S \in SUBSET FreeSlots(s) : Follows(s, S) => Free(s) \ lost \subseteq S
  /\ Cardinality(lost) <= peak[s]
  /\ Len(items[s]) <= peak[s] + Cardinality(lost)
Growth(s) == \E lost \in SUBSET Indexes : Lost(s, lost)

\* There are n indexes below n.
LEMMA BelowCounted ==
  ASSUME NEW n \in Nat
  PROVE  IsFiniteSet(0 .. n - 1) /\ Cardinality(0 .. n - 1) = n
  BY FS_Interval

\* The slots of a slab are finitely many, at most as many as the slab is long.
LEMMA SlotsCounted ==
  ASSUME NEW n \in Nat, NEW S, \A i \in S : i \in Nat /\ i < n
  PROVE  IsFiniteSet(S) /\ Cardinality(S) \in Nat /\ Cardinality(S) <= n
<1>1. IsFiniteSet(0 .. n - 1) /\ Cardinality(0 .. n - 1) = n
  BY BelowCounted
<1>2. S \subseteq 0 .. n - 1
  OBVIOUS
<1>3. QED
  BY <1>1, <1>2, FS_Subset, FS_CardinalityType

\* A set of free slots is finite, and no larger than its slab.
LEMMA FreeCounted ==
  ASSUME SlabInv, NEW s \in Slabs, NEW S, S \subseteq Free(s)
  PROVE  /\ Len(items[s]) \in Nat /\ IsFiniteSet(S)
         /\ Cardinality(S) \in Nat /\ Cardinality(S) <= Len(items[s])
<1>1. PICK n \in Nat : n = Len(items[s])
  BY DEF SlabInv, Types
<1>2. \A i \in S : i \in Nat /\ i < n
  BY <1>1 DEF Free, Indexes
<1>3. QED
  BY <1>1, <1>2, SlotsCounted

\* FreeSlots is Free without slot 0, before and after a step.
LEMMA FreeSlotsFree ==
  ASSUME SlabInv, SlabInv', NEW s \in Slabs
  PROVE  FreeSlots(s) = Free(s) \ {0} /\ FreeSlots(s)' = Free(s)' \ {0}
<1>1. /\ Len(items[s]) \in Nat /\ Len(items[s]) <= MaxSlots
      /\ Len(items'[s]) \in Nat /\ Len(items'[s]) <= MaxSlots
  BY DEF SlabInv, Types
<1>2. \A n \in Nat : n <= MaxSlots => 1 .. n - 1 = {i \in Indexes : i # 0 /\ i < n}
  BY DEF Indexes
<1>3. /\ 1 .. Len(items[s]) - 1 = {i \in Indexes : i # 0 /\ i < Len(items[s])}
      /\ 1 .. Len(items'[s]) - 1 = {i \in Indexes : i # 0 /\ i < Len(items'[s])}
  BY <1>1, <1>2
<1>4. QED
  BY <1>3 DEF FreeSlots, Free, InSlot

\* A slab that a step leaves alone keeps its bound.
LEMMA ElsewhereGrowth ==
  ASSUME SlabInv, NEW q \in Slabs, Growth(q), items'[q] = items[q], next'[q] = next[q],
         \A j \in Indexes : InSlot(q, j)' = InSlot(q, j),
         peak[q] \in Nat, peak'[q] \in Nat, peak'[q] >= peak[q]
  PROVE  Growth(q)'
<1>1. PICK lost \in SUBSET Indexes : Lost(q, lost)
  BY DEF Growth
<1>2. Free(q)' = Free(q)
  BY DEF Free
<1>3. FreeSlots(q)' = FreeSlots(q)
  BY DEF SlabInv, Types, FreeSlots, InSlot, Indexes
<1>4. \A S : Follows(q, S)' <=> Follows(q, S)
  BY DEF Follows, Link, Item
<1>5. /\ Cardinality(lost) \in Nat /\ Cardinality(lost) <= peak'[q]
      /\ Len(items'[q]) <= peak'[q] + Cardinality(lost)
  <2>1. Cardinality(lost) \in Nat /\ Len(items[q]) \in Nat
    BY <1>1, FreeCounted DEF Lost
  <2>2. QED
    BY <2>1, <1>1 DEF Lost
<1>6. Lost(q, lost)'
  BY <1>1, <1>2, <1>3, <1>4, <1>5 DEF Lost, Link, Item
<1>7. QED
  BY <1>6 DEF Growth

\* A slab grows only when every free slot is lost; the rest is in use, and one
\* more key makes the peak.
LEMMA GrowGrowth ==
  ASSUME SlabInv, NEW t \in Threads, NEW s \in Slabs, Grow(s, t), SlabInv', Growth(s),
         peak[s] \in Nat, peak'[s] \in Nat, peak'[s] >= peak[s],
         peak'[s] >= Cardinality(InUse(s)) + 1
  PROVE  Growth(s)'
<1>1. PICK n \in Indexes, r \in Slot : Grown(s, t, n, r)
  BY GrowEffect
<1>2. PICK lost \in SUBSET Indexes : Lost(s, lost)
  BY DEF Growth
<1>3. Free(s) = lost
  <2>1. Follows(s, {})
    BY DEF Follows, Grow
  <2>2. QED
    BY <1>2, <2>1 DEF Lost
<1>4. n \in Nat /\ IsFiniteSet(lost) /\ Cardinality(lost) \in Nat
  BY <1>1, <1>3, FreeCounted DEF Indexes
<1>5. InUse(s) = (0 .. n - 1) \ lost
  <2>1. \A i \in Indexes : InSlot(s, i) # NoData => i < n
    BY <1>1 DEF SlabInv, SlotsKept, Grown
  <2>2. InUse(s) = {i \in Indexes : InSlot(s, i) # NoData}
    BY DEF InUse, InSlot
  <2>3. \A i : i \in Indexes /\ i < n <=> i \in 0 .. n - 1
    BY <1>1 DEF Indexes
  <2>4. lost = {i \in Indexes : i < n /\ InSlot(s, i) = NoData}
    BY <1>1, <1>3 DEF Free, Grown
  <2>5. QED
    BY <2>1, <2>2, <2>3, <2>4
<1>6. Cardinality(InUse(s)) = n - Cardinality(lost)
  <2>1. IsFiniteSet(0 .. n - 1) /\ Cardinality(0 .. n - 1) = n
    BY <1>4, BelowCounted
  <2>2. (0 .. n - 1) \cap lost = lost
    BY <1>1, <1>3 DEF Free, Grown, Indexes
  <2>3. QED
    BY <1>5, <2>1, <2>2, FS_Difference
<1>7. Free(s)' = Free(s)
  BY <1>1 DEF Grown, Free, Indexes
<1>8. FreeSlots(s)' = FreeSlots(s)
  BY <1>1, <1>7, FreeSlotsFree
<1>9. \A i \in FreeSlots(s) : Link(s, i)' = Link(s, i)
  BY <1>1 DEF Grown, Link, FreeSlots
<1>10. \A S \in SUBSET FreeSlots(s) : Follows(s, S)' => Follows(s, S)
  BY <1>1, <1>9 DEF Follows, Grown
<1>11. Cardinality(lost) <= peak'[s] /\ Len(items'[s]) <= peak'[s] + Cardinality(lost)
  BY <1>1, <1>2, <1>4, <1>6 DEF Lost, Grown
<1>12. Lost(s, lost)'
  BY <1>1, <1>2, <1>7, <1>8, <1>9, <1>10, <1>11 DEF Lost, Grown
<1>13. QED
  BY <1>12 DEF Growth

\* The head of the list leaves it: what is behind it is reached as before.
LEMMA ReuseGrowth ==
  ASSUME SlabInv, NEW t \in Threads, NEW s \in Slabs, Reuse(s, t), SlabInv', Growth(s),
         peak[s] \in Nat, peak'[s] \in Nat, peak'[s] >= peak[s]
  PROVE  Growth(s)'
<1>1. PICK i \in Indexes, r \in Slot : Reused(s, t, i, r)
  BY ReuseEffect
<1>2. PICK lost \in SUBSET Indexes : Lost(s, lost)
  BY DEF Growth
<1>3. i # 0 /\ i \in FreeSlots(s) /\ i \notin lost /\ next[s] = i
  BY <1>1, <1>2 DEF Reused, Reuse, Lost
<1>4. Free(s)' = Free(s) \ {i}
  BY <1>1 DEF Reused, Overwritten, Free
<1>5. FreeSlots(s)' = FreeSlots(s) \ {i}
  BY <1>4, FreeSlotsFree
<1>6. \A j \in FreeSlots(s) \ {i} : Link(s, j)' = Link(s, j)
  BY <1>1, FreeSlotsFree DEF Reused, Overwritten, Link, Free
<1>7. next'[s] = Link(s, i)
  BY <1>1 DEF Reused, SlabInv, Types
<1>8. ASSUME NEW S \in SUBSET FreeSlots(s)', Follows(s, S)'
      PROVE  Free(s)' \ lost \subseteq S
  <2>1. Follows(s, S \cup {i}) /\ S \cup {i} \subseteq FreeSlots(s)
    BY <1>3, <1>5, <1>6, <1>7, <1>8 DEF Follows
  <2>2. Free(s) \ lost \subseteq S \cup {i}
    BY <1>2, <2>1 DEF Lost
  <2>3. QED
    BY <1>4, <2>2
<1>9. Cardinality(lost) <= peak'[s] /\ Len(items'[s]) <= peak'[s] + Cardinality(lost)
  <2>1. Cardinality(lost) \in Nat /\ Len(items[s]) \in Nat
    BY <1>2, FreeCounted DEF Lost
  <2>2. QED
    BY <1>1, <1>2, <2>1 DEF Lost, Reused, Overwritten
<1>10. next'[s] # 0 => next'[s] \notin lost
  BY <1>2, <1>3, <1>7 DEF Lost
<1>11. \A j \in FreeSlots(s)' \ lost : Link(s, j)' # 0 => Link(s, j)' \notin lost
  BY <1>2, <1>5, <1>6 DEF Lost
<1>12. lost \subseteq Free(s)' /\ (lost # {} => 0 \in Free(s)')
  BY <1>2, <1>3, <1>4 DEF Lost
<1>13. Lost(s, lost)'
  BY <1>8, <1>9, <1>10, <1>11, <1>12 DEF Lost
<1>14. QED
  BY <1>13 DEF Growth

\* A slot that is popped goes in front of the list.  Slot 0 ends it, and every slot
\* that is free then is lost; that happens once, for slot 0 is not used again.
LEMMA PopGrowth ==
  ASSUME SlabInv, NEW s \in Slabs, NEW i \in Indexes, NEW h \in Indexes, NEW r \in Slot,
         Popped(s, i, h, r), SlabInv', Growth(s), peak[s] \in Nat, peak'[s] = peak[s]
  PROVE  Growth(s)'
<1>1. PICK lost \in SUBSET Indexes : Lost(s, lost)
  BY DEF Growth
<1>2. /\ Free(s)' = Free(s) \cup {i} /\ i \notin Free(s)
      /\ Len(items'[s]) = Len(items[s])
  BY DEF Popped, Overwritten, Free
<1>3. next[s] = h /\ next'[s] = i /\ Link(s, i)' = h
  BY DEF Popped, Overwritten, Link, SlabInv, Types
<1>4. \A j \in FreeSlots(s) : Link(s, j)' = Link(s, j)
  BY <1>2, FreeSlotsFree DEF Popped, Overwritten, Link, Free
<1>5. FreeSlots(s) = Free(s) \ {0} /\ FreeSlots(s)' = Free(s)' \ {0}
  BY FreeSlotsFree
<1>6. CASE i = 0
  <2>1. lost = {}
    BY <1>1, <1>2, <1>6 DEF Lost
  <2>2. Cardinality(lost) = 0
    BY <2>1, FS_EmptySet
  <2>3. Len(items[s]) \in Nat /\ Len(items[s]) <= peak[s]
    BY <1>1, <2>2, FreeCounted DEF Lost
  <2>4. Cardinality(Free(s)') \in Nat /\ Cardinality(Free(s)') <= Len(items[s])
    <3>1. \A j \in Free(s)' : j \in Nat /\ j < Len(items[s])
      BY <1>2 DEF Free, Indexes
    <3>2. QED
      BY <2>3, <3>1, SlotsCounted
  <2>5. Lost(s, Free(s))'
    BY <1>2, <1>3, <1>6, <1>5, <2>3, <2>4 DEF Lost
  <2>6. Free(s)' \in SUBSET Indexes
    BY DEF Free
  <2>7. QED
    BY <2>5, <2>6 DEF Growth
<1>7. CASE i # 0
  <2>1. i \in FreeSlots(s)' /\ i \notin lost
    BY <1>1, <1>2, <1>5, <1>7 DEF Lost
  <2>2. FreeSlots(s)' = FreeSlots(s) \cup {i}
    BY <1>2, <1>5, <1>7
  <2>3. ASSUME NEW S \in SUBSET FreeSlots(s)', Follows(s, S)'
        PROVE  Free(s)' \ lost \subseteq S
    <3>1. i \in S /\ (h # 0 => h \in S)
      BY <1>3, <1>7, <2>3 DEF Follows
    <3>2. h # 0 => h \in FreeSlots(s)
      BY <1>3 DEF SlabInv, FreeListSound, ListSound
    <3>3. \A j \in FreeSlots(s) : Link(s, j) # 0 => Link(s, j) # i
      BY <1>2, <1>5 DEF SlabInv, FreeListSound, ListSound
    <3>4. \A j \in S \ {i} : j \in FreeSlots(s) /\ (Link(s, j) # 0 => Link(s, j) \in S)
      BY <1>4, <2>2, <2>3 DEF Follows
    <3>5. Follows(s, S \ {i}) /\ S \ {i} \subseteq FreeSlots(s)
      BY <1>2, <1>3, <1>5, <3>1, <3>2, <3>3, <3>4 DEF Follows
    <3>6. Free(s) \ lost \subseteq S \ {i}
      BY <1>1, <3>5 DEF Lost
    <3>7. QED
      BY <1>2, <3>1, <3>6
  <2>4. next'[s] # 0 => next'[s] \notin lost
    BY <1>3, <2>1
  <2>5. \A j \in FreeSlots(s)' \ lost : Link(s, j)' # 0 => Link(s, j)' \notin lost
    BY <1>1, <1>3, <1>4, <2>2 DEF Lost
  <2>6. lost \subseteq Free(s)' /\ (lost # {} => 0 \in Free(s)')
    BY <1>1, <1>2 DEF Lost
  <2>7. Cardinality(lost) <= peak'[s] /\ Len(items'[s]) <= peak'[s] + Cardinality(lost)
    BY <1>1, <1>2 DEF Lost
  <2>8. Lost(s, lost)'
    BY <2>3, <2>4, <2>5, <2>6, <2>7 DEF Lost
  <2>9. QED
    BY <2>8 DEF Growth
<1>8. QED
  BY <1>6, <1>7

\* The invariant behind the bound.
GrowthInv == PeakTyped /\ \A s \in Slabs : Growth(s)

\* Empty slabs have lost nothing.
LEMMA InitGrowth == Init => GrowthInv
<1> SUFFICES ASSUME Init PROVE GrowthInv
  OBVIOUS
<1>1. PeakTyped
  BY DEF Init, PeakTyped
<1>2. ASSUME NEW s \in Slabs PROVE Lost(s, {})
  <2>1. next[s] = 0 /\ Len(items[s]) = 0 /\ peak[s] = 0 /\ Cardinality({}) = 0
    BY FS_EmptySet DEF Init
  <2>2. Free(s) = {} /\ FreeSlots(s) = {}
    BY <2>1 DEF Free, FreeSlots, Indexes
  <2>3. QED
    BY <2>1, <2>2 DEF Lost
<1>3. QED
  BY <1>1, <1>2 DEF GrowthInv, Growth

\* Pushing keeps the bound of every slab, and moves one peak at most.
LEMMA PushGrowth ==
  ASSUME SlabInv, SlabInv', GrowthInv, NEW t \in Threads, Push(t)
  PROVE  GrowthInv'
<1>1. PICK s \in Slabs : s = target[t]
  BY DEF SlabInv, Types, Push
<1>2. Cardinality(InUse(s)) \in Nat /\ Cardinality(InUse(s)) < MaxHeld
  <2>1. \A i \in InUse(s) : i \in Nat /\ i < MaxSlots
    BY DEF InUse, Indexes
  <2>2. QED
    BY <1>1, <2>1, SlotsCounted DEF Push
<1> DEFINE more == Cardinality(InUse(s)) + 1
<1>3. peak' = [peak EXCEPT ![s] = IF more > @ THEN more ELSE @]
  BY <1>1 DEF Push
<1>4. /\ PeakTyped' /\ peak'[s] >= more
      /\ \A q \in Slabs : peak[q] \in Nat /\ peak'[q] \in Nat /\ peak'[q] >= peak[q]
  <2> HIDE DEF more
  <2>1. more \in 0 .. MaxHeld
    BY <1>2 DEF more
  <2>2. QED
    BY <1>3, <2>1 DEF GrowthInv, PeakTyped
<1>5. CASE Grow(s, t)
  <2>1. PICK n \in Indexes, r \in Slot : Grown(s, t, n, r)
    BY <1>5, GrowEffect
  <2>2. \A q \in Slabs : q # s => Growth(q)'
    BY <1>4, <2>1, ElsewhereGrowth DEF Grown, GrowthInv
  <2>3. Growth(s)'
    BY <1>4, <1>5, GrowGrowth DEF GrowthInv
  <2>4. QED
    BY <1>4, <2>2, <2>3 DEF GrowthInv
<1>6. CASE Reuse(s, t)
  <2>1. PICK i \in Indexes, r \in Slot : Reused(s, t, i, r)
    BY <1>6, ReuseEffect
  <2>2. \A q \in Slabs : q # s => Growth(q)'
    BY <1>4, <2>1, ElsewhereGrowth DEF Reused, GrowthInv, SlabInv, Types
  <2>3. Growth(s)'
    BY <1>4, <1>6, ReuseGrowth DEF GrowthInv
  <2>4. QED
    BY <1>4, <2>2, <2>3 DEF GrowthInv
<1>7. QED
  BY <1>1, <1>5, <1>6 DEF Push

\* Every step keeps the bound of every slab.
LEMMA StepGrowth ==
  ASSUME SlabInv, SlabInv', GrowthInv, [Next]_vars
  PROVE  GrowthInv'
<1>1. \A q \in Slabs : peak[q] \in Nat
  BY DEF GrowthInv, PeakTyped
<1>2. ASSUME UNCHANGED <<items, next, used, peak>> PROVE GrowthInv'
  <2>1. ASSUME NEW q \in Slabs PROVE Growth(q)'
    BY <1>1, <1>2, ElsewhereGrowth DEF GrowthInv, InSlot
  <2>2. QED
    BY <1>2, <2>1 DEF GrowthInv, PeakTyped
<1>3. ASSUME NEW t \in Threads, Spread(t) PROVE GrowthInv'
  BY <1>2, <1>3 DEF Spread
<1>4. ASSUME NEW t \in Threads, Push(t) PROVE GrowthInv'
  BY <1>4, PushGrowth
<1>5. ASSUME NEW k \in Keys, Pop(k) PROVE GrowthInv'
  <2>1. PICK s \in Slabs, i \in Indexes, h \in Indexes, r \in Slot : Popped(s, i, h, r)
    BY <1>5, PopEffect
  <2>2. peak' = peak
    BY <1>5 DEF Pop
  <2>3. Growth(s)'
    BY <1>1, <2>1, <2>2, PopGrowth DEF GrowthInv
  <2>4. ASSUME NEW q \in Slabs, q # s PROVE Growth(q)'
    <3>1. items'[q] = items[q] /\ \A j \in Indexes : InSlot(q, j)' = InSlot(q, j)
      BY <2>1, <2>4 DEF Popped
    <3>2. next'[q] = next[q]
      BY <2>1, <2>4 DEF Popped, SlabInv, Types
    <3>3. peak[q] \in Nat /\ peak'[q] \in Nat /\ peak'[q] >= peak[q]
      BY <1>1, <2>2
    <3>4. QED
      BY <3>1, <3>2, <3>3, ElsewhereGrowth DEF GrowthInv
  <2>5. QED
    BY <2>2, <2>3, <2>4 DEF GrowthInv, PeakTyped
<1>6. QED
  BY <1>2, <1>3, <1>4, <1>5 DEF Next, vars

\* In every slab the list leads to all free slots but those lost behind slot 0,
\* which are no more than the keys it had in use at its peak.
THEOREM GrowthInvariant == Spec => []GrowthInv
  BY InitGrowth, StepGrowth, SlabInvariant, PTL DEF Spec

\* A slab never has more than twice as many slots as it had keys in use at its
\* peak, however pushes and pops come: what is lost behind slot 0 is at most what
\* the slab was when slot 0 was popped.
THEOREM GrowthStaysBounded == Spec => []GrowthBounded
<1>1. SlabInv /\ GrowthInv => GrowthBounded
  <2> SUFFICES ASSUME SlabInv, GrowthInv, NEW s \in Slabs PROVE Len(items[s]) <= 2 * peak[s]
    BY DEF GrowthBounded
  <2>1. PICK lost \in SUBSET Indexes : Lost(s, lost)
    BY DEF GrowthInv, Growth
  <2>2. Cardinality(lost) \in Nat /\ Len(items[s]) \in Nat /\ peak[s] \in Nat
    BY <2>1, FreeCounted DEF Lost, GrowthInv, PeakTyped
  <2>3. QED
    BY <2>1, <2>2 DEF Lost
<1>2. QED
  BY <1>1, SlabInvariant, GrowthInvariant, PTL

\* Every variable keeps its type.
THEOREM TypeCorrect == Spec => []TypeOK
<1>1. SlabInv /\ GrowthInv => TypeOK
  BY DEF SlabInv, Types, Slot, GrowthInv, PeakTyped, TypeOK
<1>2. QED
  BY <1>1, SlabInvariant, GrowthInvariant, PTL
=============================================================================
