--------------------------- MODULE MemRingProofs ---------------------------
(***************************************************************************)
(* Theorems about MemRing, for any set of producers, any ring size, any    *)
(* number of items and any socket capacity.                                *)
(*                                                                         *)
(* RingInv is the inductive invariant of the ring itself.  RingHoldsLog is *)
(* not inductive: that a store to tail publishes what it should depends on *)
(* what was written into the slot before (Written), that the write did not *)
(* hit an unread slot depends on the room seen at the load still being     *)
(* there (Room), and both on the mutex (Exclusive); that a copy out of a   *)
(* slot is what was published depends on head not having moved since the   *)
(* load (ReaderView).                                                      *)
(***************************************************************************)
EXTENDS MemRing, TLAPS

Exclusive ==
  /\ \A p \in Producers : InPush(p) => lock = p
  /\ InUnstuck => lock = UTask

Pushing(p) == pc[p] \in {"write", "publish", "stick"}
Filling    == upc \in {"write", "publish"}

\* Whoever is about to publish or to queue an item has one in its hands.
Holding ==
  /\ \A p \in Producers : Pushing(p) => cur[p] \in Items
  /\ upc \in {"write", "publish", "wake"} => ucur \in Task

\* The room seen by the load is still there at the write and at the store.
Room ==
  (Filling \/ \E p \in Producers : pc[p] \in {"write", "publish"})
     => tail < head + BufferLen

\* At the store to tail, the slot at tail holds the item.
Written ==
  /\ \A p \in Producers : pc[p] = "publish" => buffer[Slot(tail)] = cur[p]
  /\ upc = "publish" => buffer[Slot(tail)] = ucur.item

\* What the reader knows between its load and the handler.
ReaderView ==
  /\ rpc \in {"read", "advance"} => head < tail
  /\ rpc = "advance" => ritem = log[head + 1]
  /\ rpc \in {"stuck?", "unstick", "unnotify", "handle"} /\ ritem # None
       => head > 0 /\ ritem = log[head]
  /\ rpc \notin {"advance", "stuck?", "unstick", "unnotify", "handle"} => ritem = None

RingInv ==
  /\ TypeOK /\ Exclusive /\ Holding /\ Room /\ Written
  /\ RingHoldsLog /\ ReaderView /\ HandledInOrder

-----------------------------------------------------------------------------
(* Arithmetic of slots *)

\* A position modulo the size of the ring is a slot of the buffer.
LEMMA SlotInBuffer == \A i \in Nat : Slot(i) \in 0 .. BufferLen - 1
  BY MemRingAssumption DEF Slot

\* Two positions less than the size of the ring apart have different slots.
LEMMA SlotsApart ==
  \A i, j \in Nat : i < j /\ j - i < BufferLen => Slot(i) # Slot(j)
<1> SUFFICES ASSUME NEW i \in Nat, NEW j \in Nat,
                    i < j, j - i < BufferLen, Slot(i) = Slot(j)
             PROVE  FALSE
  OBVIOUS
<1>1. \A a \in Nat : /\ a = BufferLen * (a \div BufferLen) + (a % BufferLen)
                     /\ a \div BufferLen \in Nat /\ a % BufferLen \in Nat
  BY MemRingAssumption
<1>2. PICK q \in Nat, r \in Nat, m \in Nat : i = BufferLen * q + m /\ j = BufferLen * r + m
  BY <1>1 DEF Slot
<1>3. BufferLen * r - BufferLen * q = j - i
  BY <1>2, MemRingAssumption
<1>4. QED
  BY <1>3, MemRingAssumption

-----------------------------------------------------------------------------
USE MemRingAssumption

\* A fresh queue satisfies the invariant.
LEMMA InitRing == Init => RingInv
<1> SUFFICES ASSUME Init PROVE RingInv
  OBVIOUS
<1> USE DEF Init
<1>1. SharedTypeOK
  BY DEF SharedTypeOK
<1>2. ReaderTypeOK
  BY DEF ReaderTypeOK, ReaderPcs
<1>3. WriterTypeOK
  BY DEF WriterTypeOK, ProducerPcs, UnstuckPcs, Kinds
<1>4. HistoryTypeOK
  BY DEF HistoryTypeOK
<1>5. RingHoldsLog /\ HandledInOrder /\ Room
  BY DEF RingHoldsLog, HandledInOrder, Room, Filling
<1>6. Exclusive /\ Holding /\ Written /\ ReaderView
  BY DEF Exclusive, InPush, InUnstuck, Holding, Pushing, Written, ReaderView
<1>7. QED
  BY <1>1, <1>2, <1>3, <1>4, <1>5, <1>6 DEF RingInv, TypeOK

-----------------------------------------------------------------------------
(* Steps of the reader *)

\* A reader step that moves nothing but its position, the flags and the sockets.
LEMMA ReaderQuiet ==
  ASSUME RingInv, UNCHANGED <<head, tail, buffer, ritem, writeVars, history>>,
         SharedTypeOK', ReaderTypeOK', ReaderView',
         rpc # "advance", rpc' # "advance"
  PROVE  RingInv'
<1> USE DEF RingInv, writeVars, history
<1>1. TypeOK'
  BY DEF TypeOK, WriterTypeOK, HistoryTypeOK
<1>2. Exclusive' /\ Holding' /\ Room' /\ Written'
  BY DEF Exclusive, InPush, InUnstuck, Holding, Pushing, Room, Filling, Written
<1>3. RingHoldsLog' /\ HandledInOrder'
  BY DEF RingHoldsLog, HandledInOrder
<1>4. QED
  BY <1>1, <1>2, <1>3

\* The steps of working_handler that touch only the flags and the sockets.
LEMMA ReaderFlags ==
  ASSUME RingInv,
         \/ MarkWorking \/ StuckCheck \/ MarkUnstuck \/ NotifyUnstuck \/ RingDrained
         \/ YieldCheck \/ MarkUnworking \/ RecheckEmpty \/ AwaitWork
  PROVE  RingInv'
<1> USE DEF RingInv, TypeOK, ReaderGoto, shared, sockets, writeVars, history
<1>1. CASE MarkWorking
  BY <1>1, ReaderQuiet DEF MarkWorking, SharedTypeOK, ReaderTypeOK, ReaderPcs, ReaderView
<1>2. CASE StuckCheck
  BY <1>2, ReaderQuiet DEF StuckCheck, SharedTypeOK, ReaderTypeOK, ReaderPcs, ReaderView
<1>3. CASE MarkUnstuck
  BY <1>3, ReaderQuiet DEF MarkUnstuck, SharedTypeOK, ReaderTypeOK, ReaderPcs, ReaderView
<1>4. CASE NotifyUnstuck
  BY <1>4, ReaderQuiet DEF NotifyUnstuck, Notified, SharedTypeOK, ReaderTypeOK, ReaderPcs, ReaderView
<1>5. CASE RingDrained
  BY <1>5, ReaderQuiet DEF RingDrained, SharedTypeOK, ReaderTypeOK, ReaderPcs, ReaderView
<1>6. CASE YieldCheck
  BY <1>6, ReaderQuiet DEF YieldCheck, SharedTypeOK, ReaderTypeOK, ReaderPcs, ReaderView
<1>7. CASE MarkUnworking
  BY <1>7, ReaderQuiet DEF MarkUnworking, SharedTypeOK, ReaderTypeOK, ReaderPcs, ReaderView
<1>8. CASE RecheckEmpty
  BY <1>8, ReaderQuiet DEF RecheckEmpty, SharedTypeOK, ReaderTypeOK, ReaderPcs, ReaderView
<1>9. CASE AwaitWork
  BY <1>9, ReaderQuiet DEF AwaitWork, Drained, SharedTypeOK, ReaderTypeOK, ReaderPcs, ReaderView
<1>10. QED
  BY <1>1, <1>2, <1>3, <1>4, <1>5, <1>6, <1>7, <1>8, <1>9

\* Queue::pop: the load that finds the ring empty or not.
LEMMA PopLoadRing ==
  ASSUME RingInv, PopLoad
  PROVE  RingInv'
<1> USE DEF RingInv, TypeOK, PopLoad, ReaderGoto, shared, sockets, writeVars, history
<1>1. ReaderTypeOK' /\ SharedTypeOK'
  BY DEF ReaderTypeOK, ReaderPcs, SharedTypeOK
<1>2. ReaderView'
  BY DEF ReaderView, IsEmpty, RingHoldsLog, SharedTypeOK
<1>3. ritem = None /\ ritem' = None
  BY DEF ReaderView
<1>4. QED
  BY <1>1, <1>2, <1>3, ReaderQuiet

\* Queue::pop: the copy out of the slot is the next published item.
LEMMA PopReadRing ==
  ASSUME RingInv, PopRead
  PROVE  RingInv'
<1> USE DEF RingInv, TypeOK, PopRead, ReaderGoto, shared, sockets, writeVars, history
<1>1. ritem' = log[head + 1] /\ ritem' \in Items
  BY DEF ReaderView, RingHoldsLog, SharedTypeOK, HistoryTypeOK
<1>2. TypeOK'
  BY <1>1 DEF ReaderTypeOK, ReaderPcs, SharedTypeOK, WriterTypeOK, HistoryTypeOK
<1>3. Exclusive' /\ Holding' /\ Room' /\ Written'
  BY DEF Exclusive, InPush, InUnstuck, Holding, Pushing, Room, Filling, Written
<1>4. RingHoldsLog'
  BY DEF RingHoldsLog
<1>5. ReaderView'
  BY <1>1 DEF ReaderView
<1>6. HandledInOrder'
  BY DEF HandledInOrder, ReaderView
<1>7. QED
  BY <1>2, <1>3, <1>4, <1>5, <1>6

\* Queue::pop: the store to head leaves the other items where they are.
LEMMA PopAdvanceRing ==
  ASSUME RingInv, PopAdvance
  PROVE  RingInv'
<1> USE DEF RingInv, TypeOK, PopAdvance, ReaderGoto, sockets, writeVars, history
<1>1. TypeOK'
  BY DEF ReaderTypeOK, ReaderPcs, SharedTypeOK, WriterTypeOK, HistoryTypeOK
<1>2. Exclusive' /\ Holding' /\ Written'
  BY DEF Exclusive, InPush, InUnstuck, Holding, Pushing, Filling, Written
<1>3. Room'
  BY DEF Room, Filling, SharedTypeOK
<1>4. RingHoldsLog'
  BY DEF RingHoldsLog, ReaderView, SharedTypeOK
<1>5. ritem \in Items
  BY DEF ReaderView, RingHoldsLog, SharedTypeOK, HistoryTypeOK
<1>6. ReaderView'
  BY <1>5 DEF ReaderView, SharedTypeOK
<1>7. HandledInOrder'
  BY <1>5 DEF HandledInOrder, SharedTypeOK, Items, None
<1>8. QED
  BY <1>1, <1>2, <1>3, <1>4, <1>6, <1>7

\* The call of the handler continues the handled items in the order of the log.
LEMMA HandleItemRing ==
  ASSUME RingInv, HandleItem
  PROVE  RingInv'
<1> USE DEF RingInv, TypeOK, HandleItem, ReaderGoto, shared, sockets, writeVars
<1>1. ritem \in Items /\ ritem = log[head] /\ Len(handled) = head - 1 /\ head > 0 /\ head <= Len(log)
  BY DEF ReaderView, ReaderTypeOK, HandledInOrder, RingHoldsLog
<1>2. TypeOK'
  BY <1>1 DEF ReaderTypeOK, ReaderPcs, SharedTypeOK, WriterTypeOK, HistoryTypeOK
<1>3. Exclusive' /\ Holding' /\ Room' /\ Written'
  BY DEF Exclusive, InPush, InUnstuck, Holding, Pushing, Room, Filling, Written
<1>4. RingHoldsLog' /\ ReaderView'
  BY DEF RingHoldsLog, ReaderView
<1>5. HandledInOrder'
  BY <1>1 DEF HandledInOrder, SharedTypeOK, HistoryTypeOK
<1>6. QED
  BY <1>2, <1>3, <1>4, <1>5

\* Every step of working_handler keeps the invariant.
LEMMA ReaderRing ==
  ASSUME RingInv, ReaderStep
  PROVE  RingInv'
  BY ReaderFlags, PopLoadRing, PopReadRing, PopAdvanceRing, HandleItemRing DEF ReaderStep

-----------------------------------------------------------------------------
(* Steps of the writers *)

\* A writer step that leaves the ring itself and the log alone.
LEMMA WriterQuiet ==
  ASSUME RingInv, UNCHANGED <<head, tail, buffer, readVars, log, handled>>,
         SharedTypeOK', WriterTypeOK', HistoryTypeOK',
         Exclusive', Holding', Room', Written'
  PROVE  RingInv'
<1> USE DEF RingInv, readVars
<1>1. TypeOK'
  BY DEF TypeOK, ReaderTypeOK
<1>2. RingHoldsLog' /\ ReaderView' /\ HandledInOrder'
  BY DEF RingHoldsLog, ReaderView, HandledInOrder
<1>3. QED
  BY <1>1, <1>2

\* A store into the slot at tail, made where there is room, changes none of
\* the slots that hold published items.
LEMMA WriteSlot ==
  ASSUME RingInv, tail < head + BufferLen, NEW item \in Items,
         buffer' = [buffer EXCEPT ![Slot(tail)] = item],
         UNCHANGED <<head, tail, log>>
  PROVE  RingHoldsLog' /\ buffer' \in [0 .. BufferLen - 1 -> Items \cup {Uninit}]
         /\ buffer'[Slot(tail')] = item
<1> USE DEF RingInv, TypeOK, SharedTypeOK
<1>1. \A i \in head .. tail - 1 : Slot(i) # Slot(tail)
  BY SlotsApart DEF RingHoldsLog
<1>2. \A i \in head .. tail - 1 : buffer'[Slot(i)] = buffer[Slot(i)]
  BY <1>1, SlotInBuffer DEF RingHoldsLog
<1>3. QED
  BY <1>2, SlotInBuffer DEF RingHoldsLog

\* A store to tail of what is in the slot at tail, made where there is room.
LEMMA PublishSlot ==
  ASSUME RingInv, tail < head + BufferLen, NEW item \in Items,
         buffer[Slot(tail)] = item,
         tail' = tail + 1, log' = Append(log, item),
         UNCHANGED <<head, buffer, readVars, handled>>
  PROVE  RingHoldsLog' /\ ReaderView' /\ HandledInOrder' /\ log' \in Seq(Items)
<1> USE DEF RingInv, TypeOK, SharedTypeOK, HistoryTypeOK, readVars
<1>1. \A k \in 1 .. tail : log'[k] = log[k]
  BY DEF RingHoldsLog
<1>2. RingHoldsLog'
  BY DEF RingHoldsLog
<1>3. ReaderView'
  BY <1>1 DEF RingHoldsLog, ReaderView
<1>4. HandledInOrder'
  BY <1>1 DEF RingHoldsLog, HandledInOrder
<1>5. QED
  BY <1>2, <1>3, <1>4

\* Queue::push: a load that finds room has room until the store to tail.
LEMMA PushLoadRing ==
  ASSUME RingInv, NEW p \in Producers, NEW k \in Kinds, PushLoad(p, k)
  PROVE  RingInv'
<1> USE DEF RingInv, TypeOK, PushLoad, ProducerGoto, shared, sockets, readVars
<1>1. SharedTypeOK' /\ WriterTypeOK' /\ HistoryTypeOK'
  BY DEF SharedTypeOK, WriterTypeOK, HistoryTypeOK, ProducerPcs, Items, Kinds
<1>2. Exclusive'
  BY DEF Exclusive, InPush, InUnstuck, WriterTypeOK
<1>3. Holding'
  BY DEF Holding, Pushing, WriterTypeOK, HistoryTypeOK, Items
<1>4. Room' /\ Written'
  BY DEF Room, Filling, Written, Exclusive, InPush, InUnstuck, IsFull, WriterTypeOK, SharedTypeOK, RingHoldsLog
<1>5. QED
  BY <1>1, <1>2, <1>3, <1>4, WriterQuiet

\* Queue::push: the write fills the slot at tail and no other.
LEMMA PushWriteRing ==
  ASSUME RingInv, NEW p \in Producers, PushWrite(p)
  PROVE  RingInv'
<1> USE DEF RingInv, TypeOK, PushWrite, ProducerGoto, sockets, readVars, history
<1>1. tail < head + BufferLen /\ cur[p] \in Items
  BY DEF Room, Holding, Pushing
<1>2. RingHoldsLog' /\ buffer' \in [0 .. BufferLen - 1 -> Items \cup {Uninit}] /\ buffer'[Slot(tail')] = cur[p]
  BY <1>1, WriteSlot
<1>3. TypeOK'
  BY <1>2 DEF SharedTypeOK, ReaderTypeOK, WriterTypeOK, HistoryTypeOK, ProducerPcs
<1>4. Exclusive' /\ Holding' /\ Room'
  BY DEF Exclusive, InPush, InUnstuck, Holding, Pushing, Room, Filling, WriterTypeOK
<1>5. Written'
  BY <1>2 DEF Written, Exclusive, InPush, InUnstuck, WriterTypeOK
<1>6. ReaderView' /\ HandledInOrder'
  BY DEF ReaderView, HandledInOrder
<1>7. QED
  BY <1>2, <1>3, <1>4, <1>5, <1>6

\* Queue::push: the store to tail publishes what was written.
LEMMA PushPublishRing ==
  ASSUME RingInv, NEW p \in Producers, PushPublish(p)
  PROVE  RingInv'
<1> USE DEF RingInv, TypeOK, PushPublish, ProducerGoto, sockets, readVars
<1>1. tail < head + BufferLen /\ cur[p] \in Items /\ buffer[Slot(tail)] = cur[p]
  BY DEF Room, Holding, Pushing, Written
<1>2. RingHoldsLog' /\ ReaderView' /\ HandledInOrder' /\ log' \in Seq(Items)
  BY <1>1, PublishSlot
<1>3. TypeOK'
  <2>1. SharedTypeOK' /\ ReaderTypeOK'
    BY DEF SharedTypeOK, ReaderTypeOK
  <2>2. WriterTypeOK'
    BY DEF WriterTypeOK, ProducerPcs
  <2>3. HistoryTypeOK'
    BY <1>2 DEF HistoryTypeOK
  <2>4. QED
    BY <2>1, <2>2, <2>3
<1>4. Exclusive' /\ Holding'
  BY DEF Exclusive, InPush, InUnstuck, Holding, Pushing, WriterTypeOK
<1>5. Room' /\ Written'
  BY DEF Room, Filling, Written, Exclusive, InPush, InUnstuck, WriterTypeOK
<1>6. QED
  BY <1>2, <1>3, <1>4, <1>5

\* The steps after the publication, and the ones of the full branch, leave the ring alone.
LEMMA PushRestRing ==
  ASSUME RingInv, NEW p \in Producers,
         \/ PushCheck(p) \/ PushMark(p) \/ PushNotify(p) \/ PushPending(p)
         \/ PollHandle(p) \/ DropHandle(p) \/ NotifyManually(p)
  PROVE  RingInv'
<1> USE DEF RingInv, TypeOK, ProducerGoto, shared, sockets, readVars, history
<1> DEFINE Kept == Exclusive' /\ Holding' /\ Room' /\ Written'
<1> USE DEF SharedTypeOK, WriterTypeOK, HistoryTypeOK, ProducerPcs
<1>1. CASE PushCheck(p)
  <2>1. SharedTypeOK' /\ WriterTypeOK' /\ HistoryTypeOK'
    BY <1>1 DEF PushCheck
  <2>2. Kept
    BY <1>1 DEF PushCheck, Exclusive, InPush, InUnstuck, Holding, Pushing, Room, Filling, Written
  <2>3. QED
    BY <1>1, <2>1, <2>2, WriterQuiet DEF PushCheck
<1>2. CASE PushMark(p)
  <2>1. SharedTypeOK' /\ WriterTypeOK' /\ HistoryTypeOK'
    BY <1>2 DEF PushMark
  <2>2. Kept
    BY <1>2 DEF PushMark, Exclusive, InPush, InUnstuck, Holding, Pushing, Room, Filling, Written
  <2>3. QED
    BY <1>2, <2>1, <2>2, WriterQuiet DEF PushMark
<1>3. CASE PushNotify(p)
  <2>1. SharedTypeOK' /\ WriterTypeOK' /\ HistoryTypeOK'
    BY <1>3 DEF PushNotify, Notified
  <2>2. Kept
    BY <1>3 DEF PushNotify, Exclusive, InPush, InUnstuck, Holding, Pushing, Room, Filling, Written
  <2>3. QED
    BY <1>3, <2>1, <2>2, WriterQuiet DEF PushNotify
<1>4. CASE PushPending(p)
  <2>1. cur[p] \in Items
    BY <1>4 DEF PushPending, Holding, Pushing
  <2>2. SharedTypeOK' /\ WriterTypeOK' /\ HistoryTypeOK'
    BY <1>4, <2>1 DEF PushPending, Task
  <2>3. Kept
    BY <1>4 DEF PushPending, Exclusive, InPush, InUnstuck, Holding, Pushing, Room, Filling, Written
  <2>4. QED
    BY <1>4, <2>2, <2>3, WriterQuiet DEF PushPending
<1>5. CASE PollHandle(p)
  <2>1. SharedTypeOK' /\ WriterTypeOK' /\ HistoryTypeOK'
    BY <1>5 DEF PollHandle
  <2>2. Kept
    BY <1>5 DEF PollHandle, Exclusive, InPush, InUnstuck, Holding, Pushing, Room, Filling, Written
  <2>3. QED
    BY <1>5, <2>1, <2>2, WriterQuiet DEF PollHandle
<1>6. CASE DropHandle(p)
  <2>1. SharedTypeOK' /\ WriterTypeOK' /\ HistoryTypeOK'
    BY <1>6 DEF DropHandle
  <2>2. Kept
    BY <1>6 DEF DropHandle, Exclusive, InPush, InUnstuck, Holding, Pushing, Room, Filling, Written
  <2>3. QED
    BY <1>6, <2>1, <2>2, WriterQuiet DEF DropHandle
<1>7. CASE NotifyManually(p)
  <2>1. SharedTypeOK' /\ WriterTypeOK' /\ HistoryTypeOK'
    BY <1>7 DEF NotifyManually
  <2>2. Kept
    BY <1>7 DEF NotifyManually, Exclusive, InPush, InUnstuck, Holding, Pushing, Room, Filling, Written
  <2>3. QED
    BY <1>7, <2>1, <2>2, WriterQuiet DEF NotifyManually
<1>8. QED
  BY <1>1, <1>2, <1>3, <1>4, <1>5, <1>6, <1>7

\* The same store, made by unstuck_handler.
LEMMA UnstuckPublishRing ==
  ASSUME RingInv, UnstuckPublish
  PROVE  RingInv'
<1> USE DEF RingInv, TypeOK, UnstuckPublish, UnstuckGoto, sockets, readVars
<1>1. tail < head + BufferLen /\ ucur.item \in Items /\ buffer[Slot(tail)] = ucur.item
  BY DEF Room, Filling, Holding, Written, Task
<1>2. RingHoldsLog' /\ ReaderView' /\ HandledInOrder' /\ log' \in Seq(Items)
  BY <1>1, PublishSlot
<1>3. TypeOK'
  <2>1. SharedTypeOK' /\ ReaderTypeOK'
    BY DEF SharedTypeOK, ReaderTypeOK
  <2>2. WriterTypeOK'
    BY DEF WriterTypeOK, UnstuckPcs
  <2>3. HistoryTypeOK'
    BY <1>2 DEF HistoryTypeOK
  <2>4. QED
    BY <2>1, <2>2, <2>3
<1>4. Exclusive' /\ Holding'
  BY DEF Exclusive, InPush, InUnstuck, Holding, Pushing, WriterTypeOK
<1>5. Room' /\ Written'
  BY DEF Room, Filling, Written, Exclusive, InPush, InUnstuck, WriterTypeOK
<1>6. QED
  BY <1>2, <1>3, <1>4, <1>5

\* The same write, made by unstuck_handler.
LEMMA UnstuckWriteRing ==
  ASSUME RingInv, UnstuckWrite
  PROVE  RingInv'
<1> USE DEF RingInv, TypeOK, UnstuckWrite, UnstuckGoto, sockets, readVars, history
<1>1. tail < head + BufferLen /\ ucur.item \in Items
  BY DEF Room, Filling, Holding, Task
<1>2. RingHoldsLog' /\ buffer' \in [0 .. BufferLen - 1 -> Items \cup {Uninit}] /\ buffer'[Slot(tail')] = ucur.item
  BY <1>1, WriteSlot
<1>3. TypeOK'
  BY <1>2 DEF SharedTypeOK, ReaderTypeOK, WriterTypeOK, HistoryTypeOK, UnstuckPcs
<1>4. Exclusive' /\ Holding' /\ Room'
  BY DEF Exclusive, InPush, InUnstuck, Holding, Pushing, Room, Filling, WriterTypeOK
<1>5. Written'
  BY <1>2 DEF Written, Exclusive, InPush, InUnstuck, WriterTypeOK
<1>6. ReaderView' /\ HandledInOrder'
  BY DEF ReaderView, HandledInOrder
<1>7. QED
  BY <1>2, <1>3, <1>4, <1>5, <1>6

\* The first task is taken where the ring has room, so the room is there for it.
LEMMA UnstuckFillRing ==
  ASSUME RingInv, UnstuckFill
  PROVE  RingInv'
<1> USE DEF RingInv, TypeOK, UnstuckFill, UnstuckGoto, shared, sockets, readVars, history
<1>1. SharedTypeOK' /\ HistoryTypeOK'
  BY DEF SharedTypeOK, HistoryTypeOK
<1>2. WriterTypeOK' /\ (upc' = "write" => ucur' \in Task)
  BY DEF WriterTypeOK, UnstuckPcs
<1>3. Exclusive' /\ Holding'
  BY <1>2 DEF Exclusive, InPush, InUnstuck, Holding, Pushing
<1>4. Room' /\ Written'
  BY DEF Room, Filling, Written, Exclusive, InPush, InUnstuck, IsFull, SharedTypeOK, RingHoldsLog
<1>5. QED
  BY <1>1, <1>2, <1>3, <1>4, WriterQuiet

\* The steps of unstuck_handler that leave the ring alone.
LEMMA UnstuckRestRing ==
  ASSUME RingInv,
         \/ UnstuckLock \/ UnstuckWake \/ UnstuckCheck \/ UnstuckMark \/ UnstuckNotify
         \/ UnstuckRestick \/ UnstuckFull \/ AwaitUnstuck
  PROVE  RingInv'
<1> USE DEF RingInv, TypeOK, UnstuckGoto, shared, sockets, readVars, history
<1> DEFINE Kept == Exclusive' /\ Holding' /\ Room' /\ Written'
<1> USE DEF SharedTypeOK, WriterTypeOK, HistoryTypeOK, UnstuckPcs
<1>1. CASE UnstuckLock
  <2>1. SharedTypeOK' /\ WriterTypeOK' /\ HistoryTypeOK'
    BY <1>1 DEF UnstuckLock, ProducerPcs
  <2>2. Kept
    BY <1>1 DEF UnstuckLock, Exclusive, InPush, InUnstuck, Holding, Pushing, Room, Filling, Written
  <2>3. QED
    BY <1>1, <2>1, <2>2, WriterQuiet DEF UnstuckLock
<1>2. CASE UnstuckWake
  <2>1. SharedTypeOK' /\ WriterTypeOK' /\ HistoryTypeOK'
    BY <1>2 DEF UnstuckWake, ProducerPcs
  <2>2. Kept
    BY <1>2 DEF UnstuckWake, Exclusive, InPush, InUnstuck, Holding, Pushing, Room, Filling, Written
  <2>3. QED
    BY <1>2, <2>1, <2>2, WriterQuiet DEF UnstuckWake
<1>3. CASE UnstuckCheck
  <2>1. SharedTypeOK' /\ WriterTypeOK' /\ HistoryTypeOK'
    BY <1>3 DEF UnstuckCheck, ProducerPcs
  <2>2. Kept
    BY <1>3 DEF UnstuckCheck, Exclusive, InPush, InUnstuck, Holding, Pushing, Room, Filling, Written
  <2>3. QED
    BY <1>3, <2>1, <2>2, WriterQuiet DEF UnstuckCheck
<1>4. CASE UnstuckMark
  <2>1. SharedTypeOK' /\ WriterTypeOK' /\ HistoryTypeOK'
    BY <1>4 DEF UnstuckMark, ProducerPcs
  <2>2. Kept
    BY <1>4 DEF UnstuckMark, Exclusive, InPush, InUnstuck, Holding, Pushing, Room, Filling, Written
  <2>3. QED
    BY <1>4, <2>1, <2>2, WriterQuiet DEF UnstuckMark
<1>5. CASE UnstuckNotify
  <2>1. SharedTypeOK' /\ WriterTypeOK' /\ HistoryTypeOK'
    BY <1>5 DEF UnstuckNotify, Notified, ProducerPcs
  <2>2. Kept
    BY <1>5 DEF UnstuckNotify, Exclusive, InPush, InUnstuck, Holding, Pushing, Room, Filling, Written
  <2>3. QED
    BY <1>5, <2>1, <2>2, WriterQuiet DEF UnstuckNotify
<1>6. CASE UnstuckRestick
  <2>1. SharedTypeOK' /\ WriterTypeOK' /\ HistoryTypeOK'
    BY <1>6 DEF UnstuckRestick, ProducerPcs
  <2>2. Kept
    BY <1>6 DEF UnstuckRestick, Exclusive, InPush, InUnstuck, Holding, Pushing, Room, Filling, Written
  <2>3. QED
    BY <1>6, <2>1, <2>2, WriterQuiet DEF UnstuckRestick
<1>7. CASE UnstuckFull
  <2>1. SharedTypeOK' /\ WriterTypeOK' /\ HistoryTypeOK'
    BY <1>7 DEF UnstuckFull, ProducerPcs
  <2>2. Kept
    BY <1>7 DEF UnstuckFull, Exclusive, InPush, InUnstuck, Holding, Pushing, Room, Filling, Written
  <2>3. QED
    BY <1>7, <2>1, <2>2, WriterQuiet DEF UnstuckFull
<1>8. CASE AwaitUnstuck
  <2>1. SharedTypeOK' /\ WriterTypeOK' /\ HistoryTypeOK'
    BY <1>8 DEF AwaitUnstuck, Drained, ProducerPcs
  <2>2. Kept
    BY <1>8 DEF AwaitUnstuck, Exclusive, InPush, InUnstuck, Holding, Pushing, Room, Filling, Written
  <2>3. QED
    BY <1>8, <2>1, <2>2, WriterQuiet DEF AwaitUnstuck
<1>9. QED
  BY <1>1, <1>2, <1>3, <1>4, <1>5, <1>6, <1>7, <1>8

\* Every step of a producer keeps the invariant.
LEMMA ProducerRing ==
  ASSUME RingInv, NEW p \in Producers, ProducerStep(p)
  PROVE  RingInv'
  BY PushLoadRing, PushWriteRing, PushPublishRing, PushRestRing DEF ProducerStep, PushStart, PushStep

\* Every step of unstuck_handler keeps the invariant.
LEMMA UnstuckRing ==
  ASSUME RingInv, UnstuckStep
  PROVE  RingInv'
  BY UnstuckFillRing, UnstuckWriteRing, UnstuckPublishRing, UnstuckRestRing DEF UnstuckStep, UnstuckBody

\* A step that changes nothing keeps the invariant.
LEMMA StutterRing ==
  ASSUME RingInv, UNCHANGED vars
  PROVE  RingInv'
<1> USE DEF RingInv, TypeOK, vars, shared, sockets, readVars, writeVars, history
<1>1. TypeOK'
  BY DEF SharedTypeOK, ReaderTypeOK, WriterTypeOK, HistoryTypeOK
<1>2. Exclusive' /\ Holding' /\ Room' /\ Written'
  BY DEF Exclusive, InPush, InUnstuck, Holding, Pushing, Room, Filling, Written
<1>3. RingHoldsLog' /\ ReaderView' /\ HandledInOrder'
  BY DEF RingHoldsLog, ReaderView, HandledInOrder
<1>4. QED
  BY <1>1, <1>2, <1>3

-----------------------------------------------------------------------------
(* Theorems *)

\* RingInv holds in every state MemRing can reach.
THEOREM RingInvariant == Spec => []RingInv
<1>1. RingInv /\ [Next]_vars => RingInv'
  BY ReaderRing, UnstuckRing, ProducerRing, StutterRing DEF Next
<1>2. QED
  BY InitRing, <1>1, PTL DEF Spec

\* Every variable keeps its type; in particular pop never reads a slot that
\* was not written (queue.rs 711-728).
THEOREM TypeCorrect == Spec => []TypeOK
<1>1. RingInv => TypeOK
  BY DEF RingInv
<1>2. QED
  BY <1>1, RingInvariant, PTL

\* The unpopped slots hold what was published, never more than buffer_len.
THEOREM RingFaithful == Spec => []RingHoldsLog
<1>1. RingInv => RingHoldsLog
  BY DEF RingInv
<1>2. QED
  BY <1>1, RingInvariant, PTL

\* The handler is given the published items, each once, in their order.
THEOREM InOrder == Spec => []HandledInOrder
<1>1. RingInv => HandledInOrder
  BY DEF RingInv
<1>2. QED
  BY <1>1, RingInvariant, PTL

\* The slot a writer stores into and the one the reader copies out differ.
LEMMA RingSeparates == RingInv => NoSlotRace
<1>1. RingInv /\ WriterInSlot /\ ReaderInSlot => head < tail /\ tail - head < BufferLen
  BY DEF RingInv, TypeOK, SharedTypeOK, WriterInSlot, ReaderInSlot, ReaderView, Room, Filling
<1>2. RingInv => head \in Nat /\ tail \in Nat
  BY DEF RingInv, TypeOK, SharedTypeOK
<1>3. QED
  BY <1>1, <1>2, SlotsApart DEF NoSlotRace

\* No writer stores into the slot the reader copies out (queue.rs 701-706, 720-725).
THEOREM NoRace == Spec => []NoSlotRace
  BY RingSeparates, RingInvariant, PTL

-----------------------------------------------------------------------------
(* The mutex *)

\* Every path out of push and of the loop of unstuck_handler gives the mutex back.
LEMMA StepMutex ==
  ASSUME TypeOK, MutexOwned, [Next]_vars
  PROVE  MutexOwned'
<1> USE DEF MutexOwned, InPush, InUnstuck, TypeOK, WriterTypeOK
<1>1. CASE ReaderStep
  BY <1>1 DEF ReaderStep, MarkWorking, PopLoad, PopRead, PopAdvance, StuckCheck, MarkUnstuck,
     NotifyUnstuck, HandleItem, RingDrained, YieldCheck, MarkUnworking, RecheckEmpty, AwaitWork,
     writeVars
<1>2. CASE UnstuckStep
  BY <1>2 DEF UnstuckStep, UnstuckBody, UnstuckLock, UnstuckFill, UnstuckWrite, UnstuckPublish,
     UnstuckWake, UnstuckCheck, UnstuckMark, UnstuckNotify, UnstuckRestick, UnstuckFull,
     AwaitUnstuck, UnstuckGoto
<1>3. ASSUME NEW p \in Producers, ProducerStep(p) PROVE MutexOwned'
  <2> USE DEF ProducerGoto
  <2>1. CASE PushStart(p)
    BY <2>1 DEF PushStart, PushLoad
  <2>2. CASE PushWrite(p) \/ PushPublish(p)
    BY <2>2 DEF PushWrite, PushPublish
  <2>3. CASE PushCheck(p) \/ PushMark(p) \/ PushNotify(p)
    BY <2>3 DEF PushCheck, PushMark, PushNotify
  <2>4. CASE PushPending(p) \/ PollHandle(p) \/ DropHandle(p)
    BY <2>4 DEF PushPending, PollHandle, DropHandle
  <2>5. CASE NotifyManually(p)
    BY <2>5 DEF NotifyManually
  <2>6. QED
    BY <1>3, <2>1, <2>2, <2>3, <2>4, <2>5 DEF ProducerStep, PushStep
<1>4. CASE UNCHANGED vars
  BY <1>4 DEF vars, writeVars
<1>5. QED
  BY <1>1, <1>2, <1>3, <1>4 DEF Next

\* Nobody is inside the mutex at the start.
LEMMA InitMutex == Init => MutexOwned
  BY DEF Init, MutexOwned, InPush, InUnstuck

\* An actor owns the mutex exactly while it is between lock and unlock.
THEOREM MutexCorrect == Spec => []MutexOwned
  BY InitMutex, StepMutex, TypeCorrect, PTL DEF Spec

-----------------------------------------------------------------------------
(* Wake-ups *)

\* Why no wake-up is lost.  A reader that has stored working = 0 and finds it
\* 1 again was marked by a writer that is about to send the byte, or has sent
\* it; a reader that went to sleep found the ring empty after its store, so
\* what is in the ring came later, and its writer has still to load working.
Notifying  == upc = "notify" \/ \E p \in Producers : pc[p] = "notify"
AboutToAsk == \/ \E p \in Producers : pc[p] \in {"check", "mark"}
              \/ upc \in {"fill", "write", "publish", "wake", "check", "mark"}
WakeInv ==
  /\ rpc \in {"recheck", "wait"} /\ working = 1 /\ workFd = 0 => Notifying
  /\ rpc = "wait" /\ working = 0 /\ ~IsEmpty => unnotified \/ AboutToAsk

\* Every step of working_handler keeps WakeInv.
LEMMA ReaderWakes ==
  ASSUME TypeOK, WakeInv, ReaderStep
  PROVE  WakeInv'
<1> USE DEF WakeInv, Notifying, AboutToAsk, IsEmpty, TypeOK, SharedTypeOK,
            ReaderGoto, writeVars, history, shared, sockets
<1>1. CASE MarkWorking \/ MarkUnworking \/ RecheckEmpty \/ AwaitWork
  BY <1>1 DEF MarkWorking, MarkUnworking, RecheckEmpty, AwaitWork
<1>2. CASE PopLoad \/ PopRead \/ PopAdvance \/ HandleItem \/ RingDrained
  BY <1>2 DEF PopLoad, PopRead, PopAdvance, HandleItem, RingDrained
<1>3. CASE StuckCheck \/ MarkUnstuck \/ NotifyUnstuck \/ YieldCheck
  BY <1>3 DEF StuckCheck, MarkUnstuck, NotifyUnstuck, YieldCheck
<1>4. QED
  BY <1>1, <1>2, <1>3 DEF ReaderStep

\* Every step of unstuck_handler keeps WakeInv.
LEMMA UnstuckWakes ==
  ASSUME TypeOK, WakeInv, UnstuckStep
  PROVE  WakeInv'
<1> USE DEF WakeInv, Notifying, AboutToAsk, IsEmpty, TypeOK, SharedTypeOK, WriterTypeOK,
            UnstuckGoto, shared, sockets, readVars, history
<1>1. CASE UnstuckLock \/ UnstuckFill \/ UnstuckWrite \/ UnstuckPublish
  BY <1>1 DEF UnstuckLock, UnstuckFill, UnstuckWrite, UnstuckPublish
<1>2. CASE UnstuckWake
  BY <1>2 DEF UnstuckWake
<1>3. CASE UnstuckCheck \/ UnstuckMark \/ UnstuckNotify
  BY <1>3 DEF UnstuckCheck, UnstuckMark, UnstuckNotify, Notified
<1>4. CASE UnstuckRestick \/ UnstuckFull \/ AwaitUnstuck
  BY <1>4 DEF UnstuckRestick, UnstuckFull, AwaitUnstuck
<1>5. QED
  BY <1>1, <1>2, <1>3, <1>4 DEF UnstuckStep, UnstuckBody

\* The push of an item keeps WakeInv, from its load to its byte.
LEMMA PushWakes ==
  ASSUME TypeOK, WakeInv, NEW p \in Producers,
         \/ \E k \in Kinds : PushLoad(p, k)
         \/ PushWrite(p) \/ PushPublish(p) \/ PushCheck(p) \/ PushMark(p)
         \/ PushNotify(p) \/ PushPending(p)
  PROVE  WakeInv'
<1> USE DEF WakeInv, Notifying, AboutToAsk, IsEmpty, TypeOK, SharedTypeOK, WriterTypeOK,
            ProducerGoto, shared, sockets, readVars, history
<1>1. CASE \E k \in Kinds : PushLoad(p, k)
  BY <1>1 DEF PushLoad
<1>2. CASE PushWrite(p) \/ PushPublish(p)
  BY <1>2 DEF PushWrite, PushPublish
<1>3. CASE PushCheck(p)
  BY <1>3 DEF PushCheck
<1>4. CASE PushMark(p) \/ PushNotify(p)
  BY <1>4 DEF PushMark, PushNotify, Notified
<1>5. CASE PushPending(p)
  BY <1>5 DEF PushPending
<1>6. QED
  BY <1>1, <1>2, <1>3, <1>4, <1>5

\* Every step of a producer keeps WakeInv.
LEMMA ProducerWakes ==
  ASSUME TypeOK, WakeInv, NEW p \in Producers, ProducerStep(p)
  PROVE  WakeInv'
<1>1. CASE PollHandle(p) \/ DropHandle(p) \/ NotifyManually(p)
  <2> USE DEF WakeInv, Notifying, AboutToAsk, IsEmpty, TypeOK, SharedTypeOK, WriterTypeOK,
              ProducerGoto, shared, sockets, readVars, history
  <2>1. CASE PollHandle(p) \/ DropHandle(p)
    BY <2>1 DEF PollHandle, DropHandle
  <2>2. CASE NotifyManually(p)
    BY <2>2 DEF NotifyManually
  <2>3. QED
    BY <1>1, <2>1, <2>2
<1>2. PushStart(p) => \E k \in Kinds : PushLoad(p, k)
  BY DEF PushStart
<1>3. QED
  BY <1>1, <1>2, PushWakes DEF ProducerStep, PushStep

\* A step that changes nothing keeps WakeInv.
LEMMA StutterWakes ==
  ASSUME WakeInv, UNCHANGED vars
  PROVE  WakeInv'
  BY DEF WakeInv, Notifying, AboutToAsk, IsEmpty, vars, shared, sockets, readVars, writeVars, history

\* WakeInv is what NoLostWakeup needs.
LEMMA WakeEnough == TypeOK /\ WakeInv => NoLostWakeup
  BY DEF WakeInv, Notifying, AboutToAsk, NoLostWakeup, WakeupOwed, TypeOK, SharedTypeOK

\* Nobody sleeps and nothing is published at the start.
LEMMA InitWakes == Init => WakeInv
  BY DEF Init, WakeInv

\* Once a push has published with the reader asleep, somebody sends a byte.
THEOREM WakeupsKept == Spec => []NoLostWakeup
<1>1. TypeOK /\ WakeInv /\ [Next]_vars => WakeInv'
  BY ReaderWakes, UnstuckWakes, ProducerWakes, StutterWakes DEF Next
<1>2. QED
  BY InitWakes, <1>1, WakeEnough, TypeCorrect, PTL DEF Spec

-----------------------------------------------------------------------------
(* The stuck flag *)

\* From the store to stuck on, until the next turn of its loop, unstuck_handler
\* relies on the flag still being up, on the reader being about to send the
\* byte for it, or on the byte.
FlagInv ==
  upc \in {"full?", "wait"} /\ pending # << >> /\ unstuckFd = 0
    => stuck = 1 \/ rpc = "unnotify"

\* Every step keeps FlagInv.
LEMMA StepFlag ==
  ASSUME TypeOK, FlagInv, [Next]_vars
  PROVE  FlagInv'
<1> USE DEF FlagInv, TypeOK, SharedTypeOK, WriterTypeOK
<1>1. CASE ReaderStep
  BY <1>1 DEF ReaderStep, MarkWorking, PopLoad, PopRead, PopAdvance, StuckCheck, MarkUnstuck,
     NotifyUnstuck, HandleItem, RingDrained, YieldCheck, MarkUnworking, RecheckEmpty, AwaitWork,
     Notified, ReaderGoto, writeVars, shared, sockets
<1>2. CASE UnstuckStep
  <2> USE DEF UnstuckGoto, shared, sockets, readVars
  <2>1. CASE UnstuckLock \/ UnstuckFill \/ UnstuckWrite \/ UnstuckPublish \/ UnstuckWake
    BY <2>1 DEF UnstuckLock, UnstuckFill, UnstuckWrite, UnstuckPublish, UnstuckWake
  <2>2. CASE UnstuckCheck \/ UnstuckMark \/ UnstuckNotify \/ UnstuckRestick
    BY <2>2 DEF UnstuckCheck, UnstuckMark, UnstuckNotify, UnstuckRestick
  <2>3. CASE UnstuckFull \/ AwaitUnstuck
    BY <2>3 DEF UnstuckFull, AwaitUnstuck
  <2>4. QED
    BY <1>2, <2>1, <2>2, <2>3 DEF UnstuckStep, UnstuckBody
<1>3. ASSUME NEW p \in Producers, ProducerStep(p) PROVE FlagInv'
  <2> USE DEF ProducerGoto, shared, sockets, readVars
  <2>1. CASE PushPending(p)
    BY <2>1 DEF PushPending
  <2>2. CASE PushStart(p) \/ PushWrite(p) \/ PushPublish(p)
    BY <2>2 DEF PushStart, PushLoad, PushWrite, PushPublish
  <2>3. CASE PushCheck(p) \/ PushMark(p) \/ PushNotify(p) \/ NotifyManually(p)
    BY <2>3 DEF PushCheck, PushMark, PushNotify, NotifyManually
  <2>4. CASE PollHandle(p) \/ DropHandle(p)
    BY <2>4 DEF PollHandle, DropHandle
  <2>5. QED
    BY <1>3, <2>1, <2>2, <2>3, <2>4 DEF ProducerStep, PushStep
<1>4. CASE UNCHANGED vars
  BY <1>4 DEF vars, shared, sockets, readVars, writeVars
<1>5. QED
  BY <1>1, <1>2, <1>3, <1>4 DEF Next

\* Nothing is pending at the start.
LEMMA InitFlag == Init => FlagInv
  BY DEF Init, FlagInv

\* FlagInv is what PendingFlagged needs.
LEMMA FlagEnough == FlagInv => PendingFlagged
  BY DEF FlagInv, PendingFlagged

\* Tasks that wait for unstuck_handler are never left without the flag, the
\* reader's pending byte, or the byte.
THEOREM FlagKept == Spec => []PendingFlagged
  BY InitFlag, StepFlag, FlagEnough, TypeCorrect, PTL DEF Spec
=============================================================================
