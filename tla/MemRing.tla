------------------------------ MODULE MemRing ------------------------------
(***************************************************************************)
(* One direction of mem-ring as written in mem-ring/src/queue.rs: a ring   *)
(* in shared memory with a head, a tail, a working flag and a stuck flag,  *)
(* two socket pairs that carry wake-ups, the writers that push under a     *)
(* mutex, the task unstuck_handler that moves overflowed items into the    *)
(* ring, and the task working_handler that pops and handles them.          *)
(*                                                                         *)
(* An action is one access to state another actor can see at the same      *)
(* time (an atomic, a slot of the buffer, a socket).  Taking or releasing  *)
(* the mutex, and what is only touched under it, is folded into the access *)
(* next to it.  Accesses interleave in program order: reordering by the    *)
(* store buffers of the machine is not part of this module.                *)
(***************************************************************************)
EXTENDS Integers, Sequences, FiniteSets

CONSTANTS
  Producers,  \* the threads that own a clone of the WriteQueue
  UTask,      \* the task running unstuck_handler, as an owner of the mutex
  NoOne,      \* the owner of the mutex when it is free
  BufferLen,  \* buffer_len: slots of the ring
  MaxPush,    \* bound: how many items are pushed
  YieldCnt,   \* YIELD_CNT: how often an idle reader yields before it sleeps
  ReadChunk,  \* the bytes one Awaiter::wait takes from its socket (64)
  SockCap,    \* the bytes a socket holds before a write to it fails
  PushKinds   \* the operations producers use, see Kinds

Kinds == {"push", "silent", "await", "manual"}

ASSUME MemRingAssumption ==
  /\ UTask \notin Producers /\ NoOne \notin Producers /\ UTask # NoOne
  /\ BufferLen \in Nat \ {0} /\ MaxPush \in Nat /\ YieldCnt \in Nat \ {0}
  /\ ReadChunk \in Nat \ {0} /\ SockCap \in Nat \ {0}
  /\ PushKinds \subseteq Kinds

Items  == 1 .. MaxPush  \* items are numbered in the order of their push
None   == 0             \* Option::None
Uninit == -1            \* what a slot holds before its first write

VARIABLES
  head, tail,          \* AtomicU64: items popped, items published
  working, stuck,      \* AtomicU32, 0 or 1
  buffer,              \* the slots
  workFd, unstuckFd,   \* bytes in flight on the two socket pairs
  rpc, ritem, yields,  \* working_handler: its position, its item, its loop
  lock, pending,       \* WriteQueueInner's mutex and pending_tasks
  pc, cur, kind,       \* each producer: its position, its item, its call
  upc, ucur,           \* unstuck_handler: its position, its pending task
  waker,               \* the WakerSlot of an item pushed with an awaiter
  next, log, handled,  \* history: items pushed, published, handled
  unnotified           \* history: a silent push found the reader asleep

shared    == <<head, tail, working, stuck, buffer>>
sockets   == <<workFd, unstuckFd>>
readVars  == <<rpc, ritem, yields>>
writeVars == <<lock, pending, pc, cur, kind, upc, ucur, waker>>
history   == <<next, log, handled, unnotified>>
vars      == <<shared, sockets, readVars, writeVars, history>>

Task    == [item : Items, waiter : BOOLEAN]
NoTask  == [item |-> None, waiter |-> FALSE]
Slot(i) == i % BufferLen

\* Notifier::notify writes one byte; a full socket makes the write fail, and
\* the callers ignore the error.  Awaiter::wait takes up to ReadChunk bytes.
Notified(n) == IF n < SockCap THEN n + 1 ELSE n
Drained(n)  == IF n > ReadChunk THEN n - ReadChunk ELSE 0

IsEmpty == tail = head
\* Mutant: the comparison is off by one.
IsFull_OffByOne == tail - head > BufferLen

IsFull  == tail - head = BufferLen

Init ==
  /\ head = 0 /\ tail = 0 /\ working = 0 /\ stuck = 0
  /\ buffer = [s \in 0 .. BufferLen - 1 |-> Uninit]
  /\ workFd = 0 /\ unstuckFd = 0
  /\ rpc = "mark" /\ ritem = None /\ yields = 0
  /\ lock = NoOne /\ pending = << >>
  /\ pc = [p \in Producers |-> "idle"]
  /\ cur = [p \in Producers |-> None]
  /\ kind = [p \in Producers |-> "push"]
  /\ upc = "drain" /\ ucur = NoTask
  /\ waker = [i \in Items |-> "absent"]
  /\ next = 0 /\ log = << >> /\ handled = << >> /\ unnotified = FALSE

-----------------------------------------------------------------------------
(* working_handler and ReadQueue::pop *)

ReaderGoto(from, to) == rpc = from /\ rpc' = to

MarkWorking ==
  /\ ReaderGoto("mark", "pop")
  /\ working' = 1
  /\ UNCHANGED <<head, tail, stuck, buffer, sockets, ritem, yields, writeVars, history>>

PopLoad ==
  /\ ReaderGoto("pop", IF IsEmpty THEN "stuck?" ELSE "read")
  /\ ritem' = None
  /\ UNCHANGED <<shared, sockets, yields, writeVars, history>>

\* Mutant: the slot after the first one.
PopRead_NextSlot ==
  /\ ReaderGoto("read", "advance")
  /\ ritem' = buffer[Slot(head + 1)]
  /\ UNCHANGED <<shared, sockets, yields, writeVars, history>>

PopRead ==
  /\ ReaderGoto("read", "advance")
  /\ ritem' = buffer[Slot(head)]
  /\ UNCHANGED <<shared, sockets, yields, writeVars, history>>

\* Mutants: head moves to what tail is by now; head does not move.
PopAdvance_ToTail ==
  /\ ReaderGoto("advance", "stuck?")
  /\ head' = tail
  /\ UNCHANGED <<tail, working, stuck, buffer, sockets, ritem, yields, writeVars, history>>
PopAdvance_Forgotten ==
  /\ ReaderGoto("advance", "stuck?")
  /\ UNCHANGED <<shared, sockets, ritem, yields, writeVars, history>>

PopAdvance ==
  /\ ReaderGoto("advance", "stuck?")
  /\ head' = head + 1
  /\ UNCHANGED <<tail, working, stuck, buffer, sockets, ritem, yields, writeVars, history>>

StuckCheck ==
  /\ ReaderGoto("stuck?", IF stuck = 1 THEN "unstick" ELSE "handle")
  /\ UNCHANGED <<shared, sockets, ritem, yields, writeVars, history>>

\* Mutant: the flag is cleared and nobody is told.
MarkUnstuck_Silent ==
  /\ ReaderGoto("unstick", "handle")
  /\ stuck' = 0
  /\ UNCHANGED <<head, tail, working, buffer, sockets, ritem, yields, writeVars, history>>

MarkUnstuck ==
  /\ ReaderGoto("unstick", "unnotify")
  /\ stuck' = 0
  /\ UNCHANGED <<head, tail, working, buffer, sockets, ritem, yields, writeVars, history>>

NotifyUnstuck ==
  /\ ReaderGoto("unnotify", "handle")
  /\ unstuckFd' = Notified(unstuckFd)
  /\ UNCHANGED <<shared, workFd, ritem, yields, writeVars, history>>

HandleItem ==
  /\ ritem # None
  /\ ReaderGoto("handle", "pop")
  /\ handled' = Append(handled, ritem)
  /\ ritem' = None
  /\ UNCHANGED <<shared, sockets, yields, writeVars, next, log, unnotified>>

RingDrained ==
  /\ ritem = None
  /\ ReaderGoto("handle", "yield")
  /\ yields' = 0
  /\ UNCHANGED <<shared, sockets, ritem, writeVars, history>>

YieldCheck ==
  /\ rpc = "yield"
  /\ \/ /\ ~IsEmpty
        /\ rpc' = "pop" /\ yields' = 0
     \/ /\ IsEmpty /\ yields + 1 < YieldCnt
        /\ yields' = yields + 1 /\ UNCHANGED rpc
     \/ /\ IsEmpty /\ yields + 1 >= YieldCnt
        /\ rpc' = "unwork" /\ yields' = 0
  /\ UNCHANGED <<shared, sockets, ritem, writeVars, history>>

MarkUnworking ==
  /\ ReaderGoto("unwork", "recheck")
  /\ working' = 0
  /\ UNCHANGED <<head, tail, stuck, buffer, sockets, ritem, yields, writeVars, history>>

\* Mutant: mark_unworking does not look at the ring again.
RecheckEmpty_Skipped ==
  /\ ReaderGoto("recheck", "wait")
  /\ UNCHANGED <<shared, sockets, ritem, yields, writeVars, history>>

RecheckEmpty ==
  /\ ReaderGoto("recheck", IF IsEmpty THEN "wait" ELSE "mark")
  /\ UNCHANGED <<shared, sockets, ritem, yields, writeVars, history>>

AwaitWork ==
  /\ workFd > 0
  /\ ReaderGoto("wait", "mark")
  /\ workFd' = Drained(workFd)
  /\ UNCHANGED <<shared, unstuckFd, ritem, yields, writeVars, history>>

ReaderStep ==
  \/ MarkWorking \/ PopLoad \/ PopRead \/ PopAdvance
  \/ StuckCheck \/ MarkUnstuck \/ NotifyUnstuck \/ HandleItem \/ RingDrained
  \/ YieldCheck \/ MarkUnworking \/ RecheckEmpty \/ AwaitWork

-----------------------------------------------------------------------------
(* push, push_without_notify, push_with_awaiter and notify_manually *)

ProducerGoto(p, from, to) == pc[p] = from /\ pc' = [pc EXCEPT ![p] = to]

\* Lock, then load tail and head: the load decides whether the ring is full.
PushLoad(p, k) ==
  /\ next < MaxPush
  /\ lock = NoOne /\ lock' = p
  /\ ProducerGoto(p, "idle", IF IsFull THEN "stick" ELSE "write")
  /\ next' = next + 1
  /\ cur' = [cur EXCEPT ![p] = next + 1]
  /\ kind' = [kind EXCEPT ![p] = k]
  /\ UNCHANGED <<shared, sockets, readVars, pending, upc, ucur, waker, log, handled, unnotified>>

PushWrite(p) ==
  /\ ProducerGoto(p, "write", "publish")
  /\ buffer' = [buffer EXCEPT ![Slot(tail)] = cur[p]]
  /\ UNCHANGED <<head, tail, working, stuck, sockets, readVars,
                 lock, pending, cur, kind, upc, ucur, waker, history>>

\* Store tail + 1.  push_without_notify returns here and unlocks.
PushPublish(p) ==
  /\ ProducerGoto(p, "publish", IF kind[p] = "silent" THEN "idle" ELSE "check")
  /\ tail' = tail + 1
  /\ log' = Append(log, cur[p])
  /\ IF kind[p] = "silent"
       THEN lock' = NoOne /\ unnotified' = (unnotified \/ working = 0)
       ELSE UNCHANGED <<lock, unnotified>>
  /\ UNCHANGED <<head, working, stuck, buffer, sockets, readVars,
                 pending, cur, kind, upc, ucur, waker, next, handled>>

\* Load working: a peer that works needs no wake-up, so unlock and return.
PushCheck(p) ==
  /\ ProducerGoto(p, "check", IF working = 1 THEN "idle" ELSE "mark")
  /\ lock' = IF working = 1 THEN NoOne ELSE lock
  /\ unnotified' = FALSE
  /\ UNCHANGED <<shared, sockets, readVars, pending, cur, kind, upc, ucur, waker, next, log, handled>>

\* Mutant: the peer is marked working and the byte is not sent.
PushMark_NoNotify(p) ==
  /\ ProducerGoto(p, "mark", "idle")
  /\ working' = 1 /\ lock' = NoOne
  /\ UNCHANGED <<head, tail, stuck, buffer, sockets, readVars,
                 pending, cur, kind, upc, ucur, waker, history>>

\* Store working and unlock; the socket is written outside the mutex.
PushMark(p) ==
  /\ ProducerGoto(p, "mark", "notify")
  /\ working' = 1 /\ lock' = NoOne
  /\ UNCHANGED <<head, tail, stuck, buffer, sockets, readVars,
                 pending, cur, kind, upc, ucur, waker, history>>

PushNotify(p) ==
  /\ ProducerGoto(p, "notify", "idle")
  /\ workFd' = Notified(workFd)
  /\ UNCHANGED <<shared, unstuckFd, readVars, lock, pending, cur, kind, upc, ucur, waker, history>>

\* The ring was full at the load: store stuck, queue the task, unlock.
PushPending(p) ==
  /\ ProducerGoto(p, "stick", IF kind[p] = "await" THEN "poll" ELSE "idle")
  /\ stuck' = 1 /\ lock' = NoOne
  /\ pending' = Append(pending, [item |-> cur[p], waiter |-> kind[p] = "await"])
  /\ waker' = IF kind[p] = "await" THEN [waker EXCEPT ![cur[p]] = "none"] ELSE waker
  /\ UNCHANGED <<head, tail, working, buffer, sockets, readVars, cur, kind, upc, ucur, history>>

\* PushJoinHandle::poll: ready when the slot is Finished, else leave a waker.
PollHandle(p) ==
  /\ ProducerGoto(p, "poll", IF waker[cur[p]] = "finished" THEN "idle" ELSE "parked")
  /\ waker' = [waker EXCEPT ![cur[p]] = IF @ = "finished" THEN @ ELSE "some"]
  /\ UNCHANGED <<shared, sockets, readVars, lock, pending, cur, kind, upc, ucur, history>>

\* The caller may drop the handle before it is ready.
DropHandle(p) ==
  /\ pc[p] \in {"poll", "parked"}
  /\ pc' = [pc EXCEPT ![p] = "idle"]
  /\ UNCHANGED <<shared, sockets, readVars, lock, pending, cur, kind, upc, ucur, waker, history>>

\* notify_manually: lock and load working; mark and notify unless it is set.
NotifyManually(p) ==
  /\ "manual" \in PushKinds /\ lock = NoOne
  /\ ProducerGoto(p, "idle", IF working = 1 THEN "idle" ELSE "mark")
  /\ lock' = IF working = 1 THEN NoOne ELSE p
  /\ unnotified' = FALSE
  /\ UNCHANGED <<shared, sockets, readVars, pending, cur, kind, upc, ucur, waker, next, log, handled>>

PushStart(p) == \E k \in PushKinds \ {"manual"} : PushLoad(p, k)

PushStep(p) ==
  \/ PushWrite(p) \/ PushPublish(p) \/ PushCheck(p) \/ PushMark(p)
  \/ PushNotify(p) \/ PushPending(p) \/ PollHandle(p)

ProducerStep(p) == PushStart(p) \/ PushStep(p) \/ DropHandle(p) \/ NotifyManually(p)

-----------------------------------------------------------------------------
(* unstuck_handler *)

UnstuckGoto(from, to) == upc = from /\ upc' = to

UnstuckLock ==
  /\ lock = NoOne /\ lock' = UTask
  /\ UnstuckGoto("drain", "fill")
  /\ UNCHANGED <<shared, sockets, readVars, pending, pc, cur, kind, ucur, waker, history>>

\* Mutants: a task is pushed into a full ring; a task that found no room is not
\* put back.
UnstuckFill_Unchecked ==
  /\ \/ /\ pending = << >>
        /\ UnstuckGoto("fill", "check")
        /\ UNCHANGED <<pending, ucur>>
     \/ /\ pending # << >>
        /\ UnstuckGoto("fill", "write")
        /\ ucur' = Head(pending) /\ pending' = Tail(pending)
  /\ UNCHANGED <<shared, sockets, readVars, lock, pc, cur, kind, waker, history>>
UnstuckFill_Loses ==
  /\ \/ /\ pending = << >> \/ IsFull
        /\ UnstuckGoto("fill", "check")
        /\ pending' = IF pending = << >> THEN << >> ELSE Tail(pending)
        /\ UNCHANGED ucur
     \/ /\ pending # << >> /\ ~IsFull
        /\ UnstuckGoto("fill", "write")
        /\ ucur' = Head(pending) /\ pending' = Tail(pending)
  /\ UNCHANGED <<shared, sockets, readVars, lock, pc, cur, kind, waker, history>>

\* Take the first pending task, or stop: none is left, or the ring is full
\* and the task goes back to the front.
UnstuckFill ==
  /\ \/ /\ pending = << >> \/ IsFull
        /\ UnstuckGoto("fill", "check")
        /\ UNCHANGED <<pending, ucur>>
     \/ /\ pending # << >> /\ ~IsFull
        /\ UnstuckGoto("fill", "write")
        /\ ucur' = Head(pending) /\ pending' = Tail(pending)
  /\ UNCHANGED <<shared, sockets, readVars, lock, pc, cur, kind, waker, history>>

UnstuckWrite ==
  /\ UnstuckGoto("write", "publish")
  /\ buffer' = [buffer EXCEPT ![Slot(tail)] = ucur.item]
  /\ UNCHANGED <<head, tail, working, stuck, sockets, readVars,
                 lock, pending, pc, cur, kind, ucur, waker, history>>

UnstuckPublish ==
  /\ UnstuckGoto("publish", IF ucur.waiter THEN "wake" ELSE "fill")
  /\ tail' = tail + 1
  /\ log' = Append(log, ucur.item)
  /\ UNCHANGED <<head, working, stuck, buffer, sockets, readVars,
                 lock, pending, pc, cur, kind, ucur, waker, next, handled, unnotified>>

\* Mutant: the slot becomes Finished and the waker in it is dropped.
UnstuckWake_Dropped ==
  /\ UnstuckGoto("wake", "fill")
  /\ waker' = [waker EXCEPT ![ucur.item] = "finished"]
  /\ UNCHANGED <<shared, sockets, readVars, lock, pending, pc, cur, kind, ucur, history>>

\* WakerSlot::wake: the slot becomes Finished; a waker that was in it runs.
UnstuckWake ==
  /\ UnstuckGoto("wake", "fill")
  /\ waker' = [waker EXCEPT ![ucur.item] = "finished"]
  /\ pc' = [p \in Producers |->
              IF pc[p] = "parked" /\ cur[p] = ucur.item /\ waker[ucur.item] = "some"
              THEN "poll" ELSE pc[p]]
  /\ UNCHANGED <<shared, sockets, readVars, lock, pending, cur, kind, ucur, history>>

UnstuckCheck ==
  /\ UnstuckGoto("check", IF working = 1 THEN "restick" ELSE "mark")
  /\ unnotified' = FALSE
  /\ UNCHANGED <<shared, sockets, readVars, lock, pending, pc, cur, kind, ucur, waker,
                 next, log, handled>>

UnstuckMark ==
  /\ UnstuckGoto("mark", "notify")
  /\ working' = 1
  /\ UNCHANGED <<head, tail, stuck, buffer, sockets, readVars,
                 lock, pending, pc, cur, kind, ucur, waker, history>>

UnstuckNotify ==
  /\ UnstuckGoto("notify", "restick")
  /\ workFd' = Notified(workFd)
  /\ UNCHANGED <<shared, unstuckFd, readVars, lock, pending, pc, cur, kind, ucur, waker, history>>

\* Mutant: the flag is not raised again.
UnstuckRestick_Forgotten ==
  /\ \/ /\ pending = << >>
        /\ UnstuckGoto("restick", "wait")
        /\ lock' = NoOne
     \/ /\ pending # << >>
        /\ UnstuckGoto("restick", "full?")
        /\ UNCHANGED lock
  /\ UNCHANGED <<shared, sockets, readVars, pending, pc, cur, kind, ucur, waker, history>>

\* Nothing pending: unlock and wait.  Otherwise store stuck.
UnstuckRestick ==
  /\ \/ /\ pending = << >>
        /\ UnstuckGoto("restick", "wait")
        /\ lock' = NoOne /\ UNCHANGED stuck
     \/ /\ pending # << >>
        /\ UnstuckGoto("restick", "full?")
        /\ stuck' = 1 /\ UNCHANGED lock
  /\ UNCHANGED <<head, tail, working, buffer, sockets, readVars,
                 pending, pc, cur, kind, ucur, waker, history>>

\* Mutant: the loop starts over with the mutex locked.
UnstuckFull_KeepsLock ==
  /\ UnstuckGoto("full?", IF IsFull THEN "wait" ELSE "drain")
  /\ lock' = IF IsFull THEN NoOne ELSE lock
  /\ UNCHANGED <<shared, sockets, readVars, pending, pc, cur, kind, ucur, waker, history>>

\* Room appeared since the fill: start over.  Either way the guard of the
\* mutex goes out of scope.
UnstuckFull ==
  /\ UnstuckGoto("full?", IF IsFull THEN "wait" ELSE "drain")
  /\ lock' = NoOne
  /\ UNCHANGED <<shared, sockets, readVars, pending, pc, cur, kind, ucur, waker, history>>

AwaitUnstuck ==
  /\ unstuckFd > 0
  /\ UnstuckGoto("wait", "drain")
  /\ unstuckFd' = Drained(unstuckFd)
  /\ UNCHANGED <<shared, workFd, readVars, lock, pending, pc, cur, kind, ucur, waker, history>>

\* The steps the Rust task shares with its Go counterpart (see GoRing).
UnstuckBody ==
  \/ UnstuckFill \/ UnstuckWrite \/ UnstuckPublish \/ UnstuckWake \/ UnstuckCheck
  \/ UnstuckMark \/ UnstuckNotify \/ UnstuckRestick \/ AwaitUnstuck

UnstuckStep == UnstuckLock \/ UnstuckBody \/ UnstuckFull

-----------------------------------------------------------------------------

Next == ReaderStep \/ UnstuckStep \/ \E p \in Producers : ProducerStep(p)

(***************************************************************************)
(* The two tasks run on an executor that polls every woken task, and a     *)
(* thread inside push keeps running; nobody has to start a push or to call *)
(* notify_manually.  The mutex is parking_lot's, which is eventually fair: *)
(* a task that wants it again and again is served.                         *)
(***************************************************************************)
Fairness ==
  /\ WF_vars(ReaderStep)
  /\ WF_vars(UnstuckBody \/ UnstuckFull) /\ SF_vars(UnstuckLock)
  /\ \A p \in Producers : WF_vars(PushStep(p))

Spec     == Init /\ [][Next]_vars
FairSpec == Spec /\ Fairness

-----------------------------------------------------------------------------
(* Type invariant *)

ReaderPcs   == {"mark", "pop", "read", "advance", "stuck?", "unstick", "unnotify",
                "handle", "yield", "unwork", "recheck", "wait"}
ProducerPcs == {"idle", "write", "publish", "check", "mark", "notify", "stick", "poll", "parked"}
UnstuckPcs  == {"drain", "fill", "write", "publish", "wake", "check", "mark", "notify",
                "restick", "full?", "wait"}

\* Every variable stays in the set its Rust type and its use allow.  That ritem
\* is never Uninit says that pop calls assume_init_read only on written slots.
SharedTypeOK ==
  /\ head \in Nat /\ tail \in Nat /\ working \in {0, 1} /\ stuck \in {0, 1}
  /\ buffer \in [0 .. BufferLen - 1 -> Items \cup {Uninit}]
  /\ workFd \in 0 .. SockCap /\ unstuckFd \in 0 .. SockCap
ReaderTypeOK ==
  rpc \in ReaderPcs /\ ritem \in Items \cup {None} /\ yields \in 0 .. YieldCnt - 1
WriterTypeOK ==
  /\ lock \in Producers \cup {UTask, NoOne} /\ pending \in Seq(Task)
  /\ pc \in [Producers -> ProducerPcs]
  /\ cur \in [Producers -> Items \cup {None}]
  /\ kind \in [Producers -> Kinds]
  /\ upc \in UnstuckPcs /\ ucur \in Task \cup {NoTask}
  /\ waker \in [Items -> {"absent", "none", "some", "finished"}]
HistoryTypeOK ==
  /\ next \in 0 .. MaxPush /\ log \in Seq(Items) /\ handled \in Seq(Items)
  /\ unnotified \in BOOLEAN
TypeOK == SharedTypeOK /\ ReaderTypeOK /\ WriterTypeOK /\ HistoryTypeOK

-----------------------------------------------------------------------------
(* Safety *)

SetOf(s) == {s[k] : k \in DOMAIN s}

\* The mutex protects what it should: an actor between lock and unlock owns
\* it, so at most one actor moves tail or touches pending_tasks.
InPush(p)  == pc[p] \in {"write", "publish", "check", "mark", "stick"}
InUnstuck  == upc \notin {"drain", "wait"}
MutexOwned ==
  /\ \A p \in Producers : InPush(p) <=> lock = p
  /\ InUnstuck <=> lock = UTask

\* The slots from head to tail hold what was published there, in order, and
\* never more than the ring has: no writer reuses a slot that is not popped.
RingHoldsLog ==
  /\ tail = Len(log)
  /\ head <= tail /\ tail <= head + BufferLen
  /\ \A i \in head .. tail - 1 : buffer[Slot(i)] = log[i + 1]

\* A writer stores into a slot and the reader copies one out, the reader with
\* no lock at all; they are never at the same slot at the same time.
WriterInSlot == upc = "write" \/ \E p \in Producers : pc[p] = "write"
ReaderInSlot == rpc \in {"read", "advance"}
NoSlotRace   == WriterInSlot /\ ReaderInSlot => Slot(tail) # Slot(head)

\* The handler sees exactly the published items, in the order of publication:
\* nothing torn, nothing twice, nothing left out.
HandledInOrder ==
  /\ Len(handled) = IF ritem # None /\ rpc # "advance" THEN head - 1 ELSE head
  /\ \A k \in DOMAIN handled : handled[k] = log[k]

\* An item handed to push is in exactly one place: in the hands of its
\* pusher, in pending_tasks, in the hands of unstuck_handler, or published.
HoldingProducers(i) == {p \in Producers : pc[p] \in {"write", "publish", "stick"} /\ cur[p] = i}
HeldByUnstuck(i)    == upc \in {"write", "publish"} /\ ucur.item = i
Holders(i) ==
  {<<"log", k>> : k \in {j \in DOMAIN log : log[j] = i}}
  \cup {<<"pending", k>> : k \in {j \in DOMAIN pending : pending[j].item = i}}
  \cup {<<"producer", p>> : p \in HoldingProducers(i)}
  \cup (IF HeldByUnstuck(i) THEN {<<"unstuck", UTask>>} ELSE {})
OneHolder == \A i \in Items : Cardinality(Holders(i)) = (IF i <= next THEN 1 ELSE 0)

\* No lost wake-up: if the reader is blocked on its socket with no byte in
\* flight while the ring has an item, then a writer is still on its way to the
\* check of working that follows its publication, or the last publication was
\* a push_without_notify, whose caller owes the notify_manually.
WakeupOwed ==
  \/ unnotified
  \/ \E p \in Producers : pc[p] \in {"check", "mark", "notify"}
  \/ upc \in {"fill", "write", "publish", "wake", "check", "mark", "notify"}
NoLostWakeup == rpc = "wait" /\ workFd = 0 /\ ~IsEmpty => WakeupOwed

\* While tasks are pending and unstuck_handler sleeps with no byte in flight,
\* the stuck flag is up or the reader is about to send the byte for it: the
\* reader's clearing of the flag and the handler's re-raising never cross in a
\* way that leaves the tasks unannounced.
PendingFlagged ==
  pending # << >> /\ upc = "wait" /\ unstuckFd = 0 => stuck = 1 \/ rpc = "unnotify"

\* A PushJoinHandle keeps its promise both ways: one that is ready has its item
\* in the ring, and a caller that sleeps on one will be woken, because the item
\* is pending or unstuck_handler is between its push and its wake.
ToBeWoken(i) ==
  \/ \E k \in DOMAIN pending : pending[k] = [item |-> i, waiter |-> TRUE]
  \/ upc \in {"write", "publish", "wake"} /\ ucur = [item |-> i, waiter |-> TRUE]
AwaiterSound ==
  /\ \A i \in Items : waker[i] = "finished" => i \in SetOf(log)
  /\ \A p \in Producers : pc[p] = "parked" => waker[cur[p]] = "some" /\ ToBeWoken(cur[p])

-----------------------------------------------------------------------------
(* Refinement *)

\* The ring, its overflow list and its two tasks together are the channel that
\* mem-ffi builds calls on: at most once, nothing invented.
C == INSTANCE Channel WITH Items <- Items, sent <- 1 .. next, delivered <- handled
ChannelSpec == C!ChanSpec

-----------------------------------------------------------------------------
(* Liveness, under FairSpec *)

\* What is published with a notification is handled, however the reader's
\* going to sleep and the writer's check interleave.
PublishedHandled == \A n \in Items : tail >= n ~> Len(handled) >= n

\* Overflowed tasks reach the ring when the reader still has something to pop
\* at the time: a pop sees the stuck flag and wakes unstuck_handler.
PendingMoves == pending # << >> /\ ~IsEmpty ~> pending = << >>

\* unstuck_handler gives the mutex back in every turn of its loop, also in the
\* turn that finds room at the last moment and starts over.
LockReleased == lock = UTask ~> lock # UTask

\* "Note if the task is put into pending tasks, it will be sent to queue when
\* the queue is not full" (queue.rs, on push).  The code does not guarantee
\* it: between the load that finds the ring full and the store to stuck the
\* reader may drain the ring, see no stuck flag and go to sleep.
PendingSent == pending # << >> ~> pending = << >>
=============================================================================
