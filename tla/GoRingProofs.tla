---------------------------- MODULE GoRingProofs ----------------------------
(***************************************************************************)
(* Theorems about the two rings between Rust and Go.  The Go reader and    *)
(* the Go writer keep RingInv, the invariant of MemRingProofs, although    *)
(* the writer's goroutine may start over with the mutex locked: RingInv    *)
(* asks that whoever is inside a critical section owns the mutex, not that *)
(* the owner is inside one.                                                *)
(*                                                                         *)
(* A step of either ring is a step of MemRing or one of the actions in     *)
(* which Go differs (MixedNext), and the latter move no item, so that what *)
(* MemRing's items do, Channel included, holds of the mixed rings as well. *)
(***************************************************************************)
EXTENDS GoRing, MemRingItemProofs

USE MemRingAssumption

\* Queue.pop of the Go reader: the load that finds the ring empty or not.
LEMMA GoPopLoadRing ==
  ASSUME RingInv, GoPopLoad
  PROVE  RingInv'
<1> USE DEF RingInv, TypeOK, GoPopLoad, ReaderGoto, shared, sockets, writeVars, history
<1>1. ReaderTypeOK' /\ SharedTypeOK'
  BY DEF ReaderTypeOK, ReaderPcs, SharedTypeOK
<1>2. ReaderView'
  BY DEF ReaderView, IsEmpty, RingHoldsLog, SharedTypeOK
<1>3. QED
  BY <1>1, <1>2, ReaderQuiet

\* Queue.pop of the Go reader: the store to head.
LEMMA GoPopAdvanceRing ==
  ASSUME RingInv, GoPopAdvance
  PROVE  RingInv'
<1> USE DEF RingInv, TypeOK, GoPopAdvance, ReaderGoto, sockets, writeVars, history
<1>1. TypeOK'
  BY DEF ReaderTypeOK, ReaderPcs, SharedTypeOK, WriterTypeOK, HistoryTypeOK
<1>2. Exclusive' /\ Holding' /\ Written'
  BY DEF Exclusive, InPush, InUnstuck, Holding, Pushing, Filling, Written
<1>3. Room'
  BY DEF Room, Filling, SharedTypeOK
<1>4. RingHoldsLog'
  BY DEF RingHoldsLog, ReaderView, SharedTypeOK
<1>5. ritem \in Items
  BY DEF ReaderView, RingHoldsLog, SharedTypeOK, HistoryTypeOK
<1>6. ReaderView'
  BY <1>5 DEF ReaderView, SharedTypeOK
<1>7. HandledInOrder'
  BY <1>5 DEF HandledInOrder, SharedTypeOK, Items, None
<1>8. QED
  BY <1>1, <1>2, <1>3, <1>4, <1>6, <1>7

\* Every step of RunHandler keeps the invariant.
LEMMA GoReaderRing ==
  ASSUME RingInv, GoReaderStep
  PROVE  RingInv'
<1> USE DEF RingInv, TypeOK, ReaderGoto, shared, sockets, writeVars, history
<1>1. CASE GoPollCheck
  BY <1>1, ReaderQuiet DEF GoPollCheck, SharedTypeOK, ReaderTypeOK, ReaderPcs, ReaderView
<1>2. CASE GoRecheckEmpty
  BY <1>2, ReaderQuiet DEF GoRecheckEmpty, SharedTypeOK, ReaderTypeOK, ReaderPcs, ReaderView
<1>3. CASE MarkWorking \/ MarkUnworking \/ AwaitWork
  BY <1>3, ReaderFlags
<1>4. CASE PopRead \/ HandleItem
  BY <1>4, PopReadRing, HandleItemRing
<1>5. QED
  BY <1>1, <1>2, <1>3, <1>4, GoPopLoadRing, GoPopAdvanceRing DEF GoReaderStep

\* The goroutine that starts over with the mutex locked keeps the invariant.
LEMMA GoUnstuckFullRing ==
  ASSUME RingInv, GoUnstuckFull
  PROVE  RingInv'
<1> USE DEF RingInv, TypeOK, GoUnstuckFull, UnstuckGoto, shared, sockets, readVars, history
<1>1. SharedTypeOK' /\ WriterTypeOK' /\ HistoryTypeOK'
  BY DEF SharedTypeOK, WriterTypeOK, HistoryTypeOK, UnstuckPcs
<1>2. Exclusive' /\ Holding' /\ Room' /\ Written'
  BY DEF Exclusive, InPush, InUnstuck, Holding, Pushing, Room, Filling, Written, WriterTypeOK
<1>3. QED
  BY <1>1, <1>2, WriterQuiet

\* Every step of the goroutine keeps the invariant.
LEMMA GoUnstuckRing ==
  ASSUME RingInv, GoUnstuckStep
  PROVE  RingInv'
  BY GoUnstuckFullRing, UnstuckRing DEF GoUnstuckStep, UnstuckStep

\* Push of the Go writer is the plain push of the Rust one.
LEMMA GoPushRing ==
  ASSUME RingInv, NEW p \in Producers, GoPush(p)
  PROVE  RingInv'
  BY PushLoadRing, PushWriteRing, PushPublishRing, PushRestRing DEF GoPush, Kinds

-----------------------------------------------------------------------------
(* Theorems *)

\* The invariant of the ring holds where Rust writes and Go reads ...
THEOREM RustToGoInvariant == RustToGo => []RingInv
<1>1. RingInv /\ [RustToGoNext]_vars => RingInv'
  BY GoReaderRing, UnstuckRing, ProducerRing, StutterRing DEF RustToGoNext
<1>2. QED
  BY InitRing, <1>1, PTL DEF RustToGo

\* ... and where Go writes and Rust reads.
THEOREM GoToRustInvariant == GoToRust => []RingInv
<1>1. RingInv /\ [GoToRustNext]_vars => RingInv'
  BY ReaderRing, GoUnstuckRing, GoPushRing, StutterRing DEF GoToRustNext
<1>2. QED
  BY InitRing, <1>1, PTL DEF GoToRust

\* RunHandler hands every published call to the handler once, in order, and no
\* Rust writer stores into the slot it copies out (queue.go 76-91).
THEOREM RustToGoReads == RustToGo => [](HandledInOrder /\ NoSlotRace)
<1>1. RingInv => HandledInOrder /\ NoSlotRace
  BY RingSeparates DEF RingInv
<1>2. QED
  BY <1>1, RustToGoInvariant, PTL

\* The same for the replies, which Go writes (queue.go 60-74).
THEOREM GoToRustReads == GoToRust => [](HandledInOrder /\ NoSlotRace)
<1>1. RingInv => HandledInOrder /\ NoSlotRace
  BY RingSeparates DEF RingInv
<1>2. QED
  BY <1>1, GoToRustInvariant, PTL

-----------------------------------------------------------------------------
(* Wake-ups *)

\* RunHandler keeps WakeInv, although it polls with working = 0 for a while:
\* each time it is about to sleep it stores 0 and looks at the ring again.
LEMMA GoReaderWakes ==
  ASSUME TypeOK, WakeInv, GoReaderStep
  PROVE  WakeInv'
<1>1. CASE GoPopLoad \/ GoPopAdvance \/ GoPollCheck \/ GoRecheckEmpty
  BY <1>1 DEF GoPopLoad, GoPopAdvance, GoPollCheck, GoRecheckEmpty, WakeInv, Notifying, AboutToAsk,
     IsEmpty, TypeOK, SharedTypeOK, ReaderGoto, writeVars, history, shared, sockets
<1>2. QED
  BY <1>1, ReaderWakes DEF GoReaderStep, ReaderStep

\* The goroutine keeps WakeInv.
LEMMA GoUnstuckWakes ==
  ASSUME TypeOK, WakeInv, GoUnstuckStep
  PROVE  WakeInv'
<1>1. CASE GoUnstuckFull
  BY <1>1 DEF GoUnstuckFull, WakeInv, Notifying, AboutToAsk, IsEmpty, UnstuckGoto,
     shared, sockets, readVars, history
<1>2. QED
  BY <1>1, UnstuckWakes DEF GoUnstuckStep, UnstuckStep

\* No wake-up is lost between a Rust writer and the Go reader ...
THEOREM RustToGoWakes == RustToGo => []NoLostWakeup
<1>1. TypeOK /\ WakeInv /\ [RustToGoNext]_vars => WakeInv'
  BY GoReaderWakes, UnstuckWakes, ProducerWakes, StutterWakes DEF RustToGoNext
<1>2. RingInv => TypeOK
  BY DEF RingInv
<1>3. QED
  BY InitWakes, <1>1, <1>2, WakeEnough, RustToGoInvariant, PTL DEF RustToGo

\* ... nor between a Go writer and the Rust reader.
THEOREM GoToRustWakes == GoToRust => []NoLostWakeup
<1>1. TypeOK /\ WakeInv /\ [GoToRustNext]_vars => WakeInv'
  BY ReaderWakes, GoUnstuckWakes, PushWakes, StutterWakes DEF GoToRustNext, GoPush, Kinds
<1>2. RingInv => TypeOK
  BY DEF RingInv
<1>3. QED
  BY InitWakes, <1>1, <1>2, WakeEnough, GoToRustInvariant, PTL DEF GoToRust

-----------------------------------------------------------------------------
(* Items *)

GoReads   == GoPopLoad \/ GoPopAdvance \/ GoPollCheck \/ GoRecheckEmpty
MixedNext == Next \/ GoReads \/ GoUnstuckFull \/ \E p \in Producers : PushLoad(p, "push")

\* What the two rings add to the steps of MemRing: the Go reader its own reads ...
LEMMA RustToGoIsMixed ==
  ASSUME [RustToGoNext]_vars
  PROVE  [Next \/ GoReads]_vars /\ [MixedNext]_vars
  BY DEF RustToGoNext, GoReaderStep, Next, ReaderStep, GoReads, MixedNext

\* ... and the Go writer the goroutine that starts over.
LEMMA GoToRustIsMixed ==
  ASSUME [GoToRustNext]_vars
  PROVE  [MixedNext]_vars
  BY DEF GoToRustNext, GoUnstuckStep, UnstuckStep, GoPush, ProducerStep, PushStep, Next, MixedNext

\* The steps of its own that RunHandler takes touch nothing of the writers' ...
LEMMA GoReadsQuiet ==
  ASSUME GoReads
  PROVE  UNCHANGED <<writeVars, history, tail, buffer, stuck, unstuckFd, workFd>>
  BY DEF GoReads, GoPopLoad, GoPopAdvance, GoPollCheck, GoRecheckEmpty, shared, sockets

\* ... and the goroutine that starts over moves its own position and the mutex.
LEMMA GoUnstuckFullQuiet ==
  ASSUME GoUnstuckFull
  PROVE  /\ UNCHANGED <<shared, sockets, readVars, pending, pc, cur, kind, ucur, waker, history>>
         /\ upc = "full?" /\ upc' \in {"wait", "drain"}
  BY DEF GoUnstuckFull, UnstuckGoto

\* No step puts an item into two places ...
LEMMA MixedPlaces ==
  ASSUME RingInv, OnePlace, [MixedNext]_vars
  PROVE  OnePlace'
<1>1. CASE [Next]_vars
  BY <1>1, StepPlaces
<1>2. CASE GoReads
  BY <1>2, GoReadsQuiet, PlacesQuiet DEF writeVars, history, Pushing, Filling
<1>3. CASE GoUnstuckFull
  BY <1>3, GoUnstuckFullQuiet, PlacesQuiet DEF history, Pushing, Filling
<1>4. CASE \E p \in Producers : PushLoad(p, "push")
  BY <1>4, PushLoadPlaces DEF Kinds
<1>5. QED
  BY <1>1, <1>2, <1>3, <1>4 DEF MixedNext

\* ... or drops one.
LEMMA MixedSomewhere ==
  ASSUME RingInv, Somewhere, [MixedNext]_vars
  PROVE  Somewhere'
<1>1. CASE [Next]_vars
  BY <1>1, StepSomewhere
<1>2. CASE GoReads
  BY <1>2, GoReadsQuiet, SomewhereQuiet DEF writeVars, history, Pushing, Filling
<1>3. CASE GoUnstuckFull
  BY <1>3, GoUnstuckFullQuiet, SomewhereQuiet DEF history, Pushing, Filling
<1>4. CASE \E p \in Producers : PushLoad(p, "push")
  BY <1>4, PushLoadSomewhere DEF Kinds
<1>5. QED
  BY <1>1, <1>2, <1>3, <1>4 DEF MixedNext

\* Handles and their slots: only a Rust writer has them, and the Go reader does
\* not know of them.
LEMMA MixedAwait ==
  ASSUME RingInv, OnePlace, AwaitInv, [MixedNext]_vars
  PROVE  AwaitInv'
<1>1. CASE [Next]_vars
  BY <1>1, StepAwait
<1>2. CASE GoReads
  BY <1>2, GoReadsQuiet, AwaitQuiet DEF writeVars, history, Pushing, Waiting
<1>3. CASE GoUnstuckFull
  BY <1>3, GoUnstuckFullQuiet, AwaitQuiet DEF history, Pushing, Waiting
<1>4. CASE \E p \in Producers : PushLoad(p, "push")
  BY <1>4, PushLoadAwait DEF Kinds
<1>5. QED
  BY <1>1, <1>2, <1>3, <1>4 DEF MixedNext

\* A push is Send, a call of the handler Deliver, and the rest is invisible.
LEMMA MixedIsChannelStep ==
  ASSUME RingInv, OnePlace, [MixedNext]_vars
  PROVE  [C!ChanNext]_C!chanVars
<1>1. CASE [Next]_vars
  BY <1>1, StepIsChannelStep
<1>2. CASE GoReads \/ GoUnstuckFull
  BY <1>2, GoReadsQuiet, GoUnstuckFullQuiet DEF history, C!chanVars
<1>3. CASE \E p \in Producers : PushLoad(p, "push")
  BY <1>3, PushIsSend DEF Kinds, C!ChanNext
<1>4. QED
  BY <1>1, <1>2, <1>3 DEF MixedNext

\* An empty queue holds no item.
LEMMA InitItems == Init => OnePlace /\ Somewhere /\ AwaitInv /\ C!ChanInit
  BY DEF Init, OnePlace, Somewhere, AwaitInv, SlotsFollow, HandlesWait, HandleWaits, Waiting,
     Pushing, Filling, C!ChanInit

ItemsInv == OnePlace /\ Somewhere /\ AwaitInv

\* Where the items are, and what their awaiters were told, survives every step.
LEMMA MixedItems ==
  ASSUME RingInv, ItemsInv, [MixedNext]_vars
  PROVE  ItemsInv'
  BY MixedPlaces, MixedSomewhere, MixedAwait DEF ItemsInv

\* Every call that was pushed is in one place, and every reply.
THEOREM RustToGoItems == RustToGo => []ItemsInv
<1>1. RingInv /\ ItemsInv /\ [RustToGoNext]_vars => ItemsInv'
  BY RustToGoIsMixed, MixedItems
<1>2. Init => ItemsInv
  BY InitItems DEF ItemsInv
<1>3. QED
  BY <1>1, <1>2, RustToGoInvariant, PTL DEF RustToGo

\* The same of the replies.
THEOREM GoToRustItems == GoToRust => []ItemsInv
<1>1. RingInv /\ ItemsInv /\ [GoToRustNext]_vars => ItemsInv'
  BY GoToRustIsMixed, MixedItems
<1>2. Init => ItemsInv
  BY InitItems DEF ItemsInv
<1>3. QED
  BY <1>1, <1>2, GoToRustInvariant, PTL DEF GoToRust

\* No call is lost or doubled on its way into the ring to Go, also where the
\* caller awaits its push ...
THEOREM RustToGoKeepsItems == RustToGo => [](OneHolder /\ AwaiterSound)
<1>1. RingInv /\ ItemsInv => OneHolder /\ AwaiterSound
  BY HoldersCounted, AwaitEnough DEF ItemsInv
<1>2. QED
  BY <1>1, RustToGoInvariant, RustToGoItems, PTL

\* ... and no reply on its way into the ring to Rust, although the goroutine that
\* moves the overflowed ones may block for good.
THEOREM GoToRustKeepsItems == GoToRust => []OneHolder
<1>1. RingInv /\ ItemsInv => OneHolder
  BY HoldersCounted DEF ItemsInv
<1>2. QED
  BY <1>1, GoToRustInvariant, GoToRustItems, PTL

\* The ring for calls implements the channel that MemFfi is built on ...
THEOREM RustToGoImplementsChannel == RustToGo => ChannelSpec
<1>1. RingInv /\ ItemsInv /\ [RustToGoNext]_vars => [C!ChanNext]_C!chanVars
  BY RustToGoIsMixed, MixedIsChannelStep DEF ItemsInv
<1>2. Init => C!ChanInit
  BY InitItems
<1>3. QED
  BY <1>1, <1>2, RustToGoInvariant, RustToGoItems, PTL DEF RustToGo, ChannelSpec, C!ChanSpec

\* ... and so does the ring for replies.
THEOREM GoToRustImplementsChannel == GoToRust => ChannelSpec
<1>1. RingInv /\ ItemsInv /\ [GoToRustNext]_vars => [C!ChanNext]_C!chanVars
  BY GoToRustIsMixed, MixedIsChannelStep DEF ItemsInv
<1>2. Init => C!ChanInit
  BY InitItems
<1>3. QED
  BY <1>1, <1>2, GoToRustInvariant, GoToRustItems, PTL DEF GoToRust, ChannelSpec, C!ChanSpec

-----------------------------------------------------------------------------
(* The stuck flag *)

\* The Go writer raises the flag as the Rust one does; the Go reader never
\* takes it down.
LEMMA MixedFlag ==
  ASSUME TypeOK, FlagInv, [MixedNext]_vars
  PROVE  FlagInv'
<1>1. CASE [Next]_vars
  BY <1>1, StepFlag
<1>2. CASE GoReads
  <2>1. rpc # "unnotify"
    BY <1>2 DEF GoReads, GoPopLoad, GoPopAdvance, GoPollCheck, GoRecheckEmpty, ReaderGoto
  <2>2. QED
    BY <1>2, <2>1, GoReadsQuiet DEF FlagInv, writeVars
<1>3. CASE GoUnstuckFull
  BY <1>3, GoUnstuckFullQuiet DEF FlagInv, shared, sockets, readVars
<1>4. CASE \E p \in Producers : PushLoad(p, "push")
  BY <1>4 DEF PushLoad, FlagInv, shared, sockets, readVars
<1>5. QED
  BY <1>1, <1>2, <1>3, <1>4 DEF MixedNext

\* Replies that wait for the goroutine are never left without the flag, the
\* Rust reader's pending byte, or the byte ...
THEOREM GoToRustFlag == GoToRust => []PendingFlagged
<1>1. RingInv /\ FlagInv /\ [GoToRustNext]_vars => FlagInv'
  BY GoToRustIsMixed, MixedFlag DEF RingInv
<1>2. QED
  BY <1>1, InitFlag, FlagEnough, GoToRustInvariant, PTL DEF GoToRust

\* ... and calls that wait for unstuck_handler always have the flag up: it is the
\* Go reader that does not look at it.
THEOREM RustToGoFlag == RustToGo => []PendingFlagged
<1>1. RingInv /\ FlagInv /\ [RustToGoNext]_vars => FlagInv'
  BY RustToGoIsMixed, MixedFlag DEF RingInv
<1>2. QED
  BY <1>1, InitFlag, FlagEnough, RustToGoInvariant, PTL DEF RustToGo

-----------------------------------------------------------------------------
(* Where the mixed rings differ *)

\* Nobody writes to the second socket of the ring for calls: the Go reader, whose
\* part that would be, does not look at the flag.
NoUnstuckByte == unstuckFd = 0

\* No step of either side writes it.
LEMMA RustToGoNoByte ==
  ASSUME NoUnstuckByte, [RustToGoNext]_vars
  PROVE  NoUnstuckByte'
<1> USE DEF NoUnstuckByte, sockets
<1>1. CASE GoReaderStep
  BY <1>1, GoReadsQuiet DEF GoReaderStep, GoReads, MarkWorking, PopRead, HandleItem, MarkUnworking, AwaitWork
<1>2. CASE UnstuckStep
  BY <1>2 DEF UnstuckStep, UnstuckBody, UnstuckLock, UnstuckFill, UnstuckWrite, UnstuckPublish,
     UnstuckWake, UnstuckCheck, UnstuckMark, UnstuckNotify, UnstuckRestick, UnstuckFull, AwaitUnstuck
<1>3. ASSUME NEW p \in Producers, ProducerStep(p) PROVE NoUnstuckByte'
  BY <1>3 DEF ProducerStep, PushStart, PushStep, PushLoad, PushWrite, PushPublish, PushCheck,
     PushMark, PushNotify, PushPending, PollHandle, DropHandle, NotifyManually
<1>4. CASE UNCHANGED vars
  BY <1>4 DEF vars
<1>5. QED
  BY <1>1, <1>2, <1>3, <1>4 DEF RustToGoNext

\* Once unstuck_handler waits, it waits for good, and what is pending then or
\* later stays pending: the overflow list of the ring for calls is never
\* emptied again (queue.go 76-91 has no look at stuck).
Stranded == upc = "wait" => upc' = "wait" /\ Len(pending') >= Len(pending)

\* So unstuck_handler takes no step, and the others only append.
LEMMA StepStranded ==
  ASSUME TypeOK, NoUnstuckByte, [RustToGoNext]_vars
  PROVE  [Stranded]_vars
<1> SUFFICES ASSUME RustToGoNext, upc = "wait" PROVE upc' = "wait" /\ Len(pending') >= Len(pending)
  BY DEF Stranded
<1> USE DEF TypeOK, WriterTypeOK
<1>1. Len(pending) \in Nat
  OBVIOUS
<1>2. CASE GoReaderStep
  <2>1. UNCHANGED <<upc, pending>>
    BY <1>2, GoReadsQuiet DEF GoReaderStep, GoReads, MarkWorking, PopRead, HandleItem, MarkUnworking,
       AwaitWork, writeVars
  <2>2. QED
    BY <1>1, <2>1
<1>3. ~UnstuckStep
  BY DEF UnstuckStep, UnstuckBody, UnstuckLock, UnstuckFill, UnstuckWrite, UnstuckPublish,
     UnstuckWake, UnstuckCheck, UnstuckMark, UnstuckNotify, UnstuckRestick, UnstuckFull,
     AwaitUnstuck, UnstuckGoto, NoUnstuckByte
<1>4. ASSUME NEW p \in Producers, ProducerStep(p) PROVE upc' = "wait" /\ Len(pending') >= Len(pending)
  <2>1. CASE PushPending(p)
    <3>1. upc' = upc /\ \E e : pending' = Append(pending, e)
      BY <2>1 DEF PushPending
    <3>2. QED
      BY <1>1, <3>1
  <2>2. CASE ~PushPending(p)
    <3>1. UNCHANGED <<upc, pending>>
      BY <1>4, <2>2 DEF ProducerStep, PushStart, PushStep, PushLoad, PushWrite, PushPublish, PushCheck,
         PushMark, PushNotify, PollHandle, DropHandle, NotifyManually
    <3>2. QED
      BY <1>1, <3>1
  <2>3. QED
    BY <2>1, <2>2
<1>5. QED
  BY <1>2, <1>3, <1>4 DEF RustToGoNext

\* Pending calls are stranded from the first sleep of unstuck_handler on.
THEOREM OverflowStaysPending == RustToGo => [][Stranded]_vars
<1>1. Init => NoUnstuckByte
  BY DEF Init, NoUnstuckByte
<1>2. RingInv => TypeOK
  BY DEF RingInv
<1>3. QED
  BY <1>1, <1>2, RustToGoNoByte, StepStranded, RustToGoInvariant, PTL DEF RustToGo

\* Rust writers give the mutex back on every path, whoever reads.
THEOREM RustToGoMutex == RustToGo => []MutexOwned
<1>1. TypeOK /\ MutexOwned /\ [RustToGoNext]_vars => MutexOwned'
  <2>1. GoReads /\ MutexOwned => MutexOwned'
    BY GoReadsQuiet DEF MutexOwned, InPush, InUnstuck, writeVars
  <2>2. QED
    BY <2>1, RustToGoIsMixed, StepMutex
<1>2. RingInv => TypeOK
  BY DEF RingInv
<1>3. QED
  BY InitMutex, <1>1, <1>2, RustToGoInvariant, PTL DEF RustToGo

\* A Go writer does so everywhere but in one place: the goroutine that starts
\* over owns the mutex it is about to lock (queue.go 162).
GoMutexOwned ==
  /\ \A p \in Producers : InPush(p) <=> lock = p
  /\ InUnstuck => lock = UTask
  /\ lock = UTask => InUnstuck \/ upc = "drain"

\* Each step keeps it, the one that starts over included.
LEMMA GoStepMutex ==
  ASSUME TypeOK, GoMutexOwned, [GoToRustNext]_vars
  PROVE  GoMutexOwned'
<1> USE DEF GoMutexOwned, InPush, InUnstuck, TypeOK, WriterTypeOK
<1>1. CASE ReaderStep
  BY <1>1 DEF ReaderStep, MarkWorking, PopLoad, PopRead, PopAdvance, StuckCheck, MarkUnstuck,
     NotifyUnstuck, HandleItem, RingDrained, YieldCheck, MarkUnworking, RecheckEmpty, AwaitWork,
     writeVars
<1>2. CASE GoUnstuckStep
  BY <1>2 DEF GoUnstuckStep, UnstuckBody, UnstuckLock, UnstuckFill, UnstuckWrite, UnstuckPublish,
     UnstuckWake, UnstuckCheck, UnstuckMark, UnstuckNotify, UnstuckRestick, GoUnstuckFull,
     AwaitUnstuck, UnstuckGoto
<1>3. ASSUME NEW p \in Producers, GoPush(p) PROVE GoMutexOwned'
  <2> USE DEF ProducerGoto
  <2>1. CASE PushLoad(p, "push")
    BY <2>1 DEF PushLoad
  <2>2. CASE PushWrite(p) \/ PushPublish(p)
    BY <2>2 DEF PushWrite, PushPublish
  <2>3. CASE PushCheck(p) \/ PushMark(p)
    BY <2>3 DEF PushCheck, PushMark
  <2>4. CASE PushNotify(p)
    BY <2>4 DEF PushNotify
  <2>5. CASE PushPending(p)
    BY <2>5 DEF PushPending
  <2>6. QED
    BY <1>3, <2>1, <2>2, <2>3, <2>4, <2>5 DEF GoPush
<1>4. CASE UNCHANGED vars
  BY <1>4 DEF vars, writeVars
<1>5. QED
  BY <1>1, <1>2, <1>3, <1>4 DEF GoToRustNext

\* So a Go writer that blocks for good blocks in that one place: no push of a
\* reply keeps the mutex.
THEOREM GoToRustMutex == GoToRust => []GoMutexOwned
<1>1. Init => GoMutexOwned
  BY InitMutex DEF MutexOwned, GoMutexOwned
<1>2. RingInv => TypeOK
  BY DEF RingInv
<1>3. QED
  BY <1>1, <1>2, GoStepMutex, GoToRustInvariant, PTL DEF GoToRust

-----------------------------------------------------------------------------
(* The order of items *)

\* The steps that Go adds publish nothing and keep what is queued.
LEMMA MixedOrder ==
  ASSUME RingInv, OnePlace, QueueOrder, [MixedNext]_vars
  PROVE  QueueOrder' /\ PublishesInOrder
<1>1. CASE [Next]_vars
  BY <1>1, StepOrder, StepPublishes
<1>2. CASE GoReads
  BY <1>2, GoReadsQuiet, OrderQuiet DEF writeVars, history, Pushing, Filling, PublishesInOrder
<1>3. CASE GoUnstuckFull
  BY <1>3, GoUnstuckFullQuiet, OrderQuiet DEF history, Pushing, Filling, PublishesInOrder
<1>4. CASE \E p \in Producers : PushLoad(p, "push")
  <2>1. QueueOrder'
    BY <1>4, PushLoadOrder DEF Kinds
  <2>2. log' = log
    BY <1>4 DEF PushLoad
  <2>3. QED
    BY <2>1, <2>2 DEF PublishesInOrder
<1>5. QED
  BY <1>1, <1>2, <1>3, <1>4 DEF MixedNext

\* An empty queue is in order.
LEMMA InitOrder == Init => QueueOrder
  BY DEF Init, QueueOrder, Pushing, Filling

\* Calls overtake one another only where the ring to Go was full ...
THEOREM CallsInOrder == RustToGo => [][PublishesInOrder]_vars
<1>1. ItemsInv => OnePlace
  BY DEF ItemsInv
<1>2. RingInv /\ OnePlace /\ QueueOrder /\ [RustToGoNext]_vars => QueueOrder' /\ PublishesInOrder
  BY RustToGoIsMixed, MixedOrder
<1>3. QED
  BY <1>1, <1>2, InitOrder, RustToGoInvariant, RustToGoItems, PTL DEF RustToGo

\* ... and replies only where the ring to Rust was.
THEOREM RepliesInOrder == GoToRust => [][PublishesInOrder]_vars
<1>1. ItemsInv => OnePlace
  BY DEF ItemsInv
<1>2. RingInv /\ OnePlace /\ QueueOrder /\ [GoToRustNext]_vars => QueueOrder' /\ PublishesInOrder
  BY GoToRustIsMixed, MixedOrder
<1>3. QED
  BY <1>1, <1>2, InitOrder, GoToRustInvariant, GoToRustItems, PTL DEF GoToRust

-----------------------------------------------------------------------------
(* At rest *)

\* The ring for calls comes to rest as the Rust one does (MemRingItemProofs):
\* no mutex held, every call handled by Go or still pending, and no caller
\* asleep over a task that is in nobody's hands.
THEOREM RustToGoAtRest == RustToGo => []RestSound
<1>1. ItemsInv => OnePlace /\ Somewhere
  BY DEF ItemsInv
<1>2. QED
  BY <1>1, RestEnough, RustToGoInvariant, RustToGoItems, RustToGoKeepsItems, RustToGoMutex,
     RustToGoWakes, RustToGoFlag, PTL

\* The goroutine wants the mutex that it already owns.
SelfLocked == upc = "drain" /\ lock = UTask

\* Room is looked for a second time only with tasks left over, and the tasks
\* stay where they are while the goroutine owns the mutex.
LeftOver == upc = "full?" \/ SelfLocked => pending # << >>

\* A step that keeps position, owner and tasks keeps LeftOver.
LEMMA LeftOverQuiet ==
  ASSUME LeftOver, UNCHANGED <<upc, lock, pending>>
  PROVE  LeftOver'
  BY DEF LeftOver, SelfLocked

\* A Go push never takes the mutex from the goroutine and only adds tasks.
LEMMA GoPushLeftOver ==
  ASSUME TypeOK, GoMutexOwned, LeftOver, NEW p \in Producers, GoPush(p)
  PROVE  LeftOver'
<1> USE DEF LeftOver, SelfLocked, ProducerGoto, GoMutexOwned, InPush, InUnstuck
<1>1. CASE PushLoad(p, "push")
  BY <1>1 DEF PushLoad
<1>2. CASE PushWrite(p) \/ PushPublish(p)
  BY <1>2 DEF PushWrite, PushPublish
<1>3. CASE PushCheck(p) \/ PushMark(p)
  BY <1>3 DEF PushCheck, PushMark
<1>4. CASE PushNotify(p)
  BY <1>4 DEF PushNotify
<1>5. CASE PushPending(p)
  <2>1. lock = p
    BY <1>5 DEF PushPending
  <2>2. upc # "full?" /\ lock' = NoOne
    BY <1>5, <2>1 DEF PushPending
  <2>3. upc' = upc
    BY <1>5 DEF PushPending
  <2>4. QED
    BY <2>2, <2>3
<1>6. QED
  BY <1>1, <1>2, <1>3, <1>4, <1>5 DEF GoPush

\* Each step keeps LeftOver.
LEMMA StepLeftOver ==
  ASSUME TypeOK, GoMutexOwned, LeftOver, [GoToRustNext]_vars
  PROVE  LeftOver'
<1>1. CASE ReaderStep
  BY <1>1, LeftOverQuiet DEF ReaderStep, MarkWorking, PopLoad, PopRead, PopAdvance, StuckCheck,
     MarkUnstuck, NotifyUnstuck, HandleItem, RingDrained, YieldCheck, MarkUnworking,
     RecheckEmpty, AwaitWork, writeVars
<1>2. CASE GoUnstuckStep
  BY <1>2 DEF LeftOver, SelfLocked, GoMutexOwned, InUnstuck, GoUnstuckStep, UnstuckBody,
     UnstuckLock, UnstuckFill, UnstuckWrite, UnstuckPublish, UnstuckWake, UnstuckCheck,
     UnstuckMark, UnstuckNotify, UnstuckRestick, GoUnstuckFull, AwaitUnstuck, UnstuckGoto
<1>3. CASE \E p \in Producers : GoPush(p)
  BY <1>3, GoPushLeftOver
<1>4. CASE UNCHANGED vars
  BY <1>4, LeftOverQuiet DEF vars, writeVars
<1>5. QED
  BY <1>1, <1>2, <1>3, <1>4 DEF GoToRustNext

\* The goroutine that starts over blocks with replies in its hands: there is at
\* least one task pending whenever it wants its own mutex.
THEOREM BlockedWithReplies == GoToRust => []LeftOver
<1>1. Init => LeftOver
  BY MemRingAssumption DEF Init, LeftOver, SelfLocked
<1>2. RingInv => TypeOK
  BY DEF RingInv
<1>3. QED
  BY <1>1, <1>2, StepLeftOver, GoToRustInvariant, GoToRustMutex, PTL DEF GoToRust

\* What a step may never do once the goroutine is blocked: free it, free the
\* mutex, or touch the tasks.
BlockedForGood == SelfLocked => SelfLocked' /\ pending' = pending

\* A Go push in the presence of a blocked goroutine is one that is past its
\* critical section.
LEMMA GoPushBlocked ==
  ASSUME TypeOK, GoMutexOwned, SelfLocked, NEW p \in Producers, GoPush(p)
  PROVE  UNCHANGED <<upc, lock, pending>>
<1>1. ~InPush(p) /\ lock # NoOne
  BY DEF GoMutexOwned, SelfLocked
<1>2. PushNotify(p)
  BY <1>1 DEF GoPush, InPush, ProducerGoto, PushLoad, PushWrite, PushPublish, PushCheck,
     PushMark, PushPending
<1>3. QED
  BY <1>2 DEF PushNotify

\* The block is for good: no step of the reader, of a pusher or of the
\* goroutine itself ever undoes it, and the replies that are pending then are
\* never sent.
THEOREM BlockIsForGood == GoToRust => [][BlockedForGood]_vars
<1>1. ASSUME TypeOK, GoMutexOwned, [GoToRustNext]_vars PROVE BlockedForGood
  <2>1. SUFFICES ASSUME SelfLocked PROVE SelfLocked' /\ pending' = pending
    BY <1>1 DEF BlockedForGood
  <2>2. CASE ReaderStep
    BY <2>1, <2>2 DEF SelfLocked, ReaderStep, MarkWorking, PopLoad, PopRead, PopAdvance,
       StuckCheck, MarkUnstuck, NotifyUnstuck, HandleItem, RingDrained, YieldCheck,
       MarkUnworking, RecheckEmpty, AwaitWork, writeVars
  <2>3. ~GoUnstuckStep
    BY <2>1 DEF SelfLocked, GoUnstuckStep, UnstuckBody, UnstuckLock, UnstuckFill, UnstuckWrite,
       UnstuckPublish, UnstuckWake, UnstuckCheck, UnstuckMark, UnstuckNotify, UnstuckRestick,
       GoUnstuckFull, AwaitUnstuck, UnstuckGoto
  <2>4. CASE \E p \in Producers : GoPush(p)
    BY <1>1, <2>1, <2>4, GoPushBlocked DEF SelfLocked
  <2>5. CASE UNCHANGED vars
    BY <2>1, <2>5 DEF SelfLocked, vars, writeVars
  <2>6. QED
    BY <1>1, <2>2, <2>3, <2>4, <2>5 DEF GoToRustNext
<1>2. RingInv => TypeOK
  BY DEF RingInv
<1>3. QED
  BY <1>1, <1>2, GoToRustInvariant, GoToRustMutex, PTL DEF GoToRust

\* Go has no silent push, so every published reply is announced.
Announced == ~unnotified /\ \A p \in Producers : kind[p] = "push"

\* Each step keeps it.
LEMMA StepAnnounced ==
  ASSUME TypeOK, Announced, [GoToRustNext]_vars
  PROVE  Announced'
<1> USE DEF Announced
<1>1. CASE ReaderStep
  BY <1>1 DEF ReaderStep, MarkWorking, PopLoad, PopRead, PopAdvance, StuckCheck, MarkUnstuck,
     NotifyUnstuck, HandleItem, RingDrained, YieldCheck, MarkUnworking, RecheckEmpty, AwaitWork,
     writeVars, history
<1>2. CASE GoUnstuckStep
  BY <1>2 DEF GoUnstuckStep, UnstuckBody, UnstuckLock, UnstuckFill, UnstuckWrite,
     UnstuckPublish, UnstuckWake, UnstuckCheck, UnstuckMark, UnstuckNotify, UnstuckRestick,
     GoUnstuckFull, AwaitUnstuck, history
<1>3. ASSUME NEW p \in Producers, GoPush(p) PROVE Announced'
  <2>1. CASE PushLoad(p, "push")
    BY <2>1 DEF PushLoad, TypeOK, WriterTypeOK
  <2>2. CASE PushWrite(p) \/ PushPublish(p) \/ PushCheck(p)
    BY <2>2 DEF PushWrite, PushPublish, PushCheck, history
  <2>3. CASE PushMark(p) \/ PushNotify(p) \/ PushPending(p)
    BY <2>3 DEF PushMark, PushNotify, PushPending, history
  <2>4. QED
    BY <1>3, <2>1, <2>2, <2>3 DEF GoPush
<1>4. CASE UNCHANGED vars
  BY <1>4 DEF vars, writeVars, history
<1>5. QED
  BY <1>1, <1>2, <1>3, <1>4 DEF GoToRustNext

GoRestSound ==
  Halted =>
    /\ IsEmpty /\ Settled
    /\ \/ lock = NoOne /\ upc = "wait" /\ (pending # << >> => stuck = 1)
       \/ SelfLocked /\ pending # << >>

\* At rest the mutex is free or the goroutine is blocked by itself.
LEMMA GoRestOwner ==
  ASSUME TypeOK, GoMutexOwned, Halted
  PROVE  (lock = NoOne /\ upc = "wait" /\ unstuckFd = 0) \/ SelfLocked
<1>1. \A p \in Producers : lock # p
  BY DEF GoMutexOwned, InPush, Halted
<1>2. lock \in {NoOne, UTask}
  BY <1>1 DEF TypeOK, WriterTypeOK
<1>3. QED
  BY <1>2 DEF GoMutexOwned, InUnstuck, Halted, UnstuckSleeps, UnstuckBlocks, SelfLocked

\* The invariants together are what GoRestSound needs.
LEMMA GoRestEnough ==
  RingInv /\ ItemsInv /\ GoMutexOwned /\ LeftOver /\ Announced /\ NoLostWakeup /\ PendingFlagged
    => GoRestSound
<1> SUFFICES ASSUME RingInv, ItemsInv, GoMutexOwned, LeftOver, Announced, NoLostWakeup,
                    PendingFlagged, Halted
             PROVE  /\ IsEmpty /\ Settled
                    /\ \/ lock = NoOne /\ upc = "wait" /\ (pending # << >> => stuck = 1)
                       \/ SelfLocked /\ pending # << >>
  BY DEF GoRestSound
<1>1. IsEmpty
  BY RestDrains DEF Announced
<1>2. Settled
  BY <1>1, RestSettles DEF ItemsInv
<1>3. (lock = NoOne /\ upc = "wait" /\ unstuckFd = 0) \/ SelfLocked
  BY GoRestOwner DEF RingInv
<1>4. SelfLocked => pending # << >>
  BY DEF LeftOver
<1>5. upc = "wait" /\ unstuckFd = 0 /\ pending # << >> => stuck = 1
  BY DEF PendingFlagged, Halted, ReaderRests
<1>6. QED
  BY <1>1, <1>2, <1>3, <1>4, <1>5

\* When nothing moves any more in the ring for replies, every published reply
\* has been handled, and either the mutex is free and what is pending is
\* announced by the stuck flag, or the goroutine that started over has blocked
\* itself.  It is the only way in which this ring can block, and when it does
\* there are replies that Rust waits for.
THEOREM GoToRustAtRest == GoToRust => []GoRestSound
<1>1. Init => Announced
  BY DEF Init, Announced
<1>2. RingInv => TypeOK
  BY DEF RingInv
<1>3. GoToRust => []Announced
  BY <1>1, <1>2, StepAnnounced, GoToRustInvariant, PTL DEF GoToRust
<1>4. QED
  BY <1>3, GoRestEnough, GoToRustInvariant, GoToRustItems, GoToRustMutex, BlockedWithReplies,
     GoToRustWakes, GoToRustFlag, PTL
=============================================================================
