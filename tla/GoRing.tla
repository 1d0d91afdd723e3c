------------------------------- MODULE GoRing -------------------------------
(***************************************************************************)
(* The two rings mem-ffi sets up between a Rust and a Go runtime.  The     *)
(* memory layout is the one of MemRing; mem-ring/queue.go has its own      *)
(* reader (RunHandler) and its own writer (Push and the goroutine that     *)
(* Write starts), which differ from the Rust ones:                         *)
(*                                                                         *)
(*  - RunHandler calls Queue.pop and never looks at the stuck flag;        *)
(*  - it goes on polling with working = 0 until its TinyWaiter gives up;   *)
(*  - Push has no silent and no awaiting form;                             *)
(*  - the goroutine starts over with the mutex still locked.               *)
(*                                                                         *)
(* The ring for calls has Rust writers and the Go reader (RustToGo); the   *)
(* ring for replies has Go writers and the Rust reader (GoToRust).         *)
(***************************************************************************)
EXTENDS MemRing

-----------------------------------------------------------------------------
(* RunHandler *)

GoPopLoad ==
  /\ ReaderGoto("pop", IF IsEmpty THEN "yield" ELSE "read")
  /\ UNCHANGED <<shared, sockets, ritem, yields, writeVars, history>>

\* Mutant: head does not move.
GoPopAdvance_Forgotten ==
  /\ ReaderGoto("advance", "handle")
  /\ UNCHANGED <<shared, sockets, ritem, yields, writeVars, history>>

\* Queue.pop returns to RunHandler, which calls the handler at once.
GoPopAdvance ==
  /\ ReaderGoto("advance", "handle")
  /\ head' = head + 1
  /\ UNCHANGED <<tail, working, stuck, buffer, sockets, ritem, yields, writeVars, history>>

\* TinyWaiter.Wait returned; the ring is looked at before markUnworking.
GoPollCheck ==
  /\ ReaderGoto("yield", IF IsEmpty THEN "unwork" ELSE "pop")
  /\ UNCHANGED <<shared, sockets, ritem, yields, writeVars, history>>

\* Mutant: markUnworking does not look at the ring again.
GoRecheckEmpty_Skipped ==
  /\ rpc = "recheck" /\ rpc' \in {"wait", "yield"}
  /\ UNCHANGED <<shared, sockets, ritem, yields, writeVars, history>>

\* The look of markUnworking itself.  Where the waiter was not done the loop
\* polls again, with working already 0.
GoRecheckEmpty ==
  /\ rpc = "recheck"
  /\ \/ ~IsEmpty /\ rpc' = "mark"
     \/ IsEmpty  /\ rpc' \in {"wait", "yield"}
  /\ UNCHANGED <<shared, sockets, ritem, yields, writeVars, history>>

GoReaderStep ==
  \/ MarkWorking \/ GoPopLoad \/ PopRead \/ GoPopAdvance \/ HandleItem
  \/ GoPollCheck \/ MarkUnworking \/ GoRecheckEmpty \/ AwaitWork

-----------------------------------------------------------------------------
(* Push, and the goroutine started by Write *)

GoPush(p) ==
  \/ PushLoad(p, "push") \/ PushWrite(p) \/ PushPublish(p)
  \/ PushCheck(p) \/ PushMark(p) \/ PushNotify(p) \/ PushPending(p)

\* isFull after markStuck: `continue` jumps to Lock with the mutex locked.
GoUnstuckFull ==
  /\ UnstuckGoto("full?", IF IsFull THEN "wait" ELSE "drain")
  /\ lock' = IF IsFull THEN NoOne ELSE lock
  /\ UNCHANGED <<shared, sockets, readVars, pending, pc, cur, kind, ucur, waker, history>>

GoUnstuckStep == UnstuckLock \/ UnstuckBody \/ GoUnstuckFull

-----------------------------------------------------------------------------
(* The two rings.  A goroutine that is ready to run is scheduled, and a      *)
(* sync.Mutex serves a goroutine that waits for it (its starvation mode).    *)

RustToGoNext == GoReaderStep \/ UnstuckStep \/ \E p \in Producers : ProducerStep(p)
RustToGo     == Init /\ [][RustToGoNext]_vars
RustToGoFair ==
  /\ RustToGo
  /\ WF_vars(GoReaderStep)
  /\ WF_vars(UnstuckBody \/ UnstuckFull) /\ SF_vars(UnstuckLock)
  /\ \A p \in Producers : WF_vars(PushStep(p))

GoToRustNext == ReaderStep \/ GoUnstuckStep \/ \E p \in Producers : GoPush(p)
GoToRust     == Init /\ [][GoToRustNext]_vars
GoToRustFair ==
  /\ GoToRust
  /\ WF_vars(ReaderStep)
  /\ WF_vars(UnstuckBody \/ GoUnstuckFull) /\ SF_vars(UnstuckLock)
  /\ \A p \in Producers : WF_vars(GoPush(p) /\ pc[p] # "idle")
=============================================================================
