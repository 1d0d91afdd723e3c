------------------------------- MODULE MemFfi -------------------------------
(***************************************************************************)
(* Calls over shared memory, from one Rust thread to Go: the functions     *)
(* r2g.rs generates for #[mem], rust2go-mem-ffi, and the Go side that      *)
(* common.rs generates (ringsInit).  The thread has two rings, one for     *)
(* calls and drop messages to Go, one for replies, and a slab of TaskDesc; *)
(* Go has a slab that keeps its responses reachable.  Each ring is the     *)
(* Channel that MemRing and GoRing implement, each slab a KeyPool.         *)
(*                                                                         *)
(* A call sends its key; Go answers with that key and a key of its own;    *)
(* Rust sends Go's key back, and Go forgets the response.  A call without  *)
(* return value is answered by a drop message with the call's key.         *)
(***************************************************************************)
EXTENDS Naturals, Sequences

CONSTANTS
  Calls,   \* the calls the thread makes
  OneWay,  \* those to functions without return value
  NoCall,
  Keys,    \* bound: the keys of either slab
  NoKey,
  NoMsg

ASSUME MemFfiAssumption ==
  /\ OneWay \subseteq Calls /\ NoCall \notin Calls /\ NoKey \notin Keys

\* A Payload.  "call" stands for the pointer in it, which leads to the memory
\* of that call; "user" and "next" are user_data and next_user_data.
Message == [flag : {"call", "reply", "drop"}, call : Calls, user : Keys, next : Keys \cup {NoKey}]
Msg(f, c, u, n) == [flag |-> f, call |-> c, user |-> u, next |-> n]

ASSUME MessageAssumption == NoMsg \notin Message

VARIABLES
  calls, called,      \* the ring to Go: handed to push, given to RunHandler
  replies, replied,   \* the ring to Rust
  caller,             \* the call between push_slab and push
  slab,               \* the TaskDescs, by key
  request,            \* the parts of a request in memory: its buffer, what it refers to
  fut, value,         \* LocalFut, and whose response its SlotInner was given
  rx, rxPc, desc,     \* run_handler's closure: message, position, TaskDesc
  goRx,               \* the message RunHandler is at
  go,                 \* the goroutine of each call
  runs,               \* history: how often the user's function ran
  store, response     \* Go's slab, and the memory of each response

rings   == <<calls, called, replies, replied>>
rustSide == <<caller, slab, request, fut, value, rx, rxPc, desc>>
goSide  == <<goRx, go, runs, store, response>>
vars    == <<rings, rustSide, goSide>>

ToGo     == INSTANCE Channel WITH Items <- Message, sent <- calls, delivered <- called
ToRust   == INSTANCE Channel WITH Items <- Message, sent <- replies, delivered <- replied
RustSlab == INSTANCE KeyPool WITH Values <- Calls, Nothing <- NoCall, held <- slab
GoSlab   == INSTANCE KeyPool WITH Values <- Calls, Nothing <- NoCall, held <- store

Whole == {"buffer", "params"}

Init ==
  /\ ToGo!ChanInit /\ ToRust!ChanInit /\ RustSlab!PoolInit /\ GoSlab!PoolInit
  /\ caller = NoCall
  /\ request = [c \in Calls |-> {}]
  /\ fut = [c \in Calls |-> "none"]
  /\ value = [c \in Calls |-> NoCall]
  /\ rx = NoMsg /\ rxPc = "idle" /\ desc = NoCall
  /\ goRx = NoMsg
  /\ go = [c \in Calls |-> "none"]
  /\ runs = [c \in Calls |-> 0]
  /\ response = [c \in Calls |-> "none"]

-----------------------------------------------------------------------------
(* The caller *)

\* Copy the references into a buffer, box the parameters, store both.
Insert(c) ==
  /\ caller = NoCall /\ fut[c] = "none"
  /\ caller' = c
  /\ fut' = [fut EXCEPT ![c] = "calling"]
  /\ request' = [request EXCEPT ![c] = Whole]
  /\ \E k \in Keys : RustSlab!Put(k, c)
  /\ UNCHANGED <<rings, value, rx, rxPc, desc, goSide>>

\* Mutant: no call boxes its parameters.
SendCall_Unboxed(c) ==
  /\ caller = c /\ caller' = NoCall
  /\ \E k \in Keys : slab[k] = c /\ ToGo!Send(Msg("call", c, k, NoKey))
  /\ fut' = [fut EXCEPT ![c] = IF c \in OneWay THEN "done" ELSE "runnable"]
  /\ request' = [request EXCEPT ![c] = @ \ {"params"}]
  /\ UNCHANGED <<replies, replied, slab, value, rx, rxPc, desc, goSide>>

\* Push the call and return.  A call without return value boxed no parameters:
\* what its buffer refers to is the caller's again.
SendCall(c) ==
  /\ caller = c /\ caller' = NoCall
  /\ \E k \in Keys : slab[k] = c /\ ToGo!Send(Msg("call", c, k, NoKey))
  /\ fut' = [fut EXCEPT ![c] = IF c \in OneWay THEN "done" ELSE "runnable"]
  /\ request' = [request EXCEPT ![c] = IF c \in OneWay THEN @ \ {"params"} ELSE @]
  /\ UNCHANGED <<replies, replied, slab, value, rx, rxPc, desc, goSide>>

\* LocalFut::poll and SlotInner::set_result exclude each other (a mutex with
\* tokio, one thread with monoio).
Poll(c) ==
  /\ fut[c] \in {"runnable", "parked"}
  /\ fut' = [fut EXCEPT ![c] = IF value[c] = NoCall THEN "parked" ELSE "done"]
  /\ UNCHANGED <<rings, caller, slab, request, value, rx, rxPc, desc, goSide>>

\* Nothing is cancelled: the TaskDesc owns a reference to the SlotInner, and the
\* parameters.  (Where those are themselves references, the caller of the unsafe
\* function has to keep what they refer to; drop_safe functions have none.)
DropFut(c) ==
  /\ fut[c] \in {"runnable", "parked"}
  /\ fut' = [fut EXCEPT ![c] = "dropped"]
  /\ UNCHANGED <<rings, caller, slab, request, value, rx, rxPc, desc, goSide>>

-----------------------------------------------------------------------------
(* RunHandler's function in ringsInit, and ringHandle of each function *)

\* Mutant: a ring that delivers twice.
GoReceive_Again ==
  /\ goRx = NoMsg
  /\ \E m \in calls : called' = Append(called, m) /\ goRx' = m
  /\ UNCHANGED <<calls, replies, replied, rustSide, go, runs, store, response>>

GoReceive ==
  /\ goRx = NoMsg
  /\ \E m \in calls : ToGo!Deliver(m) /\ goRx' = m
  /\ UNCHANGED <<replies, replied, rustSide, go, runs, store, response>>

\* The request is converted here, by references into the caller's memory, and
\* a goroutine is submitted to the pool.
GoStart ==
  /\ goRx # NoMsg /\ goRx.flag = "call" /\ goRx.call \notin OneWay
  /\ go' = [go EXCEPT ![goRx.call] = "running"]
  /\ goRx' = NoMsg
  /\ UNCHANGED <<rings, rustSide, runs, store, response>>

\* Mutant: the push of the answer never returns.
GoAck_Blocks ==
  /\ goRx # NoMsg /\ goRx.flag = "call" /\ goRx.call \in OneWay
  /\ UNCHANGED vars

\* post_func(nil, nil, 0): a call without return value is answered at once.
GoAck ==
  /\ goRx # NoMsg /\ goRx.flag = "call" /\ goRx.call \in OneWay
  /\ ToRust!Send(Msg("drop", goRx.call, goRx.user, NoKey))
  /\ goRx' = NoMsg
  /\ UNCHANGED <<calls, called, rustSide, go, runs, store, response>>

\* slab.Pop does not look whether the key is in use.
GoPop ==
  /\ goRx # NoMsg /\ goRx.flag = "drop"
  /\ store' = [store EXCEPT ![goRx.user] = NoCall]
  /\ response' = [c \in Calls |-> IF store[goRx.user] = c THEN "freed" ELSE response[c]]
  /\ goRx' = NoMsg
  /\ UNCHANGED <<rings, rustSide, go, runs>>

\* The user's function reads the request and returns.
GoRun(c) ==
  /\ go[c] = "running"
  /\ go' = [go EXCEPT ![c] = "storing"]
  /\ runs' = [runs EXCEPT ![c] = @ + 1]
  /\ response' = [response EXCEPT ![c] = "held"]
  /\ UNCHANGED <<rings, rustSide, goRx, store>>

GoStore(c) ==
  /\ go[c] = "storing"
  /\ go' = [go EXCEPT ![c] = "replying"]
  /\ \E k \in Keys : GoSlab!Put(k, c)
  /\ UNCHANGED <<rings, rustSide, goRx, runs, response>>

\* Mutant: the payload has one key twice.
GoReply_OneKey(c) ==
  /\ go[c] = "replying"
  /\ go' = [go EXCEPT ![c] = "done"]
  /\ \E m \in ToGo!Delivered, k \in Keys :
       /\ m.flag = "call" /\ m.call = c /\ store[k] = c
       /\ ToRust!Send(Msg("reply", c, m.user, m.user))
  /\ UNCHANGED <<calls, called, rustSide, goRx, runs, store, response>>

\* The payload has the user_data of the call and the new key.
GoReply(c) ==
  /\ go[c] = "replying"
  /\ go' = [go EXCEPT ![c] = "done"]
  /\ \E m \in ToGo!Delivered, k \in Keys :
       /\ m.flag = "call" /\ m.call = c /\ store[k] = c
       /\ ToRust!Send(Msg("reply", c, m.user, k))
  /\ UNCHANGED <<calls, called, rustSide, goRx, runs, store, response>>

-----------------------------------------------------------------------------
(* The handler init_mem_ffi runs, and mem_ffi_handle of each function *)

RustGoto(from, to) == rxPc = from /\ rxPc' = to

RustReceive ==
  /\ RustGoto("idle", "remove")
  /\ \E m \in replies : ToRust!Deliver(m) /\ rx' = m
  /\ UNCHANGED <<calls, called, caller, slab, request, fut, value, desc, goSide>>

\* slab.remove, which panics on a key that is not in use.
RustRemove ==
  /\ RustGoto("remove", IF rx.call \in OneWay THEN "free" ELSE "read")
  /\ slab[rx.user] # NoCall
  /\ desc' = slab[rx.user]
  /\ slab' = [slab EXCEPT ![rx.user] = NoCall]
  /\ UNCHANGED <<rings, caller, request, fut, value, rx, goSide>>

\* from_ref copies the response out of Go's memory, and out of the request
\* where the user's function returned parts of it.
RustRead ==
  /\ RustGoto("read", "result")
  /\ UNCHANGED <<rings, caller, slab, request, fut, value, rx, desc, goSide>>

\* Mutant: the waker is not called.
RustSetResult_NoWake ==
  /\ RustGoto("result", "free")
  /\ value' = [value EXCEPT ![desc] = rx.call]
  /\ UNCHANGED <<rings, caller, slab, request, fut, rx, desc, goSide>>

\* set_result: the value goes into the slot of the TaskDesc; a waker there runs.
RustSetResult ==
  /\ RustGoto("result", "free")
  /\ value' = [value EXCEPT ![desc] = rx.call]
  /\ fut' = [fut EXCEPT ![desc] = IF @ = "parked" THEN "runnable" ELSE @]
  /\ UNCHANGED <<rings, caller, slab, request, rx, desc, goSide>>

\* Mutant: every handler returns false, so no response is given back.
RustFree_NoAck ==
  /\ RustGoto("free", "idle")
  /\ request' = [request EXCEPT ![desc] = {}]
  /\ desc' = NoCall /\ rx' = NoMsg
  /\ UNCHANGED <<rings, caller, slab, fut, value, goSide>>

\* The parameters and the TaskDesc go out of scope.
RustFree ==
  /\ RustGoto("free", IF rx.call \in OneWay THEN "idle" ELSE "ack")
  /\ request' = [request EXCEPT ![desc] = {}]
  /\ desc' = NoCall
  /\ rx' = IF rx.call \in OneWay THEN NoMsg ELSE rx
  /\ UNCHANGED <<rings, caller, slab, fut, value, goSide>>

\* Mutant: the drop message has the key of the call.
RustAck_OwnKey ==
  /\ RustGoto("ack", "idle")
  /\ ToGo!Send(Msg("drop", rx.call, rx.user, NoKey))
  /\ rx' = NoMsg
  /\ UNCHANGED <<replies, replied, caller, slab, request, fut, value, desc, goSide>>

RustAck ==
  /\ RustGoto("ack", "idle")
  /\ ToGo!Send(Msg("drop", rx.call, rx.next, NoKey))
  /\ rx' = NoMsg
  /\ UNCHANGED <<replies, replied, caller, slab, request, fut, value, desc, goSide>>

-----------------------------------------------------------------------------

CallerStep(c) == Insert(c) \/ SendCall(c) \/ Poll(c) \/ DropFut(c)
GoReader      == GoReceive \/ GoStart \/ GoAck \/ GoPop
GoRoutine(c)  == GoRun(c) \/ GoStore(c) \/ GoReply(c)
RustHandler   == RustReceive \/ RustRemove \/ RustRead \/ RustSetResult \/ RustFree \/ RustAck

Next == GoReader \/ RustHandler \/ \E c \in Calls : CallerStep(c) \/ GoRoutine(c)
Spec == Init /\ [][Next]_vars

(***************************************************************************)
(* Both ends of both rings are served: what is sent is delivered.  The     *)
(* rings promise that for what they published (PublishedHandled), and for  *)
(* what overflows only as far as the runs of MemRing and GoRing show.      *)
(* Goroutines are scheduled and the user's functions return; a caller      *)
(* inside push goes on, and a task whose waker ran is polled.  There are   *)
(* finitely many such steps for finitely many calls, so it is enough that  *)
(* one of them happens while there is one.                                 *)
(***************************************************************************)
Progress ==
  \/ GoReader \/ RustHandler
  \/ \E c \in Calls : SendCall(c) \/ GoRoutine(c) \/ (fut[c] = "runnable" /\ Poll(c))
FairSpec == Spec /\ WF_vars(Progress)

-----------------------------------------------------------------------------
(* Properties *)

\* Every variable stays in its set.
TypeOK ==
  /\ calls \subseteq Message /\ called \in Seq(Message)
  /\ replies \subseteq Message /\ replied \in Seq(Message)
  /\ caller \in Calls \cup {NoCall} /\ slab \in [Keys -> Calls \cup {NoCall}]
  /\ request \in [Calls -> SUBSET Whole]
  /\ fut \in [Calls -> {"none", "calling", "runnable", "parked", "done", "dropped"}]
  /\ value \in [Calls -> Calls \cup {NoCall}]
  /\ rx \in Message \cup {NoMsg} /\ desc \in Calls \cup {NoCall}
  /\ rxPc \in {"idle", "remove", "read", "result", "free", "ack"}
  /\ goRx \in Message \cup {NoMsg}
  /\ go \in [Calls -> {"none", "running", "storing", "replying", "done"}]
  /\ runs \in [Calls -> Nat] /\ store \in [Keys -> Calls \cup {NoCall}]
  /\ response \in [Calls -> {"none", "held", "freed"}]

\* Go reads a request, and runs the user's function on it, only while all of it
\* is in memory, although the caller may have returned or dropped its future.
\* A response may refer to its request, so that has to be there as well when
\* Rust copies the response.
ReadsRequest(c) ==
  \/ goRx # NoMsg /\ goRx.flag = "call" /\ goRx.call = c /\ c \notin OneWay
  \/ go[c] = "running"
  \/ rxPc = "read" /\ rx.call = c
RequestAlive == \A c \in Calls : ReadsRequest(c) => request[c] = Whole

\* Rust copies a response only while Go's slab keeps it reachable.
ResponseAlive == rxPc = "read" => response[rx.call] = "held" /\ store[rx.next] = rx.call

\* A key that crosses a ring still stands for its call when it is looked up,
\* however keys are used again: remove finds the TaskDesc of the call that is
\* answered, and Pop the response Rust is done with.
KeysMatch ==
  /\ rxPc = "remove" => slab[rx.user] = rx.call
  /\ goRx # NoMsg /\ goRx.flag = "drop" => store[goRx.user] = goRx.call

\* When nothing of a call is under way any more, nothing of it is kept: its
\* buffer, parameters and response are gone and both keys are free, whether its
\* future is still there or not.
InFlight == (calls \ ToGo!Delivered) \cup (replies \ ToRust!Delivered)
UnderWay(c) ==
  \/ caller = c
  \/ \E m \in InFlight \cup ({rx, goRx} \ {NoMsg}) : m.call = c
  \/ go[c] \in {"running", "storing", "replying"}
NoLeak ==
  \A c \in Calls : ~UnderWay(c) =>
    /\ request[c] = {} /\ response[c] # "held"
    /\ \A k \in Keys : slab[k] # c /\ store[k] # c

\* The two rings, the two slabs and the two handlers together are a remote
\* call: run at most once, and answered with its own response.
R == INSTANCE RemoteCall WITH
       called <- {c \in Calls : fut[c] \notin {"none", "calling"}},
       answered <- value
RpcSpec == R!RpcSpec

\* A call with a return value completes, unless its future is dropped first.
Completes ==
  \A c \in Calls \ OneWay : fut[c] = "calling" ~> fut[c] \in {"done", "dropped"}

\* Every call is cleaned up, also one whose future was dropped.
CleanedUp == <>[](\A c \in Calls : ~UnderWay(c))

\* "make this function implemented based on shared memory" (docs/trait-attrs.md
\* 11): a function marked #[mem] runs when it is called.  The code does not do
\* that for a function without return value.
EveryCallRuns == \A c \in Calls : caller = c ~> runs[c] = 1
=============================================================================
