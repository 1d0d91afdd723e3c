---------------------------- MODULE MemFfiProofs ----------------------------
(***************************************************************************)
(* Theorems about MemFfi, for any set of calls, one-way or not, and any    *)
(* keys, however they are used again.                                      *)
(*                                                                         *)
(* A call is where its messages are.  The invariant follows it: its call   *)
(* message, then the goroutine, the reply, the handler in Rust and the     *)
(* drop message each need the one before (CallsRing, Goroutines,           *)
(* RepliesRing), so that there is one of each, and what either slab and    *)
(* the request's memory hold is said by how far the call has come.         *)
(***************************************************************************)
EXTENDS MemFfi, TLAPS

\* What the two handlers have been given so far.
GivenGo   == ToGo!Delivered
GivenRust == ToRust!Delivered

Began(c) == fut[c] # "none"
IsSent(c) == fut[c] \notin {"none", "calling"}

\* The handler has removed the TaskDesc of c, has freed its request; Go has
\* popped its response.
Removed(c) == \E n \in GivenRust : n.call = c /\ ~(rx = n /\ rxPc = "remove")
Freed(c)   == \E n \in GivenRust : n.call = c /\ ~(rx = n /\ rxPc # "ack")
Popped(c)  == \E m \in GivenGo : m.flag = "drop" /\ m.call = c /\ goRx # m

Handlers ==
  /\ GivenGo \subseteq calls /\ GivenRust \subseteq replies
  /\ rxPc = "idle" <=> rx = NoMsg
  /\ rx # NoMsg => rx \in GivenRust
  /\ goRx # NoMsg => goRx \in GivenGo
  /\ rxPc \in {"read", "result", "ack"} => rx.call \notin OneWay
  /\ rxPc \in {"read", "result", "free"} => desc = rx.call

CallsRing ==
  /\ \A m, n \in calls : m.flag = n.flag /\ m.call = n.call => m = n
  /\ \A m \in calls : \/ m.flag = "call" /\ IsSent(m.call)
                      \/ /\ m.flag = "drop"
                         /\ \E n \in GivenRust : /\ n.flag = "reply" /\ n.call = m.call
                                                 /\ n.next = m.user /\ rx # n
  /\ \A c \in Calls : caller = c <=> fut[c] = "calling"

Goroutines ==
  \A c \in Calls : go[c] # "none" =>
    c \notin OneWay /\ \E m \in GivenGo : m.flag = "call" /\ m.call = c /\ m # goRx

RepliesRing ==
  /\ \A m, n \in replies : m.call = n.call => m = n
  /\ \A n \in replies :
       /\ \E m \in GivenGo : m.flag = "call" /\ m.call = n.call /\ m.user = n.user /\ m # goRx
       /\ n.call \in OneWay => n.flag = "drop"
       /\ n.call \notin OneWay => n.flag = "reply" /\ go[n.call] = "done" /\ n.next \in Keys

TaskDescs ==
  /\ \A k, l \in Keys : slab[k] = slab[l] /\ slab[k] # NoCall => k = l
  /\ \A k \in Keys : slab[k] # NoCall => Began(slab[k]) /\ ~Removed(slab[k])
  /\ \A m \in calls : m.flag = "call" /\ ~Removed(m.call) => slab[m.user] = m.call

Requests ==
  \A c \in Calls : /\ Began(c) /\ ~Freed(c) /\ c \notin OneWay => request[c] = Whole
                   /\ ~Began(c) \/ Freed(c) => request[c] = {}

Responses ==
  /\ \A k, l \in Keys : store[k] = store[l] /\ store[k] # NoCall => k = l
  /\ \A k \in Keys : store[k] # NoCall =>
       go[store[k]] \in {"replying", "done"} /\ ~Popped(store[k])
  /\ \A n \in replies : n.flag = "reply" /\ ~Popped(n.call) => store[n.next] = n.call
  /\ \A c \in Calls :
       response[c] = "held" <=> go[c] \in {"storing", "replying", "done"} /\ ~Popped(c)

CallInv ==
  /\ TypeOK /\ Handlers /\ CallsRing /\ Goroutines /\ RepliesRing
  /\ TaskDescs /\ Requests /\ Responses

-----------------------------------------------------------------------------
USE MemFfiAssumption, MessageAssumption

\* Nothing has been sent, delivered or stored yet.
LEMMA InitCalls == Init => CallInv
  BY DEF Init, CallInv, TypeOK, Handlers, CallsRing, Goroutines, RepliesRing, TaskDescs, Requests,
     Responses, GivenGo, GivenRust, Began, Freed, Removed, Popped, ToGo!ChanInit, ToRust!ChanInit,
     ToGo!Delivered, ToRust!Delivered, RustSlab!PoolInit, GoSlab!PoolInit, Message

\* What the two rings do to the messages given to a handler.
LEMMA RingSteps ==
  ASSUME TypeOK
  PROVE  /\ \A m : ToGo!Send(m) => calls' = calls \cup {m} /\ called' = called /\ GivenGo' = GivenGo
         /\ \A m : ToRust!Send(m) =>
              replies' = replies \cup {m} /\ replied' = replied /\ GivenRust' = GivenRust
         /\ \A m : ToGo!Deliver(m) => /\ m \in calls \ GivenGo /\ calls' = calls
                                      /\ GivenGo' = GivenGo \cup {m} /\ called' \in Seq(Message)
         /\ \A m : ToRust!Deliver(m) => /\ m \in replies \ GivenRust /\ replies' = replies
                                        /\ GivenRust' = GivenRust \cup {m} /\ replied' \in Seq(Message)
         /\ called' = called => GivenGo' = GivenGo
         /\ replied' = replied => GivenRust' = GivenRust
<1>1. ASSUME NEW s \in Seq(Message), NEW m \in Message
      PROVE  /\ Append(s, m) \in Seq(Message)
             /\ {Append(s, m)[k] : k \in DOMAIN Append(s, m)} = {s[k] : k \in DOMAIN s} \cup {m}
  <2>1. /\ Append(s, m) \in Seq(Message)
        /\ DOMAIN Append(s, m) = DOMAIN s \cup {Len(s) + 1}
        /\ \A k \in DOMAIN s : Append(s, m)[k] = s[k]
        /\ Append(s, m)[Len(s) + 1] = m
    OBVIOUS
  <2> QED BY <2>1
<1>2. \A m : ToGo!Send(m) => calls' = calls \cup {m} /\ called' = called /\ GivenGo' = GivenGo
  BY DEF ToGo!Send, GivenGo, ToGo!Delivered
<1>3. \A m : ToRust!Send(m) =>
        replies' = replies \cup {m} /\ replied' = replied /\ GivenRust' = GivenRust
  BY DEF ToRust!Send, GivenRust, ToRust!Delivered
<1>4. ASSUME NEW m, ToGo!Deliver(m)
      PROVE  /\ m \in calls \ GivenGo /\ calls' = calls
             /\ GivenGo' = GivenGo \cup {m} /\ called' \in Seq(Message)
  <2>1. m \in calls \ GivenGo /\ calls' = calls /\ called' = Append(called, m)
    BY <1>4 DEF ToGo!Deliver, GivenGo
  <2>2. m \in Message /\ called \in Seq(Message)
    BY <2>1 DEF TypeOK
  <2> QED BY <1>1, <2>1, <2>2 DEF GivenGo, ToGo!Delivered
<1>5. ASSUME NEW m, ToRust!Deliver(m)
      PROVE  /\ m \in replies \ GivenRust /\ replies' = replies
             /\ GivenRust' = GivenRust \cup {m} /\ replied' \in Seq(Message)
  <2>1. m \in replies \ GivenRust /\ replies' = replies /\ replied' = Append(replied, m)
    BY <1>5 DEF ToRust!Deliver, GivenRust
  <2>2. m \in Message /\ replied \in Seq(Message)
    BY <2>1 DEF TypeOK
  <2> QED BY <1>1, <2>1, <2>2 DEF GivenRust, ToRust!Delivered
<1>6. (called' = called => GivenGo' = GivenGo) /\ (replied' = replied => GivenRust' = GivenRust)
  BY DEF GivenGo, GivenRust, ToGo!Delivered, ToRust!Delivered
<1> QED BY <1>2, <1>3, <1>4, <1>5, <1>6
-----------------------------------------------------------------------------
(* One step of the caller *)

\* What the caller's steps leave alone.
LEMMA CallerKeeps ==
  ASSUME CallInv, NEW c \in Calls, CallerStep(c)
  PROVE  CallInv'
<1> USE DEF CallInv, goSide, rings
<1>a. Handlers' /\ Goroutines' /\ Responses'
  BY RingSteps DEF Handlers, Goroutines, Responses, Popped, CallerStep, Insert, SendCall, Poll, DropFut
<1>1. CASE Insert(c)
  <2>1. PICK k \in Keys : RustSlab!Put(k, c)
    BY <1>1 DEF Insert
  <2>2. slab[k] = NoCall /\ slab' = [slab EXCEPT ![k] = c]
    BY <2>1 DEF RustSlab!Put
  <2>3. GivenGo' = GivenGo /\ GivenRust' = GivenRust
    BY <1>1, RingSteps DEF Insert
  <2>4. ~Removed(c) /\ ~Freed(c)
    BY <1>1 DEF Insert, Removed, Freed, RepliesRing, CallsRing, Handlers, IsSent
  <2>5. TypeOK'
    BY <1>1, <2>2 DEF Insert, TypeOK, Whole
  <2>6. CallsRing'
    BY <1>1, <2>3 DEF Insert, CallsRing, TypeOK, IsSent
  <2>7. RepliesRing'
    BY <1>1, <2>3 DEF Insert, RepliesRing
  <2>8. TaskDescs'
    <3>1. \A d \in Calls : Removed(d)' = Removed(d) /\ (Began(d) => Began(d)')
      BY <1>1, <2>3 DEF Insert, Removed, Began, TypeOK
    <3>2. Began(c)' /\ ~Began(c)
      BY <1>1 DEF Insert, Began, TypeOK
    <3> QED BY <1>1, <2>2, <2>4, <3>1, <3>2 DEF Insert, TaskDescs, TypeOK, Message
  <2>9. Requests'
    BY <1>1, <2>3, <2>4 DEF Insert, Requests, Freed, Began, TypeOK
  <2> QED BY <1>a, <2>5, <2>6, <2>7, <2>8, <2>9
<1>2. CASE SendCall(c)
  <2>1. PICK k \in Keys : slab[k] = c /\ ToGo!Send(Msg("call", c, k, NoKey))
    BY <1>2 DEF SendCall
  <2> DEFINE m == Msg("call", c, k, NoKey)
  <2>2. /\ calls' = calls \cup {m} /\ called' = called
        /\ GivenGo' = GivenGo /\ GivenRust' = GivenRust
    BY <1>2, <2>1, RingSteps DEF SendCall
  <2>3. m \in Message /\ m.flag = "call" /\ m.call = c /\ m.user = k
    BY DEF Message, Msg
  <2> HIDE DEF m
  <2>4. fut[c] = "calling" /\ IsSent(c)' /\ \A d \in Calls \ {c} : fut'[d] = fut[d]
    BY <1>2 DEF SendCall, CallsRing, TypeOK, IsSent
  <2>5. ~Removed(c) /\ ~Freed(c)
    BY <2>4 DEF Removed, Freed, RepliesRing, CallsRing, Handlers, IsSent
  <2>6. TypeOK'
    BY <1>2, <2>2, <2>3 DEF SendCall, TypeOK, Whole
  <2>7. CallsRing'
    BY <1>2, <2>2, <2>3, <2>4 DEF SendCall, CallsRing, TypeOK, IsSent, Message
  <2>8. RepliesRing'
    BY <1>2, <2>2 DEF SendCall, RepliesRing
  <2>9. TaskDescs'
    <3>1. \A d \in Calls : Removed(d)' = Removed(d) /\ Began(d)' = Began(d)
      BY <1>2, <2>2, <2>4 DEF SendCall, Removed, Began, TypeOK, IsSent
    <3> QED BY <1>2, <2>1, <2>2, <2>3, <3>1 DEF SendCall, TaskDescs, TypeOK, Message
  <2>10. Requests'
    BY <1>2, <2>2, <2>4, <2>5 DEF SendCall, Requests, Freed, Began, TypeOK, IsSent
  <2> QED BY <1>a, <2>6, <2>7, <2>8, <2>9, <2>10
<1>3. CASE Poll(c) \/ DropFut(c)
  <2>1. /\ UNCHANGED <<rings, caller, slab, request, rx, rxPc, desc, goSide>>
        /\ GivenGo' = GivenGo /\ GivenRust' = GivenRust
    BY <1>3, RingSteps DEF Poll, DropFut
  <2>2. \A d \in Calls : /\ IsSent(d)' = IsSent(d) /\ Began(d)' = Began(d)
                         /\ fut'[d] = "calling" <=> fut[d] = "calling"
    BY <1>3 DEF Poll, DropFut, IsSent, Began, TypeOK
  <2>3. TypeOK'
    BY <1>3 DEF Poll, DropFut, TypeOK
  <2>4. CallsRing' /\ RepliesRing'
    BY <2>1, <2>2 DEF CallsRing, RepliesRing, TypeOK, Message
  <2>5. TaskDescs' /\ Requests'
    BY <2>1, <2>2 DEF TaskDescs, Requests, Removed, Freed, TypeOK, Message
  <2> QED BY <1>a, <2>3, <2>4, <2>5
<1> QED BY <1>1, <1>2, <1>3 DEF CallerStep
-----------------------------------------------------------------------------
(* One step of Go *)

\* Where a message of Go's is, nothing later of its call is.
LEMMA GoPlace ==
  ASSUME CallInv
  PROVE  /\ goRx # NoMsg /\ goRx.flag = "call" =>
              /\ go[goRx.call] = "none" /\ \A n \in replies : n.call # goRx.call
              /\ \A k \in Keys : store[k] # goRx.call
         /\ goRx # NoMsg /\ goRx.flag = "drop" =>
              ~Popped(goRx.call) /\ store[goRx.user] = goRx.call
         /\ \A c \in Calls : go[c] # "done" =>
              ~Popped(c) /\ (c \notin OneWay => \A n \in replies : n.call # c)
<1> USE DEF CallInv
<1>1. ASSUME goRx # NoMsg, goRx.flag = "call"
      PROVE  /\ go[goRx.call] = "none" /\ \A n \in replies : n.call # goRx.call
             /\ \A k \in Keys : store[k] # goRx.call
  <2>1. goRx \in GivenGo /\ goRx \in calls /\ goRx.call \in Calls
    BY <1>1 DEF Handlers, TypeOK, Message
  <2>2. \A m \in GivenGo : m.flag = "call" /\ m.call = goRx.call => m = goRx
    BY <1>1, <2>1 DEF Handlers, CallsRing
  <2>3. go[goRx.call] = "none" /\ \A n \in replies : n.call # goRx.call
    BY <2>1, <2>2 DEF Goroutines, RepliesRing
  <2>4. ASSUME NEW k \in Keys, store[k] = goRx.call PROVE FALSE
    BY <2>1, <2>3, <2>4 DEF Responses
  <2> QED BY <2>3, <2>4
<1>2. ASSUME goRx # NoMsg, goRx.flag = "drop"
      PROVE  ~Popped(goRx.call) /\ store[goRx.user] = goRx.call
  <2>1. goRx \in GivenGo /\ goRx \in calls
    BY <1>2 DEF Handlers
  <2>2. ~Popped(goRx.call)
    BY <1>2, <2>1 DEF Popped, Handlers, CallsRing
  <2>3. PICK n \in GivenRust : n.flag = "reply" /\ n.call = goRx.call /\ n.next = goRx.user
    BY <1>2, <2>1 DEF CallsRing
  <2> QED BY <2>2, <2>3 DEF Handlers, Responses
<1>3. ASSUME NEW c \in Calls, go[c] # "done"
      PROVE  c \notin OneWay => \A n \in replies : n.call # c
  BY <1>3 DEF RepliesRing
<1>4. ASSUME NEW c \in Calls, go[c] # "done", Popped(c)
      PROVE  FALSE
  <2>1. PICK m \in calls : m.flag = "drop" /\ m.call = c
    BY <1>4 DEF Popped, Handlers
  <2>2. PICK n \in replies : n.flag = "reply" /\ n.call = c
    BY <2>1 DEF CallsRing, Handlers
  <2> QED BY <1>4, <2>2 DEF RepliesRing
<1> QED BY <1>1, <1>2, <1>3, <1>4
\* RunHandler and the goroutines keep the invariant.
LEMMA GoKeeps ==
  ASSUME CallInv, GoReader \/ \E c \in Calls : GoRoutine(c)
  PROVE  CallInv'
<1> USE DEF CallInv, rustSide, rings
<1>a. TaskDescs' /\ Requests'
  <2>1. UNCHANGED <<rustSide, replied>> /\ GivenRust' = GivenRust
    BY RingSteps DEF GoReader, GoReceive, GoStart, GoAck, GoPop, GoRoutine, GoRun, GoStore, GoReply,
       ToRust!Send
  <2>2. calls' = calls
    BY RingSteps DEF GoReader, GoReceive, GoStart, GoAck, GoPop, GoRoutine, GoRun, GoStore, GoReply
  <2> QED BY <2>1, <2>2 DEF TaskDescs, Requests, Removed, Freed, Began
<1>1. CASE GoReceive
  <2>1. PICK m \in calls : ToGo!Deliver(m) /\ goRx' = m
    BY <1>1 DEF GoReceive
  <2>2. /\ m \in Message /\ m \notin GivenGo /\ calls' = calls /\ called' \in Seq(Message)
        /\ GivenGo' = GivenGo \cup {m} /\ GivenRust' = GivenRust /\ goRx = NoMsg
        /\ UNCHANGED <<replies, replied, rustSide, go, runs, store, response>>
    BY <1>1, <2>1, RingSteps DEF GoReceive, TypeOK
  <2>3. \A c : Popped(c)' = Popped(c)
    BY <2>1, <2>2 DEF Popped, Handlers, TypeOK
  <2>4. TypeOK'
    BY <2>1, <2>2 DEF TypeOK
  <2>5. Handlers' /\ CallsRing'
    BY <2>1, <2>2 DEF Handlers, CallsRing, IsSent
  <2>6. Goroutines' /\ RepliesRing'
    BY <2>1, <2>2 DEF Goroutines, RepliesRing
  <2>7. Responses'
    BY <2>2, <2>3 DEF Responses
  <2> QED BY <1>a, <2>4, <2>5, <2>6, <2>7
<1>2. CASE GoStart
  <2> DEFINE c == goRx.call
  <2>1. /\ goRx \in GivenGo /\ c \in Calls \ OneWay /\ goRx.flag = "call" /\ goRx # NoMsg
        /\ goRx' = NoMsg /\ go' = [go EXCEPT ![c] = "running"]
        /\ UNCHANGED <<rings, rustSide, runs, store, response>>
        /\ GivenGo' = GivenGo /\ GivenRust' = GivenRust
    BY <1>2, RingSteps DEF GoStart, Handlers, TypeOK, Message
  <2>2. go[c] = "none" /\ (\A n \in replies : n.call # c) /\ \A k \in Keys : store[k] # c
    BY <2>1, GoPlace
  <2>3. \A m \in GivenGo : m # goRx'
    BY <2>1 DEF Handlers, TypeOK
  <2>4. \A d : Popped(d)' = Popped(d)
    BY <2>1, <2>3 DEF Popped
  <2> HIDE DEF c
  <2>5. TypeOK'
    BY <2>1 DEF TypeOK
  <2>6. Handlers' /\ CallsRing'
    BY <2>1 DEF Handlers, CallsRing, IsSent
  <2>7. Goroutines'
    BY <2>1, <2>3 DEF Goroutines, TypeOK, c
  <2>8. RepliesRing'
    BY <2>1, <2>2, <2>3 DEF RepliesRing, TypeOK, Message
  <2>9. Responses'
    BY <2>1, <2>2, <2>4 DEF Responses, TypeOK
  <2> QED BY <1>a, <2>5, <2>6, <2>7, <2>8, <2>9
<1>3. CASE GoAck
  <2> DEFINE m == Msg("drop", goRx.call, goRx.user, NoKey)
  <2>1. /\ goRx \in GivenGo /\ goRx.call \in OneWay /\ goRx.flag = "call" /\ goRx # NoMsg
        /\ goRx' = NoMsg /\ replies' = replies \cup {m} /\ replied' = replied
        /\ UNCHANGED <<calls, called, rustSide, go, runs, store, response>>
        /\ GivenGo' = GivenGo /\ GivenRust' = GivenRust
    BY <1>3, RingSteps DEF GoAck, Handlers
  <2>2. m \in Message /\ m.flag = "drop" /\ m.call = goRx.call /\ m.user = goRx.user
    BY <2>1 DEF Message, Msg, Handlers, TypeOK
  <2>3. \A n \in replies : n.call # goRx.call
    BY <2>1, GoPlace
  <2>4. \A n \in GivenGo : n # goRx'
    BY <2>1 DEF Handlers, TypeOK
  <2>5. \A d : Popped(d)' = Popped(d)
    BY <2>1, <2>4 DEF Popped
  <2> HIDE DEF m
  <2>6. TypeOK'
    BY <2>1, <2>2 DEF TypeOK
  <2>7. Handlers' /\ CallsRing'
    BY <2>1 DEF Handlers, CallsRing, IsSent
  <2>8. Goroutines'
    BY <2>1, <2>4 DEF Goroutines
  <2>9. RepliesRing'
    BY <2>1, <2>2, <2>3, <2>4 DEF RepliesRing
  <2>10. Responses'
    BY <2>1, <2>2, <2>5 DEF Responses
  <2> QED BY <1>a, <2>6, <2>7, <2>8, <2>9, <2>10
<1>4. CASE GoPop
  <2> DEFINE c == goRx.call
  <2>1. /\ goRx \in GivenGo /\ goRx \in Message /\ goRx.flag = "drop" /\ goRx # NoMsg
        /\ goRx' = NoMsg
        /\ UNCHANGED <<rings, rustSide, go, runs>>
        /\ GivenGo' = GivenGo /\ GivenRust' = GivenRust
    BY <1>4, RingSteps DEF GoPop, Handlers, TypeOK
  <2>2. c \in Calls /\ goRx.user \in Keys /\ store[goRx.user] = c /\ ~Popped(c)
    BY <2>1, GoPlace DEF Message
  <2>3. /\ store' = [store EXCEPT ![goRx.user] = NoCall]
        /\ response' = [d \in Calls |-> IF c = d THEN "freed" ELSE response[d]]
    BY <1>4, <2>2 DEF GoPop
  <2>4. \A n \in GivenGo : n # goRx'
    BY <2>1 DEF Handlers, TypeOK
  <2>5. \A d : Popped(d)' <=> Popped(d) \/ d = c
    BY <2>1, <2>4 DEF Popped
  <2> HIDE DEF c
  <2>6. TypeOK'
    BY <2>1, <2>2, <2>3 DEF TypeOK
  <2>7. Handlers' /\ CallsRing'
    BY <2>1 DEF Handlers, CallsRing, IsSent
  <2>8. Goroutines' /\ RepliesRing'
    BY <2>1, <2>4 DEF Goroutines, RepliesRing
  <2>9. Responses'
    BY <2>1, <2>2, <2>3, <2>5 DEF Responses, TypeOK, RepliesRing
  <2> QED BY <1>a, <2>6, <2>7, <2>8, <2>9
<1>5. ASSUME NEW c \in Calls, GoRoutine(c)
      PROVE  CallInv'
  <2>1. /\ UNCHANGED <<calls, called, replied, rustSide, goRx>>
        /\ GivenGo' = GivenGo /\ GivenRust' = GivenRust
    BY <1>5, RingSteps DEF GoRoutine, GoRun, GoStore, GoReply
  <2>2. Handlers' /\ CallsRing'
    <3>1. replies \subseteq replies'
      BY <1>5, RingSteps DEF GoRoutine, GoRun, GoStore, GoReply
    <3> QED BY <2>1, <3>1 DEF Handlers, CallsRing, IsSent
  <2>3. \A d : Popped(d)' = Popped(d)
    BY <2>1 DEF Popped
  <2>4. c \notin OneWay /\ go[c] # "done" /\ ~Popped(c) /\ \A n \in replies : n.call # c
    <3>1. c \notin OneWay /\ go[c] # "done"
      BY <1>5 DEF GoRoutine, GoRun, GoStore, GoReply, Goroutines
    <3> QED BY <3>1, GoPlace
  <2>5. CASE GoRun(c)
    <3>1. TypeOK'
      BY <2>1, <2>5 DEF GoRun, TypeOK
    <3>2. Goroutines' /\ RepliesRing'
      BY <2>1, <2>4, <2>5 DEF GoRun, Goroutines, RepliesRing, TypeOK, Message
    <3>3. Responses'
      BY <2>1, <2>3, <2>4, <2>5 DEF GoRun, Responses, TypeOK
    <3> QED BY <1>a, <2>2, <3>1, <3>2, <3>3
  <2>6. CASE GoStore(c)
    <3>1. PICK k \in Keys : store[k] = NoCall /\ store' = [store EXCEPT ![k] = c]
      BY <2>6 DEF GoStore, GoSlab!Put
    <3>2. TypeOK'
      BY <2>1, <2>6, <3>1 DEF GoStore, TypeOK
    <3>3. Goroutines' /\ RepliesRing'
      BY <2>1, <2>4, <2>6 DEF GoStore, Goroutines, RepliesRing, TypeOK, Message
    <3>4. Responses'
      <4>1. /\ go[c] = "storing" /\ go'[c] = "replying" /\ \A d \in Calls \ {c} : go'[d] = go[d]
            /\ response' = response /\ replies' = replies
        BY <2>1, <2>6 DEF GoStore, TypeOK
      <4>2. \A l \in Keys : store[l] # c
        BY <4>1 DEF Responses
      <4>3. \A l \in Keys : store'[l] = IF l = k THEN c ELSE store[l]
        BY <3>1 DEF TypeOK
      <4>4. \A l \in Keys : store[l] \in Calls \cup {NoCall}
        BY DEF TypeOK
      <4>5. \A l, l2 \in Keys : store'[l] = store'[l2] /\ store'[l] # NoCall => l = l2
        BY <4>2, <4>3 DEF Responses
      <4>6. \A l \in Keys : store'[l] # NoCall =>
              go'[store'[l]] \in {"replying", "done"} /\ ~Popped(store'[l])
        BY <2>4, <4>1, <4>3, <4>4 DEF Responses
      <4>7. \A n \in replies : n.flag = "reply" /\ ~Popped(n.call) => store'[n.next] = n.call
        <5> SUFFICES ASSUME NEW n \in replies, n.flag = "reply", ~Popped(n.call)
                     PROVE  store'[n.next] = n.call
          OBVIOUS
        <5>1. store[n.next] = n.call /\ n.call \in Calls /\ n.next \in Keys
          BY DEF Responses, RepliesRing, TypeOK, Message
        <5> QED BY <3>1, <4>3, <5>1
      <4>8. \A d \in Calls :
              response[d] = "held" <=> go'[d] \in {"storing", "replying", "done"} /\ ~Popped(d)
        BY <2>4, <4>1 DEF Responses
      <4> QED BY <2>3, <4>1, <4>5, <4>6, <4>7, <4>8 DEF Responses
    <3> QED BY <1>a, <2>2, <3>2, <3>3, <3>4
  <2>7. CASE GoReply(c)
    <3>1. PICK m \in GivenGo, k \in Keys :
            /\ m.flag = "call" /\ m.call = c /\ store[k] = c
            /\ ToRust!Send(Msg("reply", c, m.user, k))
      BY <2>7 DEF GoReply, GivenGo
    <3> DEFINE r == Msg("reply", c, m.user, k)
    <3>2. replies' = replies \cup {r}
      BY <3>1, RingSteps
    <3>3. m # goRx /\ m \in Message
      <4>1. go[c] # "none" /\ m \in calls /\ m \in Message
        BY <2>7, <3>1 DEF GoReply, Handlers, TypeOK
      <4>2. PICK n \in GivenGo : n.flag = "call" /\ n.call = c /\ n # goRx
        BY <4>1 DEF Goroutines
      <4>3. m = n
        BY <3>1, <4>1, <4>2 DEF Handlers, CallsRing
      <4> QED BY <4>1, <4>2, <4>3
    <3>4. r \in Message /\ r.flag = "reply" /\ r.call = c /\ r.user = m.user /\ r.next = k
      BY <3>3 DEF Msg, Message
    <3> HIDE DEF r
    <3>5. TypeOK'
      BY <2>1, <2>7, <3>2, <3>4 DEF GoReply, TypeOK
    <3>6. Goroutines'
      BY <2>1, <2>7 DEF GoReply, Goroutines, TypeOK
    <3>7. RepliesRing'
      <4>1. \A n, o \in replies' : n.call = o.call => n = o
        BY <2>4, <3>2, <3>4 DEF RepliesRing
      <4>2. go'[c] = "done" /\ (\A d \in Calls \ {c} : go'[d] = go[d]) /\ goRx' = goRx
        BY <2>1, <2>7 DEF GoReply, TypeOK
      <4>3. ASSUME NEW n \in replies
            PROVE  /\ \E o \in GivenGo : /\ o.flag = "call" /\ o.call = n.call
                                          /\ o.user = n.user /\ o # goRx
                   /\ n.call \in OneWay => n.flag = "drop"
                   /\ n.call \notin OneWay => /\ n.flag = "reply" /\ go'[n.call] = "done"
                                              /\ n.next \in Keys
        <5>1. n.call \in Calls \ {c}
          BY <2>4 DEF TypeOK, Message
        <5> QED BY <4>2, <5>1 DEF RepliesRing
      <4> QED BY <2>1, <2>4, <3>1, <3>2, <3>3, <3>4, <4>1, <4>2, <4>3 DEF RepliesRing
    <3>8. Responses'
      BY <2>1, <2>3, <2>4, <2>7, <3>1, <3>2, <3>4 DEF GoReply, Responses, TypeOK
    <3> QED BY <1>a, <2>2, <3>5, <3>6, <3>7, <3>8
  <2> QED BY <1>5, <2>5, <2>6, <2>7 DEF GoRoutine
<1> QED BY <1>1, <1>2, <1>3, <1>4, <1>5 DEF GoReader
-----------------------------------------------------------------------------
(* One step of the handler in Rust *)

\* What is known of the message the handler is at.
LEMMA RustPlace ==
  ASSUME CallInv, rx # NoMsg
  PROVE  /\ rx \in GivenRust /\ rx \in Message /\ rx.call \in Calls /\ rx.user \in Keys
         /\ \A n \in GivenRust : n.call = rx.call => n = rx
         /\ \A m \in calls : m.flag = "drop" => m.call # rx.call
         /\ ~Popped(rx.call) /\ IsSent(rx.call) /\ Began(rx.call)
         /\ Removed(rx.call) <=> rxPc # "remove"
         /\ Freed(rx.call) <=> rxPc = "ack"
         /\ rxPc = "remove" => slab[rx.user] = rx.call
         /\ rx.call \notin OneWay =>
              /\ rx.flag = "reply" /\ rx.next \in Keys
              /\ store[rx.next] = rx.call /\ response[rx.call] = "held"
<1> USE DEF CallInv
<1>1. /\ rx \in GivenRust /\ rx \in replies /\ rx \in Message
      /\ rx.call \in Calls /\ rx.user \in Keys
  BY DEF Handlers, TypeOK, Message
<1>2. \A n \in GivenRust : n.call = rx.call => n = rx
  BY <1>1 DEF Handlers, RepliesRing
<1>3. \A m \in calls : m.flag = "drop" => m.call # rx.call
  BY <1>2 DEF CallsRing
<1>4. ~Popped(rx.call)
  BY <1>3 DEF Popped, Handlers
<1>5. PICK m \in GivenGo : m.flag = "call" /\ m.call = rx.call /\ m.user = rx.user
  BY <1>1 DEF RepliesRing
<1>6. IsSent(rx.call) /\ Began(rx.call)
  BY <1>5 DEF Handlers, CallsRing, IsSent, Began
<1>7. (Removed(rx.call) <=> rxPc # "remove") /\ (Freed(rx.call) <=> rxPc = "ack")
  BY <1>1, <1>2 DEF Removed, Freed
<1>8. rxPc = "remove" => slab[rx.user] = rx.call
  BY <1>5, <1>7 DEF TaskDescs, Handlers
<1>9. rx.call \notin OneWay => /\ rx.flag = "reply" /\ rx.next \in Keys
                               /\ store[rx.next] = rx.call /\ response[rx.call] = "held"
  BY <1>1, <1>4 DEF RepliesRing, Responses
<1> QED BY <1>1, <1>2, <1>3, <1>4, <1>6, <1>7, <1>8, <1>9

\* run_handler's closure keeps the invariant.
LEMMA RustKeeps ==
  ASSUME CallInv, RustHandler
  PROVE  CallInv'
<1> USE DEF CallInv, goSide, rings
<1>1. CASE RustReceive
  <2>1. PICK m \in replies : ToRust!Deliver(m) /\ rx' = m
    BY <1>1 DEF RustReceive
  <2>2. /\ m \in Message /\ m \notin GivenRust /\ replies' = replies /\ replied' \in Seq(Message)
        /\ GivenRust' = GivenRust \cup {m} /\ GivenGo' = GivenGo
        /\ rx = NoMsg /\ rx' = m /\ rxPc = "idle" /\ rxPc' = "remove"
        /\ UNCHANGED <<calls, called, caller, slab, request, fut, value, desc, goSide>>
    BY <1>1, <2>1, RingSteps DEF RustReceive, RustGoto, TypeOK, Handlers
  <2>3. \A d : Popped(d)' = Popped(d)
    BY <2>2 DEF Popped
  <2>4. \A n \in GivenRust : n # NoMsg /\ n # m
    BY <2>2 DEF Handlers, TypeOK
  <2>5. \A d : Removed(d)' = Removed(d) /\ Freed(d)' = Freed(d)
    BY <2>2, <2>4 DEF Removed, Freed
  <2>6. TypeOK'
    BY <2>2 DEF TypeOK
  <2>7. Handlers'
    BY <2>2 DEF Handlers
  <2>8. CallsRing'
    BY <2>2, <2>4 DEF CallsRing, IsSent
  <2>9. Goroutines' /\ RepliesRing' /\ Responses'
    BY <2>2, <2>3 DEF Goroutines, RepliesRing, Responses
  <2>10. TaskDescs' /\ Requests'
    BY <2>2, <2>5 DEF TaskDescs, Requests, Began
  <2> QED BY <2>6, <2>7, <2>8, <2>9, <2>10
<1>2. ASSUME RustRemove \/ RustRead \/ RustSetResult \/ RustFree \/ RustAck
      PROVE  CallInv'
  <2>1. /\ rx # NoMsg /\ rxPc # "idle"
        /\ UNCHANGED <<called, replies, replied, caller, goSide>>
        /\ GivenGo' = GivenGo /\ GivenRust' = GivenRust
    BY <1>2, RingSteps DEF RustRemove, RustRead, RustSetResult, RustFree, RustAck, RustGoto, Handlers
  <2>2. \A d : Popped(d)' = Popped(d)
    BY <2>1 DEF Popped
  <2>3. Goroutines' /\ RepliesRing' /\ Responses'
    BY <2>1, <2>2 DEF Goroutines, RepliesRing, Responses
  <2> DEFINE c == rx.call
  <2>4. /\ rx \in GivenRust /\ c \in Calls /\ rx.user \in Keys
        /\ \A n \in GivenRust : n # NoMsg /\ (n.call = c <=> n = rx)
    BY <2>1, RustPlace DEF Handlers, TypeOK
  <2>5. rx' \in {rx, NoMsg}
    BY <1>2 DEF RustRemove, RustRead, RustSetResult, RustFree, RustAck
  <2> HIDE DEF c
  <2>6. CASE RustRemove
    <3>1. /\ rxPc = "remove" /\ desc' = c /\ slab' = [slab EXCEPT ![rx.user] = NoCall]
          /\ rxPc' = (IF c \in OneWay THEN "free" ELSE "read")
          /\ UNCHANGED <<calls, request, fut, value, rx>>
      BY <2>1, <2>6, RustPlace DEF RustRemove, RustGoto, c
    <3>2. slab[rx.user] = c
      BY <2>1, <3>1, RustPlace DEF c
    <3>3. \A d : (Removed(d)' <=> Removed(d) \/ d = c) /\ Freed(d)' = Freed(d)
      BY <2>1, <2>4, <3>1 DEF Removed, Freed
    <3>4. TypeOK'
      BY <2>1, <2>4, <3>1 DEF TypeOK
    <3>5. Handlers' /\ CallsRing' /\ Requests'
      BY <2>1, <3>1, <3>3 DEF Handlers, CallsRing, Requests, IsSent, Began, c
    <3>6. TaskDescs'
      BY <2>1, <2>4, <3>1, <3>2, <3>3 DEF TaskDescs, Began, TypeOK, Message
    <3> QED BY <2>3, <3>4, <3>5, <3>6
  <2>7. CASE RustRead \/ RustSetResult
    <3>1. /\ rxPc \in {"read", "result"} /\ rxPc' \in {"result", "free"} /\ desc = c
          /\ rxPc = "read" => rxPc' = "result"
          /\ UNCHANGED <<calls, slab, request, rx, desc>>
      BY <2>7 DEF RustRead, RustSetResult, RustGoto, Handlers, c
    <3>2. TypeOK'
      BY <2>1, <2>4, <2>7, <3>1 DEF RustRead, RustSetResult, TypeOK, c
    <3>3. \A d \in Calls : /\ IsSent(d)' = IsSent(d) /\ Began(d)' = Began(d)
                           /\ fut'[d] = "calling" <=> fut[d] = "calling"
      BY <2>4, <2>7, <3>1 DEF RustRead, RustSetResult, TypeOK, IsSent, Began
    <3>4. \A d : Removed(d)' = Removed(d) /\ Freed(d)' = Freed(d)
      BY <2>1, <3>1 DEF Removed, Freed
    <3>5. Handlers' /\ CallsRing'
      BY <2>1, <3>1, <3>3 DEF Handlers, CallsRing, TypeOK, Message, c
    <3>6. TaskDescs' /\ Requests'
      BY <2>1, <3>1, <3>3, <3>4 DEF TaskDescs, Requests, TypeOK, Message
    <3> QED BY <2>3, <3>2, <3>5, <3>6
  <2>8. CASE RustFree
    <3>1. /\ rxPc = "free" /\ desc = c /\ desc' = NoCall
          /\ rxPc' = (IF c \in OneWay THEN "idle" ELSE "ack")
          /\ rx' = (IF c \in OneWay THEN NoMsg ELSE rx)
          /\ request' = [request EXCEPT ![c] = {}]
          /\ UNCHANGED <<calls, slab, fut, value>>
      BY <2>8 DEF RustFree, RustGoto, Handlers, c
    <3>2. \A d : (Freed(d)' <=> Freed(d) \/ d = c) /\ Removed(d)' = Removed(d)
      BY <2>1, <2>4, <3>1 DEF Removed, Freed
    <3>3. TypeOK'
      BY <2>1, <2>4, <3>1 DEF TypeOK
    <3>4. Handlers' /\ CallsRing'
      BY <2>1, <2>4, <3>1 DEF Handlers, CallsRing, IsSent, c
    <3>5. TaskDescs' /\ Requests'
      BY <2>1, <2>4, <3>1, <3>2 DEF TaskDescs, Requests, Began, TypeOK, Message
    <3> QED BY <2>3, <3>3, <3>4, <3>5
  <2>9. CASE RustAck
    <3> DEFINE m == Msg("drop", rx.call, rx.next, NoKey)
    <3>1. /\ rxPc = "ack" /\ rxPc' = "idle" /\ rx' = NoMsg /\ calls' = calls \cup {m}
          /\ UNCHANGED <<slab, request, fut, value, desc>>
      BY <2>9, RingSteps DEF RustAck, RustGoto
    <3>2. rx.flag = "reply" /\ rx.next \in Keys
      BY <2>1, <3>1, RustPlace DEF Handlers
    <3>3. m \in Message /\ m.flag = "drop" /\ m.call = c /\ m.user = rx.next
      BY <2>4, <3>2 DEF Message, Msg, c
    <3> HIDE DEF m
    <3>4. \A n \in calls : n.flag = "drop" => n.call # c
      BY <2>1, RustPlace DEF c
    <3>5. \A d : Removed(d)' = Removed(d) /\ Freed(d)' = Freed(d)
      BY <2>1, <2>4, <3>1 DEF Removed, Freed
    <3>6. TypeOK'
      BY <2>1, <3>1, <3>3 DEF TypeOK
    <3>7. Handlers'
      BY <2>1, <3>1 DEF Handlers
    <3>8. CallsRing'
      BY <2>1, <2>4, <3>1, <3>2, <3>3, <3>4 DEF CallsRing, IsSent
    <3>9. TaskDescs' /\ Requests'
      BY <2>1, <3>1, <3>3, <3>5 DEF TaskDescs, Requests, Began
    <3> QED BY <2>3, <3>6, <3>7, <3>8, <3>9
  <2> QED BY <1>2, <2>6, <2>7, <2>8, <2>9
<1> QED BY <1>1, <1>2 DEF RustHandler
-----------------------------------------------------------------------------
(* Theorems *)

\* The invariant holds in every reachable state.
THEOREM CallInvariant == Spec => []CallInv
<1>1. Init => CallInv
  BY InitCalls
<1>2. CallInv /\ [Next]_vars => CallInv'
  <2> SUFFICES ASSUME CallInv, [Next]_vars PROVE CallInv'
    OBVIOUS
  <2>1. CASE GoReader \/ \E c \in Calls : GoRoutine(c)
    BY <2>1, GoKeeps
  <2>2. CASE RustHandler
    BY <2>2, RustKeeps
  <2>3. CASE \E c \in Calls : CallerStep(c)
    BY <2>3, CallerKeeps
  <2>4. CASE UNCHANGED vars
    <3> USE <2>4 DEF vars, rings, rustSide, goSide, CallInv
    <3>1. GivenGo' = GivenGo /\ GivenRust' = GivenRust
      BY DEF GivenGo, GivenRust, ToGo!Delivered, ToRust!Delivered
    <3>2. TypeOK' /\ Handlers' /\ CallsRing' /\ Goroutines' /\ RepliesRing'
      BY <3>1 DEF TypeOK, Handlers, CallsRing, Goroutines, RepliesRing, IsSent
    <3>3. TaskDescs' /\ Requests' /\ Responses'
      BY <3>1 DEF TaskDescs, Requests, Responses, Began, Removed, Freed, Popped
    <3> QED BY <3>2, <3>3
  <2> QED BY <2>1, <2>2, <2>3, <2>4 DEF Next
<1> QED BY <1>1, <1>2, PTL DEF Spec

\* Messages, keys and positions stay in their sets: the handler is never at a
\* reply without a key in Go's slab, or given a message nobody could have sent.
THEOREM TypeCorrect == Spec => []TypeOK
<1>1. CallInv => TypeOK
  BY DEF CallInv
<1> QED BY <1>1, CallInvariant, PTL

\* A key that crosses a ring still stands for its call when it is looked up.
THEOREM KeysAlwaysMatch == Spec => []KeysMatch
<1>1. CallInv => KeysMatch
  BY RustPlace, GoPlace DEF KeysMatch, CallInv, Handlers
<1> QED BY <1>1, CallInvariant, PTL

\* Go reads a request, and Rust what a response refers to in it, only while all
\* of it is in memory.
THEOREM RequestOutlivesReaders == Spec => []RequestAlive
<1>1. CallInv => RequestAlive
  <2> SUFFICES ASSUME CallInv, NEW c \in Calls, ReadsRequest(c) PROVE request[c] = Whole
    BY DEF RequestAlive
  <2> USE DEF CallInv
  <2>1. CASE goRx # NoMsg /\ goRx.flag = "call" /\ goRx.call = c /\ c \notin OneWay
    <3>1. IsSent(c)
      BY <2>1 DEF Handlers, CallsRing
    <3>2. ~Freed(c)
      BY <2>1, GoPlace DEF Freed, Handlers
    <3> QED BY <2>1, <3>1, <3>2 DEF Requests, IsSent, Began
  <2>2. CASE go[c] = "running"
    <3>1. c \notin OneWay /\ IsSent(c)
      BY <2>2 DEF Goroutines, Handlers, CallsRing
    <3>2. ~Freed(c)
      BY <2>2, <3>1, GoPlace DEF Freed, Handlers
    <3> QED BY <3>1, <3>2 DEF Requests, IsSent, Began
  <2>3. CASE rxPc = "read" /\ rx.call = c
    <3>1. rx # NoMsg /\ c \notin OneWay
      BY <2>3 DEF Handlers
    <3> QED BY <2>3, <3>1, RustPlace DEF Requests
  <2> QED BY <2>1, <2>2, <2>3 DEF ReadsRequest
<1> QED BY <1>1, CallInvariant, PTL

\* Rust copies a response only while Go's slab keeps it reachable.
THEOREM ResponseOutlivesReader == Spec => []ResponseAlive
<1>1. CallInv => ResponseAlive
  BY RustPlace DEF ResponseAlive, CallInv, Handlers
<1> QED BY <1>1, CallInvariant, PTL
-----------------------------------------------------------------------------
(* Nothing is kept *)

\* The other direction of CallInv: what has happened to a call has left behind
\* what comes next.
Chain ==
  /\ \A c \in Calls : IsSent(c) => \E m \in calls : m.flag = "call" /\ m.call = c
  /\ \A m \in GivenGo : m.flag = "call" /\ m # goRx =>
       IF m.call \in OneWay THEN \E n \in replies : n.call = m.call ELSE go[m.call] # "none"
  /\ \A c \in Calls : go[c] = "done" => \E n \in replies : n.call = c
  /\ \A n \in GivenRust : n.call \notin OneWay /\ n # rx =>
       \E m \in calls : m.flag = "drop" /\ m.call = n.call

\* A step of the caller adds to it by pushing the call.
LEMMA CallerChains ==
  ASSUME CallInv, Chain, NEW c \in Calls, CallerStep(c)
  PROVE  Chain'
<1> USE DEF CallInv, goSide, rings
<1>1. /\ UNCHANGED <<replies, rx, goSide>> /\ calls \subseteq calls'
      /\ GivenGo' = GivenGo /\ GivenRust' = GivenRust
  BY RingSteps DEF CallerStep, Insert, SendCall, Poll, DropFut
<1>2. ASSUME NEW d \in Calls, IsSent(d)'
      PROVE  \E m \in calls' : m.flag = "call" /\ m.call = d
  <2>1. CASE IsSent(d)
    BY <1>1, <2>1 DEF Chain
  <2>2. CASE ~IsSent(d)
    <3>1. d = c /\ SendCall(c)
      BY <1>2, <2>2 DEF CallerStep, Insert, SendCall, Poll, DropFut, IsSent, TypeOK
    <3>2. PICK k \in Keys : ToGo!Send(Msg("call", c, k, NoKey))
      BY <3>1 DEF SendCall
    <3> QED BY <3>1, <3>2, RingSteps DEF Msg
  <2> QED BY <2>1, <2>2
<1> QED BY <1>1, <1>2 DEF Chain

\* A step of Go adds the goroutine, or the reply.
LEMMA GoChains ==
  ASSUME CallInv, Chain, GoReader \/ \E c \in Calls : GoRoutine(c)
  PROVE  Chain'
<1> USE DEF CallInv, rustSide, rings
<1>1. /\ UNCHANGED <<fut, rx>> /\ calls' = calls /\ replies \subseteq replies'
      /\ GivenRust' = GivenRust
  BY RingSteps DEF GoReader, GoReceive, GoStart, GoAck, GoPop, GoRoutine, GoRun, GoStore, GoReply
<1>2. \A m \in GivenGo : m # NoMsg /\ m.call \in Calls
  BY DEF Handlers, TypeOK, Message
<1>3. CASE GoReceive
  <2>1. PICK m \in calls : ToGo!Deliver(m) /\ goRx' = m
    BY <1>3 DEF GoReceive
  <2>2. GivenGo' = GivenGo \cup {m} /\ goRx = NoMsg /\ UNCHANGED <<replies, go>>
    BY <1>3, <2>1, RingSteps DEF GoReceive
  <2>3. \A n \in GivenGo : n # m
    BY <2>1, RingSteps
  <2>4. ASSUME NEW n \in GivenGo', n.flag = "call", n # goRx'
        PROVE  n \in GivenGo /\ n # goRx
    BY <1>2, <2>1, <2>2, <2>4
  <2>5. ASSUME NEW n \in GivenGo', n.flag = "call", n # goRx'
        PROVE  IF n.call \in OneWay THEN \E o \in replies' : o.call = n.call
                                    ELSE go'[n.call] # "none"
    BY <2>2, <2>4, <2>5 DEF Chain
  <2>6. \A d \in Calls : IsSent(d)' => IsSent(d)
    BY <1>1 DEF IsSent
  <2> QED BY <1>1, <2>2, <2>5, <2>6 DEF Chain
<1>4. CASE GoStart \/ GoAck \/ GoPop
  <2>1. /\ GivenGo' = GivenGo /\ goRx' = NoMsg /\ goRx # NoMsg /\ goRx.call \in Calls
    BY <1>4, RingSteps DEF GoStart, GoAck, GoPop, TypeOK, Message
  <2>2. goRx.flag = "call" => IF goRx.call \in OneWay THEN \E n \in replies' : n.call = goRx.call
                                                      ELSE go'[goRx.call] = "running"
    <3>1. CASE GoStart \/ GoPop
      BY <2>1, <3>1 DEF GoStart, GoPop, TypeOK
    <3>2. CASE GoAck
      <4>1. replies' = replies \cup {Msg("drop", goRx.call, goRx.user, NoKey)}
        BY <3>2, RingSteps DEF GoAck
      <4>2. Msg("drop", goRx.call, goRx.user, NoKey).call = goRx.call
        BY DEF Msg
      <4> QED BY <3>2, <4>1, <4>2 DEF GoAck
    <3> QED BY <1>4, <3>1, <3>2
  <2>3. \A d \in Calls : go'[d] \in {go[d], "running"}
    BY <1>4, <2>1 DEF GoStart, GoAck, GoPop, TypeOK
  <2>4. ASSUME NEW n \in GivenGo', n.flag = "call", n # goRx'
        PROVE  IF n.call \in OneWay THEN \E o \in replies' : o.call = n.call
                                    ELSE go'[n.call] # "none"
    <3>1. n \in GivenGo /\ n.call \in Calls
      BY <1>2, <2>1, <2>4
    <3>2. CASE n = goRx
      BY <2>2, <2>4, <3>2
    <3>3. CASE n # goRx
      <4>1. IF n.call \in OneWay THEN \E o \in replies : o.call = n.call ELSE go[n.call] # "none"
        BY <2>4, <3>1, <3>3 DEF Chain
      <4> QED BY <1>1, <2>3, <3>1, <4>1
    <3> QED BY <3>2, <3>3
  <2>5. ASSUME NEW d \in Calls, go'[d] = "done" PROVE \E n \in replies' : n.call = d
    <3>1. go[d] = "done"
      BY <2>3, <2>5
    <3> QED BY <1>1, <3>1 DEF Chain
  <2>6. \A d \in Calls : IsSent(d)' => IsSent(d)
    BY <1>1 DEF IsSent
  <2> QED BY <1>1, <2>4, <2>5, <2>6 DEF Chain
<1>5. ASSUME NEW c \in Calls, GoRoutine(c)
      PROVE  Chain'
  <2>1. GivenGo' = GivenGo /\ goRx' = goRx
    BY <1>5, RingSteps DEF GoRoutine, GoRun, GoStore, GoReply
  <2>2. go'[c] # "none" /\ \A d \in Calls \ {c} : go'[d] = go[d]
    BY <1>5 DEF GoRoutine, GoRun, GoStore, GoReply, TypeOK
  <2>3. go'[c] = "done" => \E n \in replies' : n.call = c
    <3>1. CASE GoRun(c) \/ GoStore(c)
      BY <3>1 DEF GoRun, GoStore, TypeOK
    <3>2. CASE GoReply(c)
      <4>1. PICK m \in Message, k \in Keys : ToRust!Send(Msg("reply", c, m.user, k))
        BY <3>2 DEF GoReply, GivenGo, Handlers, TypeOK
      <4>2. replies' = replies \cup {Msg("reply", c, m.user, k)}
        BY <4>1, RingSteps
      <4>3. Msg("reply", c, m.user, k).call = c
        BY DEF Msg
      <4> QED BY <4>2, <4>3
    <3> QED BY <1>5, <3>1, <3>2 DEF GoRoutine
  <2>4. ASSUME NEW n \in GivenGo, n.flag = "call", n # goRx
        PROVE  IF n.call \in OneWay THEN \E o \in replies' : o.call = n.call
                                    ELSE go'[n.call] # "none"
    <3>1. IF n.call \in OneWay THEN \E o \in replies : o.call = n.call ELSE go[n.call] # "none"
      BY <2>4 DEF Chain
    <3> QED BY <1>1, <1>2, <2>2, <3>1
  <2>5. ASSUME NEW d \in Calls, go'[d] = "done" PROVE \E n \in replies' : n.call = d
    <3>1. d = c \/ go[d] = "done"
      BY <2>2, <2>5
    <3> QED BY <1>1, <2>3, <2>5, <3>1 DEF Chain
  <2>6. \A d \in Calls : IsSent(d)' => IsSent(d)
    BY <1>1 DEF IsSent
  <2> QED BY <1>1, <2>1, <2>4, <2>5, <2>6 DEF Chain
<1> QED BY <1>3, <1>4, <1>5 DEF GoReader

\* A step of the handler in Rust adds the drop message.
LEMMA RustChains ==
  ASSUME CallInv, Chain, RustHandler
  PROVE  Chain'
<1> USE DEF CallInv, goSide, rings
<1>1. /\ UNCHANGED <<replies, goSide>> /\ calls \subseteq calls' /\ GivenGo' = GivenGo
  BY RingSteps DEF RustHandler, RustReceive, RustRemove, RustRead, RustSetResult, RustFree, RustAck
<1>2. \A d \in Calls : IsSent(d)' = IsSent(d)
  BY DEF RustHandler, RustReceive, RustRemove, RustRead, RustSetResult, RustFree, RustAck, IsSent,
     TypeOK
<1>3. ASSUME NEW n \in GivenRust', n.call \notin OneWay, n # rx'
      PROVE  \E m \in calls' : m.flag = "drop" /\ m.call = n.call
  <2>1. n \in GivenRust /\ n # NoMsg
    BY <1>3, RingSteps DEF RustHandler, RustReceive, RustRemove, RustRead, RustSetResult, RustFree,
       RustAck, Handlers, TypeOK
  <2>2. CASE n # rx
    BY <1>1, <1>3, <2>1, <2>2 DEF Chain
  <2>3. CASE n = rx
    <3>1. RustAck
      BY <1>3, <2>1, <2>3 DEF RustHandler, RustReceive, RustRemove, RustRead, RustSetResult,
         RustFree, RustGoto, Handlers
    <3> QED BY <2>3, <3>1, RingSteps DEF RustAck, Msg
  <2> QED BY <2>2, <2>3
<1> QED BY <1>1, <1>2, <1>3 DEF Chain

\* Both directions together hold in every reachable state.
THEOREM ChainInvariant == Spec => [](CallInv /\ Chain)
<1>1. Init => Chain
  BY DEF Init, Chain, IsSent, GivenGo, GivenRust, ToGo!ChanInit, ToRust!ChanInit,
     ToGo!Delivered, ToRust!Delivered
<1>2. CallInv /\ Chain /\ [Next]_vars => Chain'
  <2> SUFFICES ASSUME CallInv, Chain, [Next]_vars PROVE Chain'
    OBVIOUS
  <2>1. CASE GoReader \/ \E c \in Calls : GoRoutine(c)
    BY <2>1, GoChains
  <2>2. CASE RustHandler
    BY <2>2, RustChains
  <2>3. CASE \E c \in Calls : CallerStep(c)
    BY <2>3, CallerChains
  <2>4. CASE UNCHANGED vars
    BY <2>4 DEF vars, rings, rustSide, goSide, Chain, IsSent, GivenGo, GivenRust,
       ToGo!Delivered, ToRust!Delivered
  <2> QED BY <2>1, <2>2, <2>3, <2>4 DEF Next
<1> QED BY <1>1, <1>2, CallInvariant, PTL DEF Spec

\* When nothing of a call is under way any more, nothing of it is kept.
THEOREM NothingLeaks == Spec => []NoLeak
<1>1. CallInv /\ Chain => NoLeak
  <2> SUFFICES ASSUME CallInv, Chain, NEW c \in Calls, ~UnderWay(c)
               PROVE  /\ request[c] = {} /\ response[c] # "held"
                      /\ \A k \in Keys : slab[k] # c /\ store[k] # c
    BY DEF NoLeak
  <2> USE DEF CallInv
  <2>0. c # NoCall
    OBVIOUS
  <2>1. /\ \A m \in calls : m.call = c => m \in GivenGo /\ m # goRx
        /\ \A n \in replies : n.call = c => n \in GivenRust /\ n # rx
        /\ go[c] \in {"none", "done"} /\ fut[c] # "calling"
    BY DEF UnderWay, InFlight, GivenGo, GivenRust, TypeOK, CallsRing
  <2>2. CASE ~IsSent(c)
    <3>1. ~Began(c) /\ \A m \in calls : m.flag = "call" => m.call # c
      BY <2>1, <2>2 DEF IsSent, Began, CallsRing
    <3>2. go[c] = "none"
      BY <3>1 DEF Goroutines, Handlers
    <3> QED BY <2>0, <3>1, <3>2 DEF Requests, TaskDescs, Responses
  <2>3. CASE IsSent(c)
    <3>1. PICK m \in GivenGo : m.flag = "call" /\ m.call = c /\ m # goRx
      BY <2>1, <2>3 DEF Chain
    <3>2. PICK n \in GivenRust : n.call = c /\ n # rx
      BY <2>1, <3>1 DEF Chain
    <3>3. Removed(c) /\ Freed(c)
      BY <3>2 DEF Removed, Freed
    <3>4. request[c] = {} /\ \A k \in Keys : slab[k] # c
      BY <2>0, <3>3 DEF Requests, TaskDescs
    <3>5. go[c] = "none" \/ Popped(c)
      BY <2>1, <3>2 DEF Chain, Goroutines, Popped
    <3>6. response[c] # "held" /\ \A k \in Keys : store[k] # c
      BY <2>0, <3>5 DEF Responses
    <3> QED BY <3>4, <3>6
  <2> QED BY <2>2, <2>3
<1> QED BY <1>1, ChainInvariant, PTL
-----------------------------------------------------------------------------
(* The refinement *)

\* The handler is past set_result with the reply to c.
Answered(c) ==
  \E n \in GivenRust : n.call = c /\ ~(rx = n /\ rxPc \in {"remove", "read", "result"})

\* What happened is said by where the call is.
History ==
  /\ \A c \in Calls : runs[c] = IF go[c] \in {"none", "running"} THEN 0 ELSE 1
  /\ \A c \in Calls : value[c] \in {c, NoCall} /\ (value[c] = c => Answered(c))

\* Pushing the call is Call, and nothing else of the caller's is visible.
LEMMA CallerMaps ==
  ASSUME CallInv, History, NEW c \in Calls, CallerStep(c)
  PROVE  History' /\ [R!RpcNext]_(R!rpcVars)
<1> USE DEF CallInv, goSide, rings
<1>1. /\ UNCHANGED <<runs, go, value, rx, rxPc>> /\ GivenRust' = GivenRust
  BY RingSteps DEF CallerStep, Insert, SendCall, Poll, DropFut
<1>2. History'
  BY <1>1 DEF History, Answered
<1>3. CASE SendCall(c)
  <2>1. fut[c] = "calling" /\ fut'[c] \in {"done", "runnable"}
        /\ \A d \in Calls \ {c} : fut'[d] = fut[d]
    BY <1>3 DEF SendCall, CallsRing, TypeOK
  <2> DEFINE made == {d \in Calls : fut[d] \notin {"none", "calling"}}
  <2>2. c \notin made /\ made' = made \cup {c}
    BY <2>1
  <2>3. R!Call(c)
    BY <1>1, <2>2 DEF R!Call
  <2> QED BY <1>2, <2>3 DEF R!RpcNext
<1>4. CASE Insert(c) \/ Poll(c) \/ DropFut(c)
  <2>1. \A d \in Calls : fut'[d] \in {"none", "calling"} <=> fut[d] \in {"none", "calling"}
    BY <1>4 DEF Insert, Poll, DropFut, TypeOK
  <2> DEFINE made == {d \in Calls : fut[d] \notin {"none", "calling"}}
  <2>2. made' = made
    BY <2>1
  <2> QED BY <1>1, <1>2, <2>2 DEF R!rpcVars
<1> QED BY <1>3, <1>4 DEF CallerStep

\* GoRun is Run, and nothing else of Go's is visible.
LEMMA GoMaps ==
  ASSUME CallInv, History, GoReader \/ \E c \in Calls : GoRoutine(c)
  PROVE  History' /\ [R!RpcNext]_(R!rpcVars)
<1> USE DEF CallInv, rustSide, rings
<1>1. UNCHANGED <<fut, value, rx, rxPc>> /\ GivenRust' = GivenRust
  BY RingSteps DEF GoReader, GoReceive, GoStart, GoAck, GoPop, GoRoutine, GoRun, GoStore, GoReply
<1>2. \A c \in Calls : value'[c] \in {c, NoCall} /\ (value'[c] = c => Answered(c)')
  BY <1>1 DEF History, Answered
<1>3. CASE GoReader
  <2>1. UNCHANGED runs
    BY <1>3 DEF GoReader, GoReceive, GoStart, GoAck, GoPop
  <2>2. \A d \in Calls : go'[d] \in {"none", "running"} <=> go[d] \in {"none", "running"}
    <3>1. CASE GoStart
      <4>1. go[goRx.call] = "none"
        BY <3>1, GoPlace DEF GoStart
      <4> QED BY <3>1, <4>1 DEF GoStart, TypeOK
    <3> QED BY <1>3, <3>1 DEF GoReader, GoReceive, GoAck, GoPop
  <2> QED BY <1>1, <1>2, <2>1, <2>2 DEF History, R!rpcVars
<1>4. ASSUME NEW c \in Calls, GoRun(c)
      PROVE  History' /\ R!RpcNext
  <2>1. /\ go[c] = "running" /\ go' = [go EXCEPT ![c] = "storing"]
        /\ runs' = [runs EXCEPT ![c] = @ + 1]
    BY <1>4 DEF GoRun
  <2>2. runs[c] = 0 /\ runs' = [runs EXCEPT ![c] = 1]
    <3>1. runs[c] = 0
      BY <2>1 DEF History
    <3>2. runs[c] + 1 = 1
      BY <3>1
    <3> QED BY <2>1, <3>1, <3>2
  <2>3. c \in {d \in Calls : fut[d] \notin {"none", "calling"}}
    BY <2>1 DEF Goroutines, Handlers, CallsRing, IsSent
  <2>4. R!Run(c)
    BY <1>1, <2>2, <2>3 DEF R!Run
  <2>5. History'
    BY <1>2, <2>1, <2>2 DEF History, TypeOK
  <2> QED BY <2>4, <2>5 DEF R!RpcNext
<1>5. ASSUME NEW c \in Calls, GoStore(c) \/ GoReply(c)
      PROVE  History' /\ UNCHANGED R!rpcVars
  <2>1. UNCHANGED runs
    BY <1>5 DEF GoStore, GoReply
  <2>2. \A d \in Calls : go'[d] \in {"none", "running"} <=> go[d] \in {"none", "running"}
    BY <1>5 DEF GoStore, GoReply, TypeOK
  <2> QED BY <1>1, <1>2, <2>1, <2>2 DEF History, R!rpcVars
<1> QED BY <1>3, <1>4, <1>5 DEF GoRoutine

\* RustSetResult is Return, and nothing else of the handler's is visible.
LEMMA RustMaps ==
  ASSUME CallInv, History, RustHandler
  PROVE  History' /\ [R!RpcNext]_(R!rpcVars)
<1> USE DEF CallInv, goSide, rings
<1>1. UNCHANGED <<go, runs>>
  BY DEF RustHandler, RustReceive, RustRemove, RustRead, RustSetResult, RustFree, RustAck
<1> DEFINE made == {d \in Calls : fut[d] \notin {"none", "calling"}}
<1>2. made' = made
  <2>1. \A d \in Calls : fut'[d] \in {"none", "calling"} <=> fut[d] \in {"none", "calling"}
    BY DEF RustHandler, RustReceive, RustRemove, RustRead, RustSetResult, RustFree, RustAck, TypeOK
  <2> QED BY <2>1
<1>3. CASE RustSetResult
  <2>1. /\ rxPc = "result" /\ rxPc' = "free" /\ rx' = rx /\ rx # NoMsg
        /\ value' = [value EXCEPT ![desc] = rx.call] /\ desc = rx.call /\ rx.call \notin OneWay
        /\ GivenRust' = GivenRust
    BY <1>3, RingSteps DEF RustSetResult, RustGoto, Handlers
  <2>2. PICK c \in Calls :
          c = rx.call /\ rx \in GivenRust /\ \A n \in GivenRust : n.call = c => n = rx
    BY <2>1, RustPlace
  <2>3. ~Answered(c) /\ \A d \in Calls : Answered(d) => Answered(d)'
    BY <2>1, <2>2 DEF Answered
  <2>4. Answered(c)'
    BY <2>1, <2>2 DEF Answered
  <2>5. go[c] = "done"
    BY <2>1, <2>2 DEF Handlers, RepliesRing
  <2>6. value' = [value EXCEPT ![c] = c]
    BY <2>1, <2>2
  <2>7. History'
    <3>1. \A d \in Calls : runs'[d] = IF go'[d] \in {"none", "running"} THEN 0 ELSE 1
      BY <1>1 DEF History
    <3>2. \A d \in Calls : value'[d] = IF d = c THEN c ELSE value[d]
      BY <2>6 DEF TypeOK
    <3>3. \A d \in Calls : value'[d] \in {d, NoCall} /\ (value'[d] = d => Answered(d)')
      <4> SUFFICES ASSUME NEW d \in Calls
                   PROVE  value'[d] \in {d, NoCall} /\ (value'[d] = d => Answered(d)')
        OBVIOUS
      <4>1. CASE d = c
        BY <2>4, <3>2, <4>1
      <4>2. CASE d # c
        BY <2>3, <3>2, <4>2 DEF History
      <4> QED BY <4>1, <4>2
    <3> QED BY <3>1, <3>3 DEF History
  <2>8. runs[c] = 1 /\ value[c] = NoCall
    BY <2>2, <2>3, <2>5 DEF History
  <2>9. R!Return(c)
    BY <1>1, <1>2, <2>6, <2>8 DEF R!Return
  <2> QED BY <2>2, <2>7, <2>9 DEF R!RpcNext
<1>4. CASE RustReceive \/ RustRemove \/ RustRead \/ RustFree \/ RustAck
  <2>1. UNCHANGED value
    BY <1>4 DEF RustReceive, RustRemove, RustRead, RustFree, RustAck
  <2>2. \A d \in Calls : Answered(d) => Answered(d)'
    <3>1. CASE RustReceive
      <4>1. PICK m \in replies : ToRust!Deliver(m) /\ rx' = m
        BY <3>1 DEF RustReceive
      <4>2. GivenRust' = GivenRust \cup {m} /\ \A n \in GivenRust : n # rx'
        BY <4>1, RingSteps
      <4> QED BY <4>2 DEF Answered
    <3>2. CASE RustRemove \/ RustRead \/ RustFree \/ RustAck
      <4>1. /\ GivenRust' = GivenRust /\ rx' \in {rx, NoMsg} /\ rx # NoMsg
            /\ rxPc' \in {"remove", "read", "result"} => rxPc \in {"remove", "read", "result"}
        BY <3>2, RingSteps DEF RustRemove, RustRead, RustFree, RustAck, RustGoto, Handlers
      <4>2. \A n \in GivenRust : n # NoMsg
        BY DEF Handlers, TypeOK
      <4> QED BY <4>1, <4>2 DEF Answered
    <3> QED BY <1>4, <3>1, <3>2
  <2>3. History'
    BY <1>1, <2>1, <2>2 DEF History
  <2> QED BY <1>1, <1>2, <2>1, <2>3 DEF R!rpcVars
<1> QED BY <1>3, <1>4 DEF RustHandler

\* Every step keeps History, and maps to a step of a remote call or to none.
LEMMA StepMaps ==
  ASSUME CallInv, History, [Next]_vars
  PROVE  History' /\ [R!RpcNext]_(R!rpcVars)
<1>1. CASE GoReader \/ \E c \in Calls : GoRoutine(c)
  BY <1>1, GoMaps
<1>2. CASE RustHandler
  BY <1>2, RustMaps
<1>3. CASE \E c \in Calls : CallerStep(c)
  BY <1>3, CallerMaps
<1>4. CASE UNCHANGED vars
  BY <1>4 DEF vars, rings, rustSide, goSide, History, Answered, GivenRust, ToRust!Delivered,
     R!rpcVars
<1> QED BY <1>1, <1>2, <1>3, <1>4 DEF Next

\* What happened is said by where the call is, in every reachable state.
THEOREM HistoryHolds == Spec => []History
<1>1. Init => History
  BY DEF Init, History, Answered
<1> QED BY <1>1, StepMaps, CallInvariant, PTL DEF Spec

\* Rings, slabs and handlers together are a remote call.
THEOREM CallsRefine == Spec => RpcSpec
<1>1. Init => R!RpcInit
  <2> SUFFICES ASSUME Init PROVE R!RpcInit
    OBVIOUS
  <2>1. {c \in Calls : fut[c] \notin {"none", "calling"}} = {}
    BY DEF Init
  <2> QED BY <2>1 DEF Init, R!RpcInit
<1> QED BY <1>1, StepMaps, HistoryHolds, CallInvariant, PTL DEF Spec, RpcSpec, R!RpcSpec

-----------------------------------------------------------------------------
(* Sleeping futures *)

\* A future that sleeps has not missed its value: its call is still under way,
\* and the handler of replies has yet to get to set_result.
SleepersWait ==
  \A c \in Calls : fut[c] = "parked" => UnderWay(c) /\ ~Answered(c) /\ value[c] = NoCall

\* The handler leaves a value when it is past set_result, and calls the waker
\* of whoever polled before.
ResultInv ==
  \A c \in Calls :
    /\ fut[c] \in {"runnable", "parked", "dropped"} => c \notin OneWay
    /\ fut[c] = "parked" => value[c] = NoCall
    /\ c \notin OneWay /\ Answered(c) => value[c] # NoCall

\* No step but set_result gives a value, and it wakes.
LEMMA StepResult ==
  ASSUME CallInv, ResultInv, [Next]_vars
  PROVE  ResultInv'
<1> USE DEF CallInv, TypeOK, ResultInv
<1>1. ASSUME NEW c \in Calls, CallerStep(c) PROVE ResultInv'
  <2>1. UNCHANGED <<value, rx, rxPc>> /\ GivenRust' = GivenRust
    BY <1>1, RingSteps DEF CallerStep, Insert, SendCall, Poll, DropFut, goSide, rings
  <2>2. \A d \in Calls : Answered(d)' <=> Answered(d)
    BY <2>1 DEF Answered
  <2>3. ASSUME NEW d \in Calls
        PROVE  /\ fut'[d] \in {"runnable", "parked", "dropped"} => d \notin OneWay
               /\ fut'[d] = "parked" => value[d] = NoCall
    BY <1>1 DEF CallerStep, Insert, SendCall, Poll, DropFut
  <2>4. QED
    BY <2>1, <2>2, <2>3
<1>2. CASE GoReader \/ \E c \in Calls : GoRoutine(c)
  <2>1. UNCHANGED <<fut, value, rx, rxPc>> /\ GivenRust' = GivenRust
    BY <1>2, RingSteps DEF GoReader, GoReceive, GoStart, GoAck, GoPop, GoRoutine, GoRun, GoStore,
       GoReply, rustSide, rings
  <2>2. QED
    BY <2>1 DEF Answered
<1>3. CASE RustHandler
  <2>1. CASE RustSetResult
    <3>1. rx \in GivenRust /\ rx \in Message /\ desc = rx.call /\ desc \in Calls /\ rxPc = "result"
          /\ GivenRust' = GivenRust /\ rx' = rx /\ rxPc' = "free"
      BY <2>1, RingSteps DEF RustSetResult, RustGoto, Handlers, Message, rings
    <3>2. \A d \in Calls \ {desc} : /\ value'[d] = value[d] /\ fut'[d] = fut[d]
                                    /\ Answered(d)' => Answered(d)
      BY <2>1, <3>1 DEF RustSetResult, Answered
    <3>3. value'[desc] # NoCall /\ fut'[desc] # "parked"
          /\ (fut'[desc] = "runnable" => fut[desc] \in {"runnable", "parked"})
          /\ (fut'[desc] = "dropped" => fut[desc] = "dropped")
      BY <2>1, <3>1, MemFfiAssumption DEF RustSetResult
    <3>4. QED
      BY <3>1, <3>2, <3>3
  <2>2. CASE ~RustSetResult
    <3>1. UNCHANGED <<fut, value>>
      BY <1>3, <2>2 DEF RustHandler, RustReceive, RustRemove, RustRead, RustFree, RustAck
    <3>2. ASSUME NEW c \in Calls, c \notin OneWay, Answered(c)' PROVE Answered(c)
      <4>1. CASE RustReceive
        <5>1. PICK m \in replies \ GivenRust : GivenRust' = GivenRust \cup {m} /\ rx' = m
              /\ rxPc' = "remove" /\ rx = NoMsg
          BY <4>1, RingSteps DEF RustReceive, RustGoto, Handlers
        <5>2. \A n \in GivenRust : n # NoMsg
          BY DEF Handlers
        <5>3. QED
          BY <3>2, <5>1, <5>2 DEF Answered
      <4>2. CASE RustRemove \/ RustRead
        <5>1. GivenRust' = GivenRust /\ rx' = rx /\ rxPc \in {"remove", "read"}
              /\ (rx.call \notin OneWay => rxPc' \in {"read", "result"})
          BY <4>2, RingSteps DEF RustRemove, RustRead, RustGoto, Handlers, rings
        <5>2. QED
          BY <3>2, <5>1 DEF Answered
      <4>3. CASE RustFree \/ RustAck
        <5>1. GivenRust' = GivenRust /\ rxPc \in {"free", "ack"}
          BY <4>3, RingSteps DEF RustFree, RustAck, RustGoto, rings
        <5>2. QED
          BY <3>2, <5>1 DEF Answered
      <4>4. QED
        BY <1>3, <2>2, <4>1, <4>2, <4>3 DEF RustHandler
    <3>3. QED
      BY <3>1, <3>2
  <2>3. QED
    BY <2>1, <2>2
<1>4. CASE UNCHANGED vars
  BY <1>4 DEF vars, rings, rustSide, goSide, Answered, GivenRust, ToRust!Delivered
<1>5. QED
  BY <1>1, <1>2, <1>3, <1>4 DEF Next

\* ResultInv holds in every reachable state.
THEOREM ResultInvariant == Spec => []ResultInv
<1>1. Init => ResultInv
  <2>1. Init => GivenRust = {} /\ \A c \in Calls : fut[c] = "none"
    BY DEF Init, GivenRust, ToRust!ChanInit, ToRust!Delivered
  <2>2. QED
    BY <2>1 DEF ResultInv, Answered
<1>2. QED
  BY <1>1, StepResult, CallInvariant, PTL DEF Spec

\* What Completes rests on: no interleaving of polls and the handler of replies
\* leaves a LocalFut asleep with its value there or with no value to come
\* (rust2go-mem-ffi/src/future.rs 32-38 and 55-73).
THEOREM NoSleeperForgotten == Spec => []SleepersWait
<1>1. CallInv /\ Chain /\ ResultInv => SleepersWait
  <2> SUFFICES ASSUME CallInv, Chain, ResultInv, NEW c \in Calls, fut[c] = "parked", ~UnderWay(c)
               PROVE  FALSE
    BY DEF SleepersWait, ResultInv
  <2> USE DEF CallInv
  <2>1. /\ \A m \in calls : m.call = c => m \in GivenGo /\ m # goRx
        /\ \A n \in replies : n.call = c => n \in GivenRust /\ n # rx
        /\ go[c] \in {"none", "done"}
    BY DEF UnderWay, InFlight, GivenGo, GivenRust, TypeOK
  <2>2. PICK m \in GivenGo : m.flag = "call" /\ m.call = c /\ m # goRx
    BY <2>1 DEF Chain, IsSent
  <2>3. PICK n \in GivenRust : n.call = c /\ n # rx
    BY <2>1, <2>2 DEF Chain
  <2>4. QED
    BY <2>3 DEF ResultInv, Answered
<1>2. QED
  BY <1>1, ResultInvariant, ChainInvariant, PTL
-----------------------------------------------------------------------------
(* Nobody is stuck *)

\* A call that is between push_slab and push, or between slab.Push and the
\* reply, has a key in the slab.
Keyed ==
  \A c \in Calls : /\ caller = c => \E k \in Keys : slab[k] = c
                   /\ go[c] = "replying" => \E k \in Keys : store[k] = c

\* The steps of Rust: the caller puts its key there, and the handler only takes
\* the keys of calls that were pushed.
LEMMA RustStepKeyed ==
  ASSUME CallInv, Keyed, RustHandler \/ \E c \in Calls : CallerStep(c)
  PROVE  Keyed'
<1> USE DEF CallInv, Keyed
<1>1. UNCHANGED <<go, store>>
  BY DEF RustHandler, RustReceive, RustRemove, RustRead, RustSetResult, RustFree, RustAck,
     CallerStep, Insert, SendCall, Poll, DropFut, goSide
<1>2. ASSUME NEW c \in Calls, CallerStep(c) PROVE Keyed'
  <2>1. CASE Insert(c)
    <3>1. PICK k \in Keys : RustSlab!Put(k, c)
      BY <2>1 DEF Insert
    <3>2. slab'[k] = c /\ caller' = c
      BY <2>1, <3>1 DEF Insert, RustSlab!Put, TypeOK
    <3>3. QED
      BY <1>1, <3>2
  <2>2. CASE SendCall(c)
    BY <1>1, <2>2 DEF SendCall
  <2>3. CASE Poll(c) \/ DropFut(c)
    BY <1>1, <2>3 DEF Poll, DropFut
  <2>4. QED
    BY <1>2, <2>1, <2>2, <2>3 DEF CallerStep
<1>3. CASE RustHandler
  <2>1. UNCHANGED caller
    BY <1>3 DEF RustHandler, RustReceive, RustRemove, RustRead, RustSetResult, RustFree, RustAck
  <2>2. CASE RustRemove
    <3>1. rx # NoMsg /\ rxPc = "remove"
      BY <2>2 DEF RustRemove, RustGoto, Handlers
    <3>2. slab[rx.user] = rx.call /\ IsSent(rx.call)
      BY <3>1, RustPlace
    <3>3. caller # rx.call
      BY <3>1, <3>2, RustPlace DEF CallsRing, IsSent
    <3>4. \A k \in Keys : slab[k] = caller => slab'[k] = caller
      BY <2>2, <3>2, <3>3 DEF RustRemove, TypeOK
    <3>5. QED
      BY <1>1, <2>1, <3>4
  <2>3. CASE ~RustRemove
    <3>1. UNCHANGED slab
      BY <1>3, <2>3 DEF RustHandler, RustReceive, RustRead, RustSetResult, RustFree, RustAck
    <3>2. QED
      BY <1>1, <2>1, <3>1
  <2>4. QED
    BY <2>2, <2>3
<1>4. QED
  BY <1>2, <1>3

\* The steps of Go: GoStore puts the key there, and GoPop takes the key of a
\* call whose goroutine is done.
LEMMA GoStepKeyed ==
  ASSUME CallInv, Keyed, GoReader \/ \E c \in Calls : GoRoutine(c)
  PROVE  Keyed'
<1> USE DEF CallInv, Keyed
<1>1. UNCHANGED <<caller, slab>>
  BY DEF GoReader, GoReceive, GoStart, GoAck, GoPop, GoRoutine, GoRun, GoStore, GoReply, rustSide
<1>2. CASE GoReceive \/ GoAck
  BY <1>1, <1>2 DEF GoReceive, GoAck
<1>3. CASE GoStart
  <2>1. store' = store /\ \A c \in Calls : go'[c] = "replying" => go[c] = "replying"
    BY <1>3 DEF GoStart, TypeOK
  <2>2. QED
    BY <1>1, <2>1
<1>4. CASE GoPop
  <2>1. goRx # NoMsg /\ goRx.flag = "drop" /\ goRx \in calls
    BY <1>4 DEF GoPop, Handlers
  <2>2. store[goRx.user] = goRx.call
    BY <2>1, GoPlace
  <2>3. PICK n \in GivenRust : n.flag = "reply" /\ n.call = goRx.call
    BY <2>1 DEF CallsRing
  <2>4. go[goRx.call] = "done"
    BY <2>3 DEF Handlers, RepliesRing
  <2>5. \A c \in Calls, k \in Keys : go[c] = "replying" /\ store[k] = c => store'[k] = c
    BY <1>4, <2>2, <2>4 DEF GoPop, TypeOK
  <2>6. UNCHANGED go
    BY <1>4 DEF GoPop
  <2>7. QED
    BY <1>1, <2>5, <2>6
<1>5. ASSUME NEW c \in Calls, GoRoutine(c) PROVE Keyed'
  <2>1. \A d \in Calls \ {c} : go'[d] = go[d]
    BY <1>5 DEF GoRoutine, GoRun, GoStore, GoReply, TypeOK
  <2>2. CASE GoStore(c)
    <3>1. PICK k \in Keys : GoSlab!Put(k, c)
      BY <2>2 DEF GoStore
    <3>2. store'[k] = c /\ \A l \in Keys : store[l] # NoCall => store'[l] = store[l]
      BY <3>1 DEF GoSlab!Put, TypeOK
    <3>3. \A d \in Calls \ {c} : go'[d] = "replying" => \E l \in Keys : store'[l] = d
      BY <2>1, <3>2
    <3>4. QED
      BY <1>1, <3>2, <3>3
  <2>3. CASE GoRun(c) \/ GoReply(c)
    <3>1. store' = store /\ go'[c] # "replying"
      BY <2>3 DEF GoRun, GoReply, TypeOK
    <3>2. QED
      BY <1>1, <2>1, <3>1
  <2>4. QED
    BY <1>5, <2>2, <2>3 DEF GoRoutine
<1>6. QED
  BY <1>2, <1>3, <1>4, <1>5 DEF GoReader

\* Keyed holds in every reachable state.
THEOREM KeyedInvariant == Spec => []Keyed
<1>1. Init => Keyed
  BY DEF Init, Keyed
<1>2. CallInv /\ Keyed /\ [Next]_vars => Keyed'
  <2> SUFFICES ASSUME CallInv, Keyed, [Next]_vars PROVE Keyed'
    OBVIOUS
  <2>1. CASE UNCHANGED vars
    BY <2>1 DEF vars, rustSide, goSide, Keyed
  <2>2. QED
    BY <2>1, RustStepKeyed, GoStepKeyed DEF Next
<1>3. QED
  BY <1>1, <1>2, CallInvariant, PTL DEF Spec

\* Wherever the code does not wait, the action that models what it does next has
\* its guard: the caller and the goroutine find the key they stored, remove finds
\* the key it was sent, and no push is of a message the ring has had before.
Unblocked ==
  /\ \A c \in Calls : caller = c =>
       \E k \in Keys : slab[k] = c /\ Msg("call", c, k, NoKey) \in Message \ calls
  /\ goRx # NoMsg =>
       \/ goRx.flag = "drop"
       \/ goRx.flag = "call" /\ Msg("drop", goRx.call, goRx.user, NoKey) \in Message \ replies
  /\ \A c \in Calls : go[c] = "replying" =>
       \E m \in GivenGo, k \in Keys :
         /\ m.flag = "call" /\ m.call = c /\ store[k] = c
         /\ Msg("reply", c, m.user, k) \in Message \ replies
  /\ rxPc = "remove" => slab[rx.user] # NoCall
  /\ rxPc = "ack" => Msg("drop", rx.call, rx.next, NoKey) \in Message \ calls

\* What is between two steps on the side of the caller or of the handler.
LEMMA RustUnblocked ==
  ASSUME CallInv, Keyed
  PROVE  /\ \A c \in Calls : caller = c =>
              \E k \in Keys : slab[k] = c /\ Msg("call", c, k, NoKey) \in Message \ calls
         /\ rxPc = "remove" => slab[rx.user] # NoCall
         /\ rxPc = "ack" => Msg("drop", rx.call, rx.next, NoKey) \in Message \ calls
<1> USE DEF CallInv
<1>1. ASSUME NEW c \in Calls, caller = c
      PROVE  \E k \in Keys : slab[k] = c /\ Msg("call", c, k, NoKey) \in Message \ calls
  <2>1. PICK k \in Keys : slab[k] = c
    BY <1>1 DEF Keyed
  <2>2. \A m \in calls : m.flag = "call" => m.call # c
    BY <1>1 DEF CallsRing, IsSent
  <2>3. Msg("call", c, k, NoKey) \in Message
        /\ Msg("call", c, k, NoKey).flag = "call" /\ Msg("call", c, k, NoKey).call = c
    BY DEF Msg, Message
  <2>4. QED
    BY <2>1, <2>2, <2>3
<1>2. ASSUME rxPc = "remove" PROVE slab[rx.user] # NoCall
  BY <1>2, RustPlace, MemFfiAssumption DEF Handlers
<1>3. ASSUME rxPc = "ack" PROVE Msg("drop", rx.call, rx.next, NoKey) \in Message \ calls
  <2>1. rx # NoMsg /\ rx.call \notin OneWay
    BY <1>3 DEF Handlers
  <2>2. rx.call \in Calls /\ rx.next \in Keys /\ \A m \in calls : m.flag = "drop" => m.call # rx.call
    BY <2>1, RustPlace
  <2>3. Msg("drop", rx.call, rx.next, NoKey) \in Message
        /\ Msg("drop", rx.call, rx.next, NoKey).flag = "drop"
        /\ Msg("drop", rx.call, rx.next, NoKey).call = rx.call
    BY <2>2 DEF Msg, Message
  <2>4. QED
    BY <2>2, <2>3
<1>4. QED
  BY <1>1, <1>2, <1>3

\* What is between two steps on the side of Go.
LEMMA GoUnblocked ==
  ASSUME CallInv, Keyed
  PROVE  /\ goRx # NoMsg =>
              \/ goRx.flag = "drop"
              \/ /\ goRx.flag = "call"
                 /\ Msg("drop", goRx.call, goRx.user, NoKey) \in Message \ replies
         /\ \A c \in Calls : go[c] = "replying" =>
              \E m \in GivenGo, k \in Keys :
                /\ m.flag = "call" /\ m.call = c /\ store[k] = c
                /\ Msg("reply", c, m.user, k) \in Message \ replies
<1> USE DEF CallInv
<1>1. ASSUME goRx # NoMsg, goRx.flag # "drop"
      PROVE  goRx.flag = "call" /\ Msg("drop", goRx.call, goRx.user, NoKey) \in Message \ replies
  <2>1. goRx.flag = "call"
    BY <1>1 DEF Handlers, CallsRing
  <2>2. goRx.call \in Calls /\ goRx.user \in Keys /\ \A n \in replies : n.call # goRx.call
    BY <1>1, <2>1, GoPlace DEF TypeOK, Message
  <2>3. Msg("drop", goRx.call, goRx.user, NoKey) \in Message
        /\ Msg("drop", goRx.call, goRx.user, NoKey).call = goRx.call
    BY <2>2 DEF Msg, Message
  <2>4. QED
    BY <2>1, <2>2, <2>3
<1>2. ASSUME NEW c \in Calls, go[c] = "replying"
      PROVE  \E m \in GivenGo, k \in Keys :
               /\ m.flag = "call" /\ m.call = c /\ store[k] = c
               /\ Msg("reply", c, m.user, k) \in Message \ replies
  <2>1. c \notin OneWay /\ \A n \in replies : n.call # c
    BY <1>2, GoPlace DEF Goroutines
  <2>2. PICK m \in GivenGo : m.flag = "call" /\ m.call = c
    BY <1>2 DEF Goroutines
  <2>3. PICK k \in Keys : store[k] = c
    BY <1>2 DEF Keyed
  <2>4. m.user \in Keys
    BY DEF Handlers, TypeOK, Message
  <2>5. Msg("reply", c, m.user, k) \in Message /\ Msg("reply", c, m.user, k).call = c
    BY <2>4 DEF Msg, Message
  <2>6. QED
    BY <2>1, <2>2, <2>3, <2>5
<1>3. QED
  BY <1>1, <1>2

\* No actor of a call ever stops in the middle for want of a key or of a message
\* that is its own; slab.remove never panics (rust2go-mem-ffi/src/lib.rs) and the
\* reply always has a key of the call to send back.  What an actor waits for is a
\* message, or a free key where a slab of the code would grow.
THEOREM NobodyStuck == Spec => []Unblocked
<1>1. CallInv /\ Keyed => Unblocked
  BY RustUnblocked, GoUnblocked DEF Unblocked
<1>2. QED
  BY <1>1, CallInvariant, KeyedInvariant, PTL

\* How a call is left: with a return value it ran once and its future has its
\* own response or was dropped; without one it returned and never ran.
Ended(c) ==
  IF c \in OneWay
  THEN runs[c] = 0 /\ fut[c] = "done"
  ELSE runs[c] = 1 /\ value[c] = c /\ fut[c] \in {"runnable", "done", "dropped"}
CallsEnd == \A c \in Calls : Began(c) /\ ~UnderWay(c) => Ended(c)

\* A call ends in no other way: when nothing of it is under way any more, whatever
\* came first of its messages and those of others, and whenever its future was
\* polled or dropped, it ran as often as Ended says and was given its response.
\* With NobodyStuck it is the part of Completes that no fairness is needed for.
THEOREM CallsEndAnswered == Spec => []CallsEnd
<1>1. CallInv /\ Chain /\ History /\ ResultInv => CallsEnd
  <2> SUFFICES ASSUME CallInv, Chain, History, ResultInv,
                      NEW c \in Calls, Began(c), ~UnderWay(c)
               PROVE  Ended(c)
    BY DEF CallsEnd
  <2> USE DEF CallInv
  <2>1. /\ \A m \in calls : m.call = c => m \in GivenGo /\ m # goRx
        /\ \A n \in replies : n.call = c => n \in GivenRust /\ n # rx
        /\ go[c] \in {"none", "done"} /\ fut[c] # "calling"
    BY DEF UnderWay, InFlight, GivenGo, GivenRust, TypeOK, CallsRing
  <2>2. IsSent(c)
    BY <2>1 DEF Began, IsSent
  <2>3. PICK m \in GivenGo : m.flag = "call" /\ m.call = c /\ m # goRx
    BY <2>1, <2>2 DEF Chain
  <2>4. PICK n \in GivenRust : n.call = c /\ n # rx
    BY <2>1, <2>3 DEF Chain
  <2>5. CASE c \in OneWay
    <3>1. go[c] = "none"
      BY <2>5 DEF Goroutines
    <3>2. runs[c] = 0
      BY <3>1 DEF History
    <3>3. fut[c] = "done"
      BY <2>2, <2>5 DEF IsSent, ResultInv, TypeOK
    <3>4. QED
      BY <2>5, <3>2, <3>3 DEF Ended
  <2>6. CASE c \notin OneWay
    <3>1. go[c] = "done"
      BY <2>1, <2>3, <2>6 DEF Chain
    <3>2. runs[c] = 1
      BY <3>1 DEF History
    <3>3. value[c] = c
      BY <2>4, <2>6 DEF History, ResultInv, Answered
    <3>4. fut[c] \in {"runnable", "done", "dropped"}
      BY <2>2, <3>3, MemFfiAssumption DEF IsSent, ResultInv, TypeOK
    <3>5. QED
      BY <2>6, <3>2, <3>3, <3>4 DEF Ended
  <2>7. QED
    BY <2>5, <2>6
<1>2. QED
  BY <1>1, ChainInvariant, HistoryHolds, ResultInvariant, PTL
=============================================================================
