------------------------------ MODULE Channel ------------------------------
(***************************************************************************)
(* What one direction of the shared-memory transport promises to the two   *)
(* ends: every item handed to push is delivered to the peer's handler at   *)
(* most once, and nothing is delivered that was not sent.  Items may       *)
(* overtake each other: a push that finds room goes into the ring ahead of *)
(* the tasks that wait in the pending list.                                *)
(*                                                                         *)
(* Whether an item that was sent is eventually delivered is not part of    *)
(* this contract; see the liveness properties of MemRing and GoRing.       *)
(***************************************************************************)
LOCAL INSTANCE Sequences
LOCAL INSTANCE Naturals

CONSTANT Items      \* everything that may be sent

VARIABLES sent,      \* the set of items handed to push so far
          delivered  \* the items given to the handler, in that order

chanVars == <<sent, delivered>>

Delivered == {delivered[k] : k \in DOMAIN delivered}

ChanInit == sent = {} /\ delivered = << >>

Send(i) ==
  /\ i \notin sent
  /\ sent' = sent \cup {i}
  /\ UNCHANGED delivered

Deliver(i) ==
  /\ i \in sent \ Delivered
  /\ delivered' = Append(delivered, i)
  /\ UNCHANGED sent

ChanNext == \E i \in Items : Send(i) \/ Deliver(i)

ChanSpec == ChanInit /\ [][ChanNext]_chanVars
=============================================================================
