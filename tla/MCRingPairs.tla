---------------------------- MODULE MCRingPairs ----------------------------
(***************************************************************************)
(* One instance of each ring there is, under fairness: which runtime reads *)
(* and which one writes is chosen in the initial state and stays.          *)
(*                                                                         *)
(*   "r2r"  Rust on both sides (MemRing!FairSpec)                          *)
(*   "r2g"  the ring for calls (GoRing!RustToGoFair)                       *)
(*   "g2r"  the ring for replies (GoRing!GoToRustFair)                     *)
(***************************************************************************)
EXTENDS GoRing

CONSTANTS p1, p2
VARIABLE pair

TwoProducers == {p1, p2}
PlainPush    == {"push"}

pairVars == <<vars, pair>>

Reader  == (pair = "r2g" /\ GoReaderStep) \/ (pair # "r2g" /\ ReaderStep)
TheFull == (pair = "g2r" /\ GoUnstuckFull) \/ (pair # "g2r" /\ UnstuckFull)
Unstuck == UnstuckBody \/ TheFull
Push(p) == (pair = "g2r" /\ GoPush(p) /\ pc[p] # "idle") \/ (pair # "g2r" /\ PushStep(p))

PairInit == Init /\ pair \in {"r2r", "r2g", "g2r"}
PairNext ==
  /\ Reader \/ Unstuck \/ UnstuckLock \/ \E p \in Producers : Push(p) \/ PushLoad(p, "push")
  /\ UNCHANGED pair

PairSpec ==
  /\ PairInit /\ [][PairNext]_pairVars
  /\ WF_pairVars(Reader /\ UNCHANGED pair)
  /\ WF_pairVars(Unstuck /\ UNCHANGED pair)
  /\ SF_pairVars(UnstuckLock /\ UNCHANGED pair)
  /\ \A p \in Producers : WF_pairVars(Push(p) /\ UNCHANGED pair)

\* PendingMoves where the reader is the Rust one and so is the writer: only
\* that reader looks at the stuck flag.
RustPendingMoves == pair = "r2r" => PendingMoves

\* LockReleased where the writer is the Rust one: its guard is dropped on
\* every way out of the loop's body.
RustLockReleased == pair # "g2r" => LockReleased
=============================================================================
