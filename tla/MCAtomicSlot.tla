---------------------------- MODULE MCAtomicSlot ----------------------------
(* Instances of AtomicSlot for TLC. *)
EXTENDS AtomicSlot

CONSTANTS t1, t2, t3

TwoTasks   == {t1, t2}
ThreeTasks == {t1, t2, t3}
=============================================================================
