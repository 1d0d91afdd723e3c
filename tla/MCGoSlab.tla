------------------------------ MODULE MCGoSlab ------------------------------
(* Instances of GoSlab for TLC. *)
EXTENDS GoSlab

CONSTANTS t1, t2

TwoThreads == {t1, t2}
=============================================================================
