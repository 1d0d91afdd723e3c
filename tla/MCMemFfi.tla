------------------------------ MODULE MCMemFfi ------------------------------
(* Instances of MemFfi for TLC. *)
EXTENDS MemFfi

CONSTANTS c1, c2, c3, k1, k2

ThreeCalls == {c1, c2, c3}
TwoCalls   == {c1, c3}
LastOneWay == {c3}
TwoKeys    == {k1, k2}
=============================================================================
