------------------------------ MODULE MCGoRing ------------------------------
(***************************************************************************)
(* Instances of GoRing for TLC.  mem-ffi calls only push, so these runs do *)
(* not use the other forms.                                                *)
(***************************************************************************)
EXTENDS GoRing

CONSTANTS p1, p2

TwoProducers == {p1, p2}
OneProducer  == {p1}

PlainPush == {"push"}
=============================================================================
