----------------------------- MODULE MCMemRing -----------------------------
(***************************************************************************)
(* Instances of MemRing for TLC.  Producers are interchangeable, so the    *)
(* safety runs use them as a symmetry set; the liveness runs do not.       *)
(***************************************************************************)
EXTENDS MemRing, TLC

CONSTANTS p1, p2

TwoProducers == {p1, p2}
OneProducer  == {p1}
ProducerSymmetry == Permutations(Producers)

AllKinds  == Kinds
PlainPush == {"push"}
=============================================================================
