---------------------------- MODULE MCTaggedRing ----------------------------
(***************************************************************************)
(* TLC instances of TaggedRing.                                            *)
(***************************************************************************)
EXTENDS TaggedRing

CONSTANTS p1, p2, c1, c2

TwoProducers == {p1, p2}
OneProducer  == {p1}
TwoConsumers == {c1, c2}
OneConsumer  == {c1}
NoThread     == {}
=============================================================================
