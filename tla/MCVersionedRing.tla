-------------------------- MODULE MCVersionedRing --------------------------
(***************************************************************************)
(* TLC instance of VersionedRing.                                          *)
(***************************************************************************)
EXTENDS VersionedRing

CONSTANTS p1, c1

OneProducer == {p1}
OneConsumer == {c1}
=============================================================================
