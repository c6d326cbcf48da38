----------------------------- MODULE MCGateway -----------------------------
(***************************************************************************)
(* TLC instances of Gateway.                                               *)
(***************************************************************************)
EXTENDS Gateway

\* Two redline events in one batch, then a frame that may fail to decode and
\* one that is empty.
MCKindsOf == <<{"red"}, {"red"}, {"bad", "good"}, {"empty"}>>

\* A batch of redline events.
MCRedlines == <<{"red"}, {"red"}>>
=============================================================================
