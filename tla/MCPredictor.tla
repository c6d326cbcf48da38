---------------------------- MODULE MCPredictor ----------------------------
(***************************************************************************)
(* TLC instance of Predictor.                                              *)
(***************************************************************************)
EXTENDS Predictor

\* On by one interval or two, back as at the end of a simulated batch.
MCJumps == {-3, 1, 2}
=============================================================================
