---------------------------- MODULE PullOutcome ----------------------------
(***************************************************************************)
(* What the pipeline sees of the Meyer predictor (pullstrength/meyer.go):  *)
(* whether a phasor gives a prediction below the redline, and redlineHits. *)
(* Pipeline is built on it, and Predictor implements it.                   *)
(***************************************************************************)
EXTENDS Naturals

CONSTANT SoftMin        \* rows the softening tracker needs to predict, 4

VARIABLES softRows,     \* rows in the predictor's softBuf, counted up to SoftMin
          hits          \* redlineHits of the predictor

PredictorInit == softRows = 0 /\ hits = 0

\* The tracker takes no row whose impedance is too small.  Of a prediction it
\* matters whether it is low, below the redline, which takes rows enough.
PushPhasor(low) ==
    \/ ~ low /\ UNCHANGED <<softRows, hits>>
    \/ /\ softRows' = IF softRows < SoftMin THEN softRows + 1 ELSE softRows
       /\ low => softRows' = SoftMin
       /\ hits' = IF low THEN hits + 1 ELSE hits

PredictorReset == softRows' = 0 /\ hits' = 0

PredictorSpec ==
    PredictorInit /\ [][PredictorReset \/ \E low \in BOOLEAN : PushPhasor(low)]_<<softRows, hits>>
=============================================================================
