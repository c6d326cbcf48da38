----------------------------- MODULE Predictor -----------------------------
(***************************************************************************)
(* MeyerPredictor of internal/pullstrength/meyer.go: a softening tracker   *)
(* and an energy tracker, circular buffers of timestamped rows, and what   *)
(* is predicted from them.  PushPhasor and Reset hold the predictor's      *)
(* mutex: one action per call.                                             *)
(*                                                                         *)
(* Timestamps need not grow: the simulator stamps each batch of frames     *)
(* ahead of the clock, and the next batch begins at the clock again.  The  *)
(* hardness, the phase and the strength computed from them are left out,   *)
(* but for whether the strength is below the redline; that is free, as the *)
(* redline can be set at any time.  Powers are integers.                   *)
(***************************************************************************)
EXTENDS CircularLog, FiniteSets

CONSTANTS Interval,      \* sampleIntervalNs
          SoftWindow,    \* SofteningWindowNs
          EnergyWindow,  \* EnergyWindowNs
          MinSoft,       \* fewest rows of the softening tracker, 16
          MinEnergy,     \* fewest rows of the energy tracker, 64
          SoftMin,       \* rows of the window that a prediction takes, 4
          Modulus,       \* 2^64: timestamps are unsigned
          Powers,        \* sqrt(vI^2 + qI^2) of a phasor
          Jumps,         \* bound: steps of the timestamps considered
          MaxTime,       \* bound: the last timestamp
          MaxPushes,     \* bound: phasors pushed between two Resets
          MaxResets      \* bound: calls of Reset

\* Two timestamps are closer to each other than to the wrap of the unsigned
\* difference, by more than the window.
ASSUME TimeAssumption ==
    /\ {Interval, MinSoft, MinEnergy, SoftMin} \subseteq Nat \ {0}
    /\ {SoftWindow, EnergyWindow, MaxTime, MaxPushes, MaxResets, Modulus} \subseteq Nat
    /\ MaxTime + SoftWindow < Modulus
    /\ SoftMin <= MinSoft
    /\ Powers \subseteq Nat /\ Jumps \subseteq Int

\* NewMeyerPredictor
AtLeast(least, n) == IF n < least THEN least ELSE n
SoftCap   == AtLeast(MinSoft, SoftWindow \div Interval)
EnergyCap == AtLeast(MinEnergy, EnergyWindow \div Interval)

VARIABLES softBuf,           \* the softening tracker: timestamps
          energyBuf,         \* the energy tracker: timestamps and powers
          accJ,              \* energyBuf.accJ
          lastTs,            \* lastTsNs
          latest,            \* the latest prediction: its time, the times of its rows
          totalPredictions,
          redlineHits,
          resets,            \* history: how often Reset was called
          pushes,            \* history: calls of PushPhasor since the last Reset
          softLog,           \* history: timestamps pushed into softBuf since then
          energyLog,         \* history: rows pushed into energyBuf since then
          energySum,         \* history: per row of energyLog, the powers up to it
          steady             \* history: every row since then has a timestamp and stands for one Interval

vars == <<softBuf, energyBuf, accJ, lastTs, latest, totalPredictions, redlineHits,
          resets, pushes, softLog, energyLog, energySum, steady>>

NoRow == [ts |-> 0, power |-> 0]
NoPrediction == [ts |-> 0, rows |-> {}]

Init ==
    /\ softBuf = Empty(SoftCap, 0)
    /\ energyBuf = Empty(EnergyCap, NoRow)
    /\ accJ = 0 /\ lastTs = 0
    /\ latest = NoPrediction /\ totalPredictions = 0 /\ redlineHits = 0
    /\ resets = 0 /\ pushes = 0
    /\ softLog = <<>> /\ energyLog = <<>> /\ energySum = <<>> /\ steady = TRUE

(***************************************************************************)
(* Slips: definitions below, each with a mistake that would be easy to     *)
(* make in the code.  Nothing refers to them; put in the place of the      *)
(* definition they are named after, each makes a property fail.            *)
(***************************************************************************)

AgeSigned(now, ts) == now - ts

ClampedBelow(sum) == IF sum < 0 THEN sum ELSE 0

ResetKeepsEnergy ==
    /\ resets < MaxResets
    /\ resets' = resets + 1
    /\ softBuf' = Empty(SoftCap, 0) /\ energyBuf' = Empty(EnergyCap, NoRow)
    /\ lastTs' = 0
    /\ latest' = NoPrediction /\ totalPredictions' = 0 /\ redlineHits' = 0
    /\ pushes' = 0
    /\ softLog' = <<>> /\ energyLog' = <<>> /\ energySum' = <<>> /\ steady' = TRUE
    /\ UNCHANGED accJ

(***************************************************************************)
(* softeningTracker.stats: which rows count.                               *)
(***************************************************************************)

\* now - ts of two uint64.
Age(now, ts) == (now - ts) % Modulus

\* A row with timestamp 0 was never written.  now is 0 only when the first
\* timestamp of all is.
Counts(now, ts) == ts # 0 /\ (now > 0 => Age(now, ts) <= SoftWindow)

ValidCells(buf, now) == {c \in 0 .. Total(SoftCap, buf) - 1 : Counts(now, buf.cells[c])}

\* A slip for Enough: one row too few will do.
EnoughButOne(buf, now) == Cardinality(ValidCells(buf, now)) + 1 >= SoftMin

Enough(buf, now) == Cardinality(ValidCells(buf, now)) >= SoftMin

(***************************************************************************)
(* PushPhasor.                                                             *)
(***************************************************************************)

\* The time a phasor stands for; the interval where the timestamps do not
\* grow, and at the first one.
StepOf(ts) == IF lastTs > 0 /\ ts > lastTs THEN ts - lastTs ELSE Interval

Clamped(sum) == IF sum < 0 THEN 0 ELSE sum

\* The powers of the first k rows since Reset.
SumTo(k) == IF k = 0 THEN 0 ELSE energySum[k]

\* The row that is overwritten is taken out of the sum with the step of the
\* row that replaces it.
EnergyPush(ts, power) ==
    LET old  == energyBuf.cells[energyBuf.head]
        gone == IF old.ts > 0 THEN old.power * StepOf(ts) ELSE 0
    IN  /\ accJ' = Clamped(accJ - gone + power * StepOf(ts))
        /\ energyBuf' = Push(EnergyCap, energyBuf, [ts |-> ts, power |-> power])
        /\ energyLog' = Append(energyLog, [ts |-> ts, power |-> power])
        /\ energySum' = Append(energySum, SumTo(Len(energySum)) + power)
        /\ steady' = (steady /\ ts # 0 /\ StepOf(ts) = Interval)

\* The timestamps considered: only the first of all may be zero.
Stamp(ts) ==
    /\ pushes < MaxPushes
    /\ ts \in 0 .. MaxTime
    /\ IF pushes = 0 THEN ts \in {0} \cup Jumps ELSE ts # 0 /\ ts - lastTs \in Jumps
    /\ lastTs' = ts
    /\ pushes' = pushes + 1

PushNoCurrent(ts) ==
    /\ Stamp(ts)
    /\ UNCHANGED <<softBuf, energyBuf, accJ, latest, totalPredictions, redlineHits,
                   resets, softLog, energyLog, energySum, steady>>

PushNoImpedance(ts, power) ==
    /\ Stamp(ts)
    /\ EnergyPush(ts, power)
    /\ UNCHANGED <<softBuf, latest, totalPredictions, redlineHits, resets, softLog>>

PushRow(ts, power) ==
    /\ Stamp(ts)
    /\ EnergyPush(ts, power)
    /\ softBuf' = Push(SoftCap, softBuf, ts)
    /\ softLog' = Append(softLog, ts)
    /\ UNCHANGED resets

PushTooFew(ts, power) ==
    /\ PushRow(ts, power)
    /\ ~ Enough(softBuf', ts)
    /\ UNCHANGED <<latest, totalPredictions, redlineHits>>

PushPredicts(ts, power, low) ==
    /\ PushRow(ts, power)
    /\ Enough(softBuf', ts)
    /\ latest' = [ts |-> ts, rows |-> {softBuf'.cells[c] : c \in ValidCells(softBuf', ts)}]
    /\ totalPredictions' = totalPredictions + 1
    /\ redlineHits' = IF low THEN redlineHits + 1 ELSE redlineHits

Reset ==
    /\ resets < MaxResets
    /\ resets' = resets + 1
    /\ softBuf' = Empty(SoftCap, 0) /\ energyBuf' = Empty(EnergyCap, NoRow)
    /\ accJ' = 0 /\ lastTs' = 0
    /\ latest' = NoPrediction /\ totalPredictions' = 0 /\ redlineHits' = 0
    /\ pushes' = 0
    /\ softLog' = <<>> /\ energyLog' = <<>> /\ energySum' = <<>> /\ steady' = TRUE

Next ==
    \/ Reset
    \/ \E ts \in 0 .. MaxTime :
           \/ PushNoCurrent(ts)
           \/ \E power \in Powers :
                  \/ PushNoImpedance(ts, power)
                  \/ PushTooFew(ts, power)
                  \/ \E low \in BOOLEAN : PushPredicts(ts, power, low)

Spec == Init /\ [][Next]_vars

-----------------------------------------------------------------------------
Times == 0 .. MaxTime

TypeOK ==
    /\ BufferOK(SoftCap, softBuf, Times)
    /\ BufferOK(EnergyCap, energyBuf, [ts : Times, power : Powers \cup {0}])
    /\ accJ \in Nat /\ lastTs \in Times
    /\ latest.ts \in Times /\ latest.rows \subseteq Times
    /\ totalPredictions \in Nat /\ redlineHits \in 0 .. totalPredictions
    /\ resets \in 0 .. MaxResets /\ pushes \in 0 .. MaxPushes
    /\ softLog \in Seq(Times) /\ energyLog \in Seq([ts : Times, power : Powers])
    /\ energySum \in Seq(Nat) /\ steady \in BOOLEAN

\* The rows that count are those among the newest SoftCap since Reset that
\* lie within the window before now, also when the timestamps have jumped
\* back and newer ones are in the buffer: the unsigned difference keeps
\* those out (meyer.go:190).
Fresh(now) ==
    {j \in 1 .. Len(softLog) : /\ j > Len(softLog) - SoftCap
                               /\ softLog[j] # 0
                               /\ softLog[j] <= now /\ now - softLog[j] <= SoftWindow}

RowsAreFresh ==
    /\ ValidCells(softBuf, lastTs) = {(j - 1) % SoftCap : j \in Fresh(lastTs)}
    /\ \A ts \in latest.rows : ts <= latest.ts /\ latest.ts - ts <= SoftWindow

\* While every phasor stood for one interval, be it because the timestamps
\* moved by it or because they moved back, the accumulated energy is that of
\* the newest rows, although no sum is ever made anew (meyer.go:228).  A row
\* with timestamp 0 would never be taken out again.
Kept == IF Len(energyLog) < EnergyCap THEN Len(energyLog) ELSE EnergyCap

EnergyOfNewest ==
    steady => accJ = Interval * (SumTo(Len(energySum)) - SumTo(Len(energySum) - Kept))

\* The predictor does what the pipeline assumes of it.
Outcome == INSTANCE PullOutcome WITH
    softRows <- IF Total(SoftCap, softBuf) < SoftMin THEN Total(SoftCap, softBuf) ELSE SoftMin,
    hits     <- redlineHits

ImplementsOutcome == Outcome!PredictorSpec
=============================================================================
