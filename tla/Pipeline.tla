------------------------------ MODULE Pipeline ------------------------------
(***************************************************************************)
(* Pipeline of internal/impedance/pipeline.go, with the matrix (matrix.go),*)
(* the two sliding DFTs (slidingdft.go, dual_phasor.go) and the Meyer      *)
(* predictor (meyer.go) it calls.  Process and Reset hold the pipeline's   *)
(* mutex: one action per call.  The readers modelled hold it too, or the   *)
(* matrix's; they are operators, and the invariants say what they return   *)
(* in every state.                                                         *)
(*                                                                         *)
(* Samples are numbered.  Of the arithmetic only its outcomes are kept:    *)
(* whether the impedance can be solved, whether it is beyond the jump or   *)
(* the phase threshold (both can be set at any time), and whether the      *)
(* predicted pull is below the redline.                                    *)
(***************************************************************************)
EXTENDS CircularLog, PullOutcome

CONSTANTS Window,       \* samples of a DFT window
          Rows,         \* rows of the matrix
          MaxAnom,      \* len(p.anomalies)
          MaxPull,      \* len(p.pullEvents)
          BaselineN,    \* rows that make the baseline, 256
          MaxSamples,   \* bound: samples between two Resets
          MaxResets     \* bound: calls of Reset

ASSUME SizesAssumption ==
    /\ {Window, Rows, MaxAnom, MaxPull, BaselineN, SoftMin} \subseteq Nat \ {0}
    /\ MaxSamples \in Nat /\ MaxResets \in Nat

VARIABLES dft,          \* sampleBuf, bufHead and filled of both DFTs
          matrix,       \* rows, writeIdx and full
          baseline,     \* rows summed in z0, samples, locked
          alarms,       \* anomaly.alarmCount and anomaly.lastAlarmIdx
          anomalies,    \* p.anomalies, anomHead, anomFull
          pullEvents,   \* p.pullEvents, pullHead, pullFull
          pullEventSeq,
          totals,       \* totalIn, totalReady, started
          latestFrame,
          resets,       \* history: how often Reset was called
          rowLog,       \* history: rows appended since the last Reset
          anomLog,      \* history: anomalies since the last Reset
          pullLog       \* history: pull events since the last Reset

vars == <<dft, matrix, baseline, alarms, anomalies, softRows, hits, pullEvents, pullEventSeq,
          totals, latestFrame, resets, rowLog, anomLog, pullLog>>

\* A slip for Event: the number is taken before it is counted up.
EventBeforeCount(seq, id) == [seq |-> seq, id |-> id - 1]

\* An event: the sample it comes from, and its AlarmID or EventID.
Event(seq, id) == [seq |-> seq, id |-> id]
NoEvent == Event(0, 0)

Init ==
    /\ dft    = Empty(Window, 0)
    /\ matrix = Empty(Rows, 0)
    /\ baseline = [z0 |-> <<>>, samples |-> 0, locked |-> FALSE]
    /\ alarms   = [alarmCount |-> 0, lastAlarmIdx |-> 0]
    /\ anomalies  = Empty(MaxAnom, NoEvent)
    /\ PredictorInit
    /\ pullEvents = Empty(MaxPull, NoEvent)
    /\ pullEventSeq = 0
    /\ totals = [in |-> 0, ready |-> 0, started |-> FALSE]
    /\ latestFrame = 0
    /\ resets = 0
    /\ rowLog = <<>> /\ anomLog = <<>> /\ pullLog = <<>>

(***************************************************************************)
(* Slips: definitions below, each with a mistake that would be easy to     *)
(* make in the code.  Nothing refers to them; put in the place of the      *)
(* definition they are named after, each makes a property fail.            *)
(***************************************************************************)

BaselineLocksLate ==
    IF baseline.locked THEN baseline
    ELSE [z0      |-> Append(baseline.z0, totals.in + 1),
          samples |-> baseline.samples + 1,
          locked  |-> baseline.samples + 1 > BaselineN]

BaselineNeverStops ==
    [z0      |-> Append(baseline.z0, totals.in + 1),
     samples |-> baseline.samples + 1,
     locked  |-> baseline.samples + 1 >= BaselineN]

AlarmAfterLastOnly(off) == off /\ baseline.locked /\ matrix.head > alarms.lastAlarmIdx

WindowFromZero == [n \in 1 .. Window |-> dft.cells[n - 1]]

(***************************************************************************)
(* Process: DualPhasorPipeline.ProcessSample, AppendRow, PushPhasor.       *)
(***************************************************************************)

seqNo == totals.in + 1
dftNext == Push(Window, dft, seqNo)

\* The window is not full yet: no phasor.
ProcessFilling ==
    /\ totals.in < MaxSamples
    /\ ~ dftNext.full
    /\ dft' = dftNext
    /\ totals' = [totals EXCEPT !.in = seqNo]
    /\ UNCHANGED <<matrix, baseline, alarms, anomalies, softRows, hits, pullEvents,
                   pullEventSeq, latestFrame, resets, rowLog, anomLog, pullLog>>

PhasorReady ==
    /\ totals.in < MaxSamples
    /\ dftNext.full
    /\ dft' = dftNext
    /\ totals' = [in |-> seqNo, ready |-> totals.ready + 1, started |-> TRUE]

\* No current, so no impedance: AppendRow refuses and nothing else happens.
ProcessUnsolvable ==
    /\ PhasorReady
    /\ UNCHANGED <<matrix, baseline, alarms, anomalies, softRows, hits, pullEvents,
                   pullEventSeq, latestFrame, resets, rowLog, anomLog, pullLog>>

\* SolveImpedance adds the row to the baseline until BaselineN rows lock it.
BaselineNext ==
    IF baseline.locked THEN baseline
    ELSE [z0      |-> Append(baseline.z0, seqNo),
          samples |-> baseline.samples + 1,
          locked  |-> baseline.samples + 1 >= BaselineN]

\* A row that is off the baseline raises an alarm, unless the last alarm was
\* for the row at the same index.
Alarm(off) == off /\ BaselineNext.locked /\ matrix.head # alarms.lastAlarmIdx

AppendRow(off) ==
    /\ off => BaselineNext.locked
    /\ matrix'   = Push(Rows, matrix, seqNo)
    /\ baseline' = BaselineNext
    /\ alarms'   = IF Alarm(off)
                   THEN [alarmCount |-> alarms.alarmCount + 1, lastAlarmIdx |-> matrix.head]
                   ELSE alarms
    /\ rowLog'   = Append(rowLog, [seq |-> seqNo, off |-> off, alarm |-> Alarm(off)])

\* The anomaly that AppendRow returns goes into p.anomalies.
KeepAnomaly(off) ==
    IF Alarm(off)
    THEN LET anom == Event(seqNo, alarms.alarmCount + 1)
         IN  /\ anomalies' = Push(MaxAnom, anomalies, anom)
             /\ anomLog'   = Append(anomLog, anom)
    ELSE UNCHANGED <<anomalies, anomLog>>

KeepPullEvent(low) ==
    IF low
    THEN LET evt == Event(seqNo, pullEventSeq + 1)
         IN  /\ pullEventSeq' = evt.id
             /\ pullEvents'   = Push(MaxPull, pullEvents, evt)
             /\ pullLog'      = Append(pullLog, evt)
    ELSE UNCHANGED <<pullEventSeq, pullEvents, pullLog>>

ProcessRow(off, low) ==
    /\ PhasorReady
    /\ AppendRow(off) /\ KeepAnomaly(off)
    /\ PushPhasor(low) /\ KeepPullEvent(low)
    /\ latestFrame' = seqNo
    /\ UNCHANGED resets

Process ==
    \/ ProcessFilling \/ ProcessUnsolvable
    \/ \E off, low \in BOOLEAN : ProcessRow(off, low)

\* Reset leaves the sums of the baseline, the index of the last alarm, the
\* latest frame and the event numbers as they are.
Reset ==
    /\ resets < MaxResets
    /\ resets' = resets + 1
    /\ dft'       = Empty(Window, 0)
    /\ matrix'    = Empty(Rows, 0)
    /\ baseline'  = [baseline EXCEPT !.samples = 0, !.locked = FALSE]
    /\ alarms'    = [alarms EXCEPT !.alarmCount = 0]
    /\ anomalies' = Empty(MaxAnom, NoEvent)
    /\ PredictorReset
    /\ pullEvents' = Empty(MaxPull, NoEvent)
    /\ totals' = [in |-> 0, ready |-> 0, started |-> FALSE]
    /\ rowLog' = <<>> /\ anomLog' = <<>> /\ pullLog' = <<>>
    /\ UNCHANGED <<pullEventSeq, latestFrame>>

Next == Process \/ Reset

Spec == Init /\ [][Next]_vars

-----------------------------------------------------------------------------
(***************************************************************************)
(* What the readers return.                                                *)
(***************************************************************************)

RecentAnomalies(count)  == Recent(MaxAnom, anomalies, count)
RecentPullEvents(count) == Recent(MaxPull, pullEvents, count)
SnapshotRecent(lastN)   == Recent(Rows, matrix, lastN)

\* LatestRow: the row before writeIdx, if there is one.
HasLatestRow == matrix.full \/ matrix.head # 0
LatestRow == matrix.cells[IF matrix.head = 0 THEN Rows - 1 ELSE matrix.head - 1]

\* The order in which Update reads the samples of a full window.
WindowRead == [n \in 1 .. Window |-> dft.cells[(dft.head + (n - 1)) % Window]]

-----------------------------------------------------------------------------
Events == [seq : Nat, id : Nat]

TypeOK ==
    /\ BufferOK(Window, dft, Nat)
    /\ BufferOK(Rows, matrix, Nat)
    /\ baseline \in [z0 : Seq(Nat), samples : 0 .. BaselineN, locked : BOOLEAN]
    /\ baseline.locked <=> baseline.samples = BaselineN
    /\ alarms \in [alarmCount : Nat, lastAlarmIdx : 0 .. Rows - 1]
    /\ BufferOK(MaxAnom, anomalies, Events)
    /\ softRows \in 0 .. SoftMin /\ hits \in Nat
    /\ BufferOK(MaxPull, pullEvents, Events) /\ pullEventSeq \in Nat
    /\ totals \in [in : Nat, ready : Nat, started : BOOLEAN]
    /\ latestFrame \in Nat /\ resets \in Nat
    /\ rowLog \in Seq([seq : Nat, off : BOOLEAN, alarm : BOOLEAN])
    /\ {anomLog, pullLog} \subseteq Seq(Events)

\* Once the window is full the DFT weighs the last Window samples, oldest
\* first, and from then on every sample gives a phasor.
WindowInOrder ==
    /\ dft.full => WindowRead = [n \in 1 .. Window |-> totals.in - Window + n]
    /\ totals.ready = IF totals.in < Window THEN 0 ELSE totals.in - Window + 1

\* Whatever count a reader asks for, it gets that many of the newest entries
\* since Reset, oldest first, and never one that was overwritten or never
\* written: the rows of the matrix, the anomalies, the pull events.
RowSeqs == [i \in 1 .. Len(rowLog) |-> rowLog[i].seq]

RowsAreRecent ==
    /\ \A count \in 0 .. Rows + 1 : SnapshotRecent(count) = LastGranted(Rows, RowSeqs, count)
    /\ HasLatestRow <=> rowLog # <<>>
    /\ HasLatestRow => LatestRow = RowSeqs[Len(rowLog)]

EventsAreRecent ==
    /\ \A count \in 0 .. MaxAnom + 1 :
           RecentAnomalies(count) = LastGranted(MaxAnom, anomLog, count)
    /\ \A count \in 0 .. MaxPull + 1 :
           RecentPullEvents(count) = LastGranted(MaxPull, pullLog, count)

\* The ids of the anomalies number the alarms since Reset from 1 without a
\* gap; the ids of the pull events go on through Resets, so that no two
\* events have the same, and redlineHits counts those since Reset.
IdsNumberEvents ==
    /\ alarms.alarmCount = Len(anomLog)
    /\ \A i \in 1 .. Len(anomLog) : anomLog[i].id = i
    /\ hits = Len(pullLog)
    /\ \A i \in 1 .. Len(pullLog) : pullLog[i].id = pullEventSeq - Len(pullLog) + i

\* The index test suppresses single alarms only: of two rows in a row that
\* are off the baseline at least one raises an alarm, also when the index
\* wraps and after a Reset, provided the matrix has two rows.
NoTwoAlarmsMissed ==
    Rows > 1 => \A i \in 1 .. Len(rowLog) - 1 :
        rowLog[i].off /\ rowLog[i + 1].off => rowLog[i].alarm \/ rowLog[i + 1].alarm

\* Before the first Reset the baseline is made of the first BaselineN rows
\* and no other, and no row is called off before it is.
BaselineOfFirstRows ==
    /\ resets = 0 => baseline.z0 = SubSeq(RowSeqs, 1, IF Len(rowLog) < BaselineN
                                                       THEN Len(rowLog) ELSE BaselineN)
    /\ \A i \in 1 .. Len(rowLog) : rowLog[i].off => i >= BaselineN
=============================================================================
