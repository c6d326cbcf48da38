-------------------------- MODULE Pipeline_proof --------------------------
(***************************************************************************)
(* Proofs about Pipeline, for buffers, windows and baselines of any size   *)
(* and any number of samples and Resets.                                   *)
(***************************************************************************)
EXTENDS Pipeline, CircularLog_proof, SequenceTheorems

LEMMA SizesOK ==
    /\ Window \in Sizes /\ Rows \in Sizes /\ MaxAnom \in Sizes /\ MaxPull \in Sizes
    /\ BaselineN \in Sizes /\ SoftMin \in Sizes
  BY SizesAssumption DEF Sizes

-----------------------------------------------------------------------------
(* Types.                                                                  *)

LEMMA TypeInit == Init => TypeOK
<1> SUFFICES ASSUME Init PROVE TypeOK
  OBVIOUS
<1>1. NoEvent \in Events
  BY SMT DEF NoEvent, Event, Events
<1>2. 0 \in Nat
  BY SMT
<1>3. /\ BufferOK(Window, dft, Nat) /\ BufferOK(Rows, matrix, Nat)
      /\ BufferOK(MaxAnom, anomalies, Events) /\ BufferOK(MaxPull, pullEvents, Events)
  BY <1>1, <1>2, SizesOK, EmptyOK DEF Init
<1>4. /\ baseline \in [z0 : Seq(Nat), samples : 0 .. BaselineN, locked : BOOLEAN]
      /\ baseline.locked <=> baseline.samples = BaselineN
  BY SizesOK, SMT DEF Init, Sizes
<1>5. /\ alarms \in [alarmCount : Nat, lastAlarmIdx : 0 .. Rows - 1]
      /\ softRows \in 0 .. SoftMin /\ hits \in Nat /\ pullEventSeq \in Nat
      /\ totals \in [in : Nat, ready : Nat, started : BOOLEAN]
      /\ latestFrame \in Nat /\ resets \in Nat
  BY SizesOK, SMT DEF Init, PredictorInit, Sizes
<1>6. /\ rowLog \in Seq([seq : Nat, off : BOOLEAN, alarm : BOOLEAN])
      /\ {anomLog, pullLog} \subseteq Seq(Events)
  BY SMT DEF Init
<1> QED
  BY <1>3, <1>4, <1>5, <1>6 DEF TypeOK

\* The fields of the records.
LEMMA Fields ==
    ASSUME TypeOK
    PROVE  /\ baseline.z0 \in Seq(Nat) /\ baseline.samples \in 0 .. BaselineN
           /\ baseline.locked \in BOOLEAN
           /\ baseline.locked <=> baseline.samples = BaselineN
           /\ alarms.alarmCount \in Nat /\ alarms.lastAlarmIdx \in 0 .. Rows - 1
           /\ totals.in \in Nat /\ totals.ready \in Nat /\ seqNo \in Nat
<1>1. /\ baseline.z0 \in Seq(Nat) /\ baseline.samples \in 0 .. BaselineN
      /\ baseline.locked \in BOOLEAN
      /\ baseline.locked <=> baseline.samples = BaselineN
  BY DEF TypeOK
<1>2. alarms.alarmCount \in Nat /\ alarms.lastAlarmIdx \in 0 .. Rows - 1
  BY DEF TypeOK
<1>3. totals.in \in Nat /\ totals.ready \in Nat
  BY DEF TypeOK
<1>4. seqNo \in Nat
  BY <1>3 DEF seqNo
<1> QED
  BY <1>1, <1>2, <1>3, <1>4

\* Every call of Process that gives a phasor or none counts the sample.
LEMMA TotalsType ==
    ASSUME TypeOK, ProcessFilling \/ PhasorReady
    PROVE  /\ totals' \in [in : Nat, ready : Nat, started : BOOLEAN]
           /\ totals'.in = seqNo /\ dft' = dftNext
<1>1. seqNo \in Nat /\ totals.ready \in Nat /\ totals.ready + 1 \in Nat
  BY Fields
<1>2. CASE ProcessFilling
  <2>1. totals' = [totals EXCEPT !.in = seqNo] /\ dft' = dftNext
    BY <1>2 DEF ProcessFilling
  <2>2. totals \in [in : Nat, ready : Nat, started : BOOLEAN]
    BY DEF TypeOK
  <2> QED
    BY <1>1, <2>1, <2>2
<1>3. CASE PhasorReady
  <2>1. /\ totals' = [in |-> seqNo, ready |-> totals.ready + 1, started |-> TRUE]
        /\ dft' = dftNext
    BY <1>3 DEF PhasorReady
  <2> QED
    BY <1>1, <2>1
<1> QED
  BY <1>2, <1>3

\* The parts of a call that gives a row.
LEMMA TypeRow ==
    ASSUME TypeOK, NEW off \in BOOLEAN, NEW low \in BOOLEAN, ProcessRow(off, low)
    PROVE  TypeOK'
<1>1. seqNo \in Nat /\ totals' \in [in : Nat, ready : Nat, started : BOOLEAN]
  BY Fields, TotalsType DEF ProcessRow
<1>2. BufferOK(Window, dft', Nat)
  BY <1>1, SizesOK, PushOK DEF TypeOK, ProcessRow, PhasorReady, dftNext
<1>3. BufferOK(Rows, matrix', Nat)
  BY <1>1, SizesOK, PushOK DEF TypeOK, ProcessRow, AppendRow
<1>4. /\ baseline' \in [z0 : Seq(Nat), samples : 0 .. BaselineN, locked : BOOLEAN]
      /\ baseline'.locked <=> baseline'.samples = BaselineN
  <2>1. CASE baseline.locked
    BY <2>1 DEF TypeOK, ProcessRow, AppendRow, BaselineNext
  <2>2. CASE ~ baseline.locked
    <3>1. baseline' = [z0 |-> Append(baseline.z0, seqNo), samples |-> baseline.samples + 1,
                       locked |-> baseline.samples + 1 >= BaselineN]
      BY <2>2 DEF ProcessRow, AppendRow, BaselineNext
    <3>2. Append(baseline.z0, seqNo) \in Seq(Nat)
      BY <1>1, Fields
    <3>3. /\ baseline.samples + 1 \in 0 .. BaselineN
          /\ baseline.samples + 1 >= BaselineN <=> baseline.samples + 1 = BaselineN
      <4>1. BaselineN \in Nat /\ baseline.samples \in 0 .. BaselineN
        BY SizesOK, Fields DEF Sizes
      <4>2. baseline.samples # BaselineN
        BY <2>2, Fields
      <4> QED
        BY <4>1, <4>2
    <3> QED
      <4>1. (baseline.samples + 1 >= BaselineN) \in BOOLEAN
        OBVIOUS
      <4>2. baseline' \in [z0 : Seq(Nat), samples : 0 .. BaselineN, locked : BOOLEAN]
        BY <3>1, <3>2, <3>3, <4>1
      <4>3. /\ baseline'.locked = (baseline.samples + 1 >= BaselineN)
            /\ baseline'.samples = baseline.samples + 1
        BY <3>1
      <4>4. baseline'.locked <=> baseline'.samples = BaselineN
        BY <3>3, <4>3, Zenon
      <4> QED
        BY <4>2, <4>4
  <2> QED
    BY <2>1, <2>2
<1>5. alarms' \in [alarmCount : Nat, lastAlarmIdx : 0 .. Rows - 1]
  BY DEF TypeOK, BufferOK, ProcessRow, AppendRow
<1>6. rowLog' \in Seq([seq : Nat, off : BOOLEAN, alarm : BOOLEAN])
  <2>1. Alarm(off) \in BOOLEAN
    BY DEF Alarm
  <2>2. [seq |-> seqNo, off |-> off, alarm |-> Alarm(off)] \in [seq : Nat, off : BOOLEAN, alarm : BOOLEAN]
    BY <1>1, <2>1
  <2> QED
    BY <2>2 DEF TypeOK, ProcessRow, AppendRow
<1>7. BufferOK(MaxAnom, anomalies', Events) /\ anomLog' \in Seq(Events)
  <2>1. Event(seqNo, alarms.alarmCount + 1) \in Events
    BY <1>1, Fields DEF Event, Events
  <2>2. CASE Alarm(off)
    <3>1. /\ anomalies' = Push(MaxAnom, anomalies, Event(seqNo, alarms.alarmCount + 1))
          /\ anomLog' = Append(anomLog, Event(seqNo, alarms.alarmCount + 1))
      BY <2>2 DEF ProcessRow, KeepAnomaly
    <3> QED
      BY <2>1, <3>1, SizesOK, PushOK DEF TypeOK
  <2>3. CASE ~ Alarm(off)
    BY <2>3 DEF TypeOK, ProcessRow, KeepAnomaly
  <2> QED
    BY <2>2, <2>3
<1>8. softRows' \in 0 .. SoftMin /\ hits' \in Nat
  <2>1. softRows \in 0 .. SoftMin /\ hits \in Nat /\ SoftMin \in Nat
    BY SizesOK DEF TypeOK, Sizes
  <2>2. PushPhasor(low)
    BY DEF ProcessRow
  <2>3. \/ softRows' = softRows
        \/ softRows' = IF softRows < SoftMin THEN softRows + 1 ELSE softRows
    BY <2>2, Zenon DEF PushPhasor
  <2>4. hits' = hits \/ hits' = hits + 1
    BY <2>2, Zenon DEF PushPhasor
  <2> QED
    BY <2>1, <2>3, <2>4
<1>9. BufferOK(MaxPull, pullEvents', Events) /\ pullLog' \in Seq(Events) /\ pullEventSeq' \in Nat
  <2>1. Event(seqNo, pullEventSeq + 1) \in Events
    BY <1>1 DEF TypeOK, Event, Events
  <2>2. CASE low
    <3>1. /\ pullEvents' = Push(MaxPull, pullEvents, Event(seqNo, pullEventSeq + 1))
          /\ pullLog' = Append(pullLog, Event(seqNo, pullEventSeq + 1))
          /\ pullEventSeq' = Event(seqNo, pullEventSeq + 1).id
      BY <2>2 DEF ProcessRow, KeepPullEvent
    <3>2. pullEventSeq' \in Nat
      BY <2>1, <3>1 DEF Events
    <3> QED
      BY <2>1, <3>1, <3>2, SizesOK, PushOK DEF TypeOK
  <2>3. CASE ~ low
    BY <2>3 DEF TypeOK, ProcessRow, KeepPullEvent
  <2> QED
    BY <2>2, <2>3
<1>10. latestFrame' \in Nat /\ resets' \in Nat
  BY <1>1 DEF TypeOK, ProcessRow
<1> QED
  BY <1>1, <1>2, <1>3, <1>4, <1>5, <1>6, <1>7, <1>8, <1>9, <1>10 DEF TypeOK

\* The calls that change the DFT and the totals only.
Quiet == /\ dft' = dftNext
         /\ totals'.in = seqNo
         /\ UNCHANGED <<matrix, baseline, alarms, anomalies, softRows, hits, pullEvents,
                        pullEventSeq, latestFrame, resets, rowLog, anomLog, pullLog>>

LEMMA TypeQuiet ==
    ASSUME TypeOK, ProcessFilling \/ ProcessUnsolvable
    PROVE  TypeOK' /\ Quiet
<1>1. /\ seqNo \in Nat /\ totals' \in [in : Nat, ready : Nat, started : BOOLEAN]
      /\ totals'.in = seqNo
  BY Fields, TotalsType DEF ProcessUnsolvable
<1>2. Quiet
  BY <1>1 DEF Quiet, ProcessFilling, ProcessUnsolvable, PhasorReady
<1>3. BufferOK(Window, dft', Nat)
  BY <1>1, <1>2, SizesOK, PushOK DEF TypeOK, Quiet, dftNext
<1> QED
  BY <1>1, <1>2, <1>3 DEF TypeOK, Quiet

LEMMA TypeReset == TypeOK /\ Reset => TypeOK'
<1> SUFFICES ASSUME TypeOK, Reset PROVE TypeOK'
  OBVIOUS
<1>1. NoEvent \in Events /\ 0 \in Nat
  BY SMT DEF NoEvent, Event, Events
<1>2. /\ BufferOK(Window, dft', Nat) /\ BufferOK(Rows, matrix', Nat)
      /\ BufferOK(MaxAnom, anomalies', Events) /\ BufferOK(MaxPull, pullEvents', Events)
  BY <1>1, SizesOK, EmptyOK DEF Reset
<1>3. /\ baseline' \in [z0 : Seq(Nat), samples : 0 .. BaselineN, locked : BOOLEAN]
      /\ baseline'.locked <=> baseline'.samples = BaselineN
  <2>1. baseline' = [baseline EXCEPT !.samples = 0, !.locked = FALSE]
    BY DEF Reset
  <2>2. 0 \in 0 .. BaselineN /\ 0 # BaselineN
    BY SizesOK, SMT DEF Sizes
  <2> QED
    BY <2>1, <2>2 DEF TypeOK
<1>4. /\ alarms' \in [alarmCount : Nat, lastAlarmIdx : 0 .. Rows - 1]
      /\ softRows' \in 0 .. SoftMin /\ hits' \in Nat /\ pullEventSeq' \in Nat
      /\ totals' \in [in : Nat, ready : Nat, started : BOOLEAN]
      /\ latestFrame' \in Nat /\ resets' \in Nat
  <2>1. alarms' \in [alarmCount : Nat, lastAlarmIdx : 0 .. Rows - 1]
    BY DEF TypeOK, Reset
  <2>2. softRows' \in 0 .. SoftMin /\ hits' \in Nat
    <3>1. softRows' = 0 /\ hits' = 0
      BY DEF Reset, PredictorReset
    <3> QED
      BY <3>1, SizesOK DEF Sizes
  <2>3. totals' \in [in : Nat, ready : Nat, started : BOOLEAN]
    BY DEF Reset
  <2>4. pullEventSeq' \in Nat /\ latestFrame' \in Nat /\ resets' \in Nat
    BY DEF TypeOK, Reset
  <2> QED
    BY <2>1, <2>2, <2>3, <2>4
<1>5. /\ rowLog' \in Seq([seq : Nat, off : BOOLEAN, alarm : BOOLEAN])
      /\ {anomLog', pullLog'} \subseteq Seq(Events)
  BY SMT DEF Reset
<1> QED
  BY <1>2, <1>3, <1>4, <1>5 DEF TypeOK

LEMMA TypeStep == TypeOK /\ [Next]_vars => TypeOK'
<1> SUFFICES ASSUME TypeOK, [Next]_vars PROVE TypeOK'
  OBVIOUS
<1>1. CASE ProcessFilling \/ ProcessUnsolvable
  BY <1>1, TypeQuiet
<1>2. ASSUME NEW off \in BOOLEAN, NEW low \in BOOLEAN, ProcessRow(off, low)
      PROVE  TypeOK'
  BY <1>2, TypeRow
<1>3. CASE Reset
  BY <1>3, TypeReset
<1>4. CASE UNCHANGED vars
  BY <1>4 DEF vars, TypeOK
<1> QED
  BY <1>1, <1>2, <1>3, <1>4 DEF Next, Process

\* Every variable of the pipeline keeps its type.
THEOREM TypeCorrect == Spec => []TypeOK
<1> QED
  BY TypeInit, TypeStep, PTL DEF Spec

-----------------------------------------------------------------------------
(* What the buffers hold.                                                  *)

\* The samples since the last Reset, as a log.
SampleLog == [i \in 1 .. totals.in |-> i]

\* The strengthening: each of the four buffers stands for the end of its log.
BuffersHold ==
    /\ Holds(Window, dft, SampleLog)
    /\ Holds(Rows, matrix, RowSeqs)
    /\ Holds(MaxAnom, anomalies, anomLog)
    /\ Holds(MaxPull, pullEvents, pullLog)

\* Counting one further appends the next number.
LEMMA CountOn ==
    ASSUME NEW m \in Nat
    PROVE  /\ [i \in 1 .. m |-> i] \in Seq(Nat) /\ Len([i \in 1 .. m |-> i]) = m
           /\ Append([i \in 1 .. m |-> i], m + 1) = [i \in 1 .. m + 1 |-> i]
<1> DEFINE c == [i \in 1 .. m |-> i]
           d == [i \in 1 .. m + 1 |-> i]
<1>1. c \in Seq(Nat) /\ Len(c) = m /\ d \in Seq(Nat) /\ Len(d) = m + 1
  OBVIOUS
<1>2. /\ Append(c, m + 1) \in Seq(Nat) /\ Len(Append(c, m + 1)) = m + 1
  BY <1>1
<1>3. ASSUME NEW i \in 1 .. m + 1 PROVE Append(c, m + 1)[i] = d[i]
  <2>1. CASE i \in 1 .. m
    BY <1>1, <2>1
  <2>2. CASE i = m + 1
    BY <1>1, <2>2
  <2> QED
    BY <2>1, <2>2
<1>4. Append(c, m + 1) = d
  <2> HIDE DEF c, d
  <2> QED
    BY <1>1, <1>2, <1>3, SeqEqual
<1> QED
  BY <1>1, <1>4

\* The numbers of the rows, and how a further row changes them.
LEMMA RowSeqsType ==
    ASSUME TypeOK
    PROVE  RowSeqs \in Seq(Nat) /\ Len(RowSeqs) = Len(rowLog)
<1>1. rowLog \in Seq([seq : Nat, off : BOOLEAN, alarm : BOOLEAN])
  BY DEF TypeOK
<1>2. ASSUME NEW i \in 1 .. Len(rowLog) PROVE rowLog[i].seq \in Nat
  <2>1. rowLog[i] \in [seq : Nat, off : BOOLEAN, alarm : BOOLEAN]
    BY <1>1, ElementOfSeq
  <2> QED
    BY <2>1
<1> QED
  BY <1>1, <1>2 DEF RowSeqs

LEMMA RowSeqsAppend ==
    ASSUME TypeOK, NEW off \in BOOLEAN, AppendRow(off)
    PROVE  RowSeqs' = Append(RowSeqs, seqNo)
<1> DEFINE R  == [seq : Nat, off : BOOLEAN, alarm : BOOLEAN]
           r  == [seq |-> seqNo, off |-> off, alarm |-> Alarm(off)]
           L  == Len(rowLog)
           c  == RowSeqs
           d  == RowSeqs'
<1>1. rowLog \in Seq(R) /\ L \in Nat /\ rowLog' = Append(rowLog, r) /\ r.seq = seqNo
  BY DEF TypeOK, AppendRow
<1>2. seqNo \in Nat
  BY Fields
<1>3. c \in Seq(Nat) /\ Len(c) = L
  BY RowSeqsType
<1>4. Len(rowLog') = L + 1 /\ rowLog'[L + 1] = r /\ \A i \in 1 .. L : rowLog'[i] = rowLog[i]
  BY <1>1
<1>5. d = [i \in 1 .. L + 1 |-> rowLog'[i].seq]
  BY <1>4 DEF RowSeqs
<1>6. \A i \in 1 .. L : c[i] = rowLog[i].seq /\ c[i] \in Nat
  BY <1>3 DEF RowSeqs
<1>7. \A i \in 1 .. L : d[i] = c[i]
  BY <1>1, <1>4, <1>5, <1>6
<1>8. d[L + 1] = seqNo
  BY <1>1, <1>4, <1>5
<1>9. d \in Seq(Nat) /\ Len(d) = L + 1
  <2>1. \A i \in 1 .. L + 1 : rowLog'[i].seq \in Nat
    <3> SUFFICES ASSUME NEW i \in 1 .. L + 1 PROVE rowLog'[i].seq \in Nat
      OBVIOUS
    <3>1. CASE i = L + 1
      BY <1>1, <1>2, <1>4, <3>1
    <3>2. CASE i \in 1 .. L
      <4>1. rowLog'[i].seq = c[i]
        BY <1>4, <1>6, <3>2
      <4> QED
        BY <1>6, <3>2, <4>1
    <3> QED
      BY <1>1, <3>1, <3>2
  <2> QED
    BY <1>1, <1>5, <2>1
<1> HIDE DEF c, d, L
<1>10. Append(c, seqNo) \in Seq(Nat) /\ Len(Append(c, seqNo)) = L + 1
  BY <1>2, <1>3
<1>11. ASSUME NEW i \in 1 .. L + 1 PROVE d[i] = Append(c, seqNo)[i]
  <2>1. CASE i = L + 1
    BY <1>2, <1>3, <1>8, <2>1
  <2>2. CASE i \in 1 .. L
    BY <1>2, <1>3, <1>7, <2>2
  <2>3. i = L + 1 \/ i \in 1 .. L
    <3>1. L \in Nat
      BY <1>1
    <3> QED
      BY <3>1, SMT
  <2> QED
    BY <2>1, <2>2, <2>3
<1>12. d = Append(c, seqNo)
  BY <1>9, <1>10, <1>11, SeqEqual
<1> QED
  BY <1>12 DEF c, d

LEMMA HoldInit == Init => BuffersHold
<1> SUFFICES ASSUME Init PROVE BuffersHold
  OBVIOUS
<1>1. NoEvent \in Events /\ 0 \in Nat
  BY SMT DEF NoEvent, Event, Events
<1>2. SampleLog = <<>>
  <2>1. totals.in = 0
    BY DEF Init
  <2> QED
    BY <2>1 DEF SampleLog
<1>3. RowSeqs = <<>>
  BY DEF Init, RowSeqs
<1> QED
  BY <1>1, <1>2, <1>3, SizesOK, EmptyOK DEF Init, BuffersHold

\* The window, when a sample is counted.
LEMMA WindowHolds ==
    ASSUME TypeOK, BuffersHold, ProcessFilling \/ PhasorReady
    PROVE  Holds(Window, dft, SampleLog)'
<1>1. totals.in \in Nat /\ seqNo \in Nat /\ seqNo = totals.in + 1
  BY Fields DEF seqNo
<1>2. totals'.in = totals.in + 1 /\ dft' = Push(Window, dft, seqNo)
  BY <1>1, TotalsType DEF dftNext
<1>3. SampleLog \in Seq(Nat) /\ Append(SampleLog, seqNo) = SampleLog'
  BY <1>1, <1>2, CountOn DEF SampleLog
<1>4. BufferOK(Window, dft, Nat) /\ Holds(Window, dft, SampleLog)
  BY DEF TypeOK, BuffersHold
<1>5. Holds(Window, Push(Window, dft, seqNo), Append(SampleLog, seqNo))
  BY <1>1, <1>3, <1>4, SizesOK, PushHolds
<1> QED
  BY <1>2, <1>3, <1>5

LEMMA HoldRow ==
    ASSUME TypeOK, BuffersHold, NEW off \in BOOLEAN, NEW low \in BOOLEAN, ProcessRow(off, low)
    PROVE  BuffersHold'
<1>1. Holds(Window, dft, SampleLog)'
  BY WindowHolds DEF ProcessRow
<1>2. Holds(Rows, matrix, RowSeqs)'
  <2>1. seqNo \in Nat /\ RowSeqs \in Seq(Nat)
    BY Fields, RowSeqsType
  <2>2. RowSeqs' = Append(RowSeqs, seqNo) /\ matrix' = Push(Rows, matrix, seqNo)
    BY RowSeqsAppend DEF ProcessRow, AppendRow
  <2>3. Holds(Rows, Push(Rows, matrix, seqNo), Append(RowSeqs, seqNo))
    BY <2>1, SizesOK, PushHolds DEF TypeOK, BuffersHold
  <2> QED
    BY <2>2, <2>3
<1>3. Holds(MaxAnom, anomalies, anomLog)'
  <2>1. CASE Alarm(off)
    <3> DEFINE e == Event(seqNo, alarms.alarmCount + 1)
    <3>1. e \in Events
      BY Fields DEF Event, Events
    <3>2. anomalies' = Push(MaxAnom, anomalies, e) /\ anomLog' = Append(anomLog, e)
      BY <2>1 DEF ProcessRow, KeepAnomaly
    <3>3. BufferOK(MaxAnom, anomalies, Events) /\ anomLog \in Seq(Events)
      BY DEF TypeOK
    <3> HIDE DEF e
    <3>4. Holds(MaxAnom, Push(MaxAnom, anomalies, e), Append(anomLog, e))
      BY <3>1, <3>3, SizesOK, PushHolds DEF BuffersHold
    <3> QED
      BY <3>2, <3>4
  <2>2. CASE ~ Alarm(off)
    BY <2>2 DEF ProcessRow, KeepAnomaly, BuffersHold
  <2> QED
    BY <2>1, <2>2
<1>4. Holds(MaxPull, pullEvents, pullLog)'
  <2>1. CASE low
    <3> DEFINE e == Event(seqNo, pullEventSeq + 1)
    <3>1. e \in Events
      BY Fields DEF TypeOK, Event, Events
    <3>2. pullEvents' = Push(MaxPull, pullEvents, e) /\ pullLog' = Append(pullLog, e)
      BY <2>1 DEF ProcessRow, KeepPullEvent
    <3>3. BufferOK(MaxPull, pullEvents, Events) /\ pullLog \in Seq(Events)
      BY DEF TypeOK
    <3> HIDE DEF e
    <3>4. Holds(MaxPull, Push(MaxPull, pullEvents, e), Append(pullLog, e))
      BY <3>1, <3>3, SizesOK, PushHolds DEF BuffersHold
    <3> QED
      BY <3>2, <3>4
  <2>2. CASE ~ low
    BY <2>2 DEF ProcessRow, KeepPullEvent, BuffersHold
  <2> QED
    BY <2>1, <2>2
<1> QED
  BY <1>1, <1>2, <1>3, <1>4 DEF BuffersHold

LEMMA HoldReset == Reset => BuffersHold'
<1> SUFFICES ASSUME Reset PROVE BuffersHold'
  OBVIOUS
<1>1. NoEvent \in Events /\ 0 \in Nat
  BY SMT DEF NoEvent, Event, Events
<1>2. SampleLog' = <<>>
  <2>1. totals'.in = 0
    BY DEF Reset
  <2> QED
    BY <2>1 DEF SampleLog
<1>3. RowSeqs' = <<>>
  BY DEF Reset, RowSeqs
<1> QED
  BY <1>1, <1>2, <1>3, SizesOK, EmptyOK DEF Reset, BuffersHold

LEMMA HoldStep == TypeOK /\ BuffersHold /\ [Next]_vars => BuffersHold'
<1> SUFFICES ASSUME TypeOK, BuffersHold, [Next]_vars PROVE BuffersHold'
  OBVIOUS
<1>1. CASE ProcessFilling \/ ProcessUnsolvable
  <2>1. Quiet /\ Holds(Window, dft, SampleLog)'
    BY <1>1, TypeQuiet, WindowHolds DEF ProcessUnsolvable
  <2>2. RowSeqs' = RowSeqs
    BY <2>1 DEF Quiet, RowSeqs
  <2> QED
    BY <2>1, <2>2 DEF Quiet, BuffersHold
<1>2. ASSUME NEW off \in BOOLEAN, NEW low \in BOOLEAN, ProcessRow(off, low)
      PROVE  BuffersHold'
  BY <1>2, HoldRow
<1>3. CASE Reset
  BY <1>3, HoldReset
<1>4. CASE UNCHANGED vars
  BY <1>4 DEF vars, BuffersHold, SampleLog, RowSeqs
<1> QED
  BY <1>1, <1>2, <1>3, <1>4 DEF Next, Process

LEMMA HoldCorrect == Spec => [](TypeOK /\ BuffersHold)
<1>1. Init => TypeOK /\ BuffersHold
  BY TypeInit, HoldInit
<1>2. (TypeOK /\ BuffersHold) /\ [Next]_vars => (TypeOK /\ BuffersHold)'
  BY TypeStep, HoldStep
<1> QED
  BY <1>1, <1>2, PTL DEF Spec

-----------------------------------------------------------------------------
(* What the readers get.                                                   *)

\* RecentAnomalies and RecentPullEvents return the newest entries since the
\* last Reset, oldest first, for every number a reader asks for.
THEOREM EventsCorrect == Spec => []EventsAreRecent
<1>1. TypeOK /\ BuffersHold => EventsAreRecent
  <2> SUFFICES ASSUME TypeOK, BuffersHold PROVE EventsAreRecent
    OBVIOUS
  <2>1. ASSUME NEW count \in 0 .. MaxAnom + 1
        PROVE  RecentAnomalies(count) = LastGranted(MaxAnom, anomLog, count)
    <3>1. count \in Int /\ anomLog \in Seq(Events)
      BY SizesOK DEF Sizes, TypeOK
    <3> QED
      BY <3>1, SizesOK, RecentIsLast DEF RecentAnomalies, TypeOK, BuffersHold
  <2>2. ASSUME NEW count \in 0 .. MaxPull + 1
        PROVE  RecentPullEvents(count) = LastGranted(MaxPull, pullLog, count)
    <3>1. count \in Int /\ pullLog \in Seq(Events)
      BY SizesOK DEF Sizes, TypeOK
    <3> QED
      BY <3>1, SizesOK, RecentIsLast DEF RecentPullEvents, TypeOK, BuffersHold
  <2> QED
    BY <2>1, <2>2 DEF EventsAreRecent
<1> QED
  BY <1>1, HoldCorrect, PTL

\* Snapshot returns the newest rows since the last Reset, oldest first, and
\* LatestRow the newest, whenever there is a row.
THEOREM RowsCorrect == Spec => []RowsAreRecent
<1>1. TypeOK /\ BuffersHold => RowsAreRecent
  <2> SUFFICES ASSUME TypeOK, BuffersHold PROVE RowsAreRecent
    OBVIOUS
  <2> DEFINE L == Len(rowLog)
  <2>1. RowSeqs \in Seq(Nat) /\ Len(RowSeqs) = L /\ L \in Nat
    <3>1. L \in Nat
      BY DEF TypeOK
    <3> QED
      BY <3>1, RowSeqsType
  <2>2. ASSUME NEW count \in 0 .. Rows + 1
        PROVE  SnapshotRecent(count) = LastGranted(Rows, RowSeqs, count)
    <3>1. count \in Int
      BY SizesOK DEF Sizes
    <3> QED
      BY <2>1, <3>1, SizesOK, RecentIsLast DEF SnapshotRecent, TypeOK, BuffersHold
  <2>3. Rows \in Nat /\ Rows > 0 /\ Rows \in Sizes
    BY SizesOK DEF Sizes
  <2>4. /\ matrix.head = L % Rows
        /\ matrix.full <=> L >= Rows
        /\ matrix.head \in 0 .. Rows - 1
        /\ \A j \in 1 .. L : j > L - Rows => matrix.cells[(j - 1) % Rows] = RowSeqs[j]
    BY <2>1 DEF Holds, BuffersHold, TypeOK, BufferOK
  <2>5. rowLog = <<>> <=> L = 0
    BY DEF TypeOK
  <2>6. HasLatestRow <=> L # 0
    <3>1. CASE L = 0
      <4>1. 0 % Rows = 0 /\ ~ (L >= Rows)
        BY <2>3, <3>1, ModSmall
      <4> QED
        BY <2>4, <3>1, <4>1 DEF HasLatestRow
    <3>2. CASE L # 0 /\ L < Rows
      <4>1. L \in 0 .. Rows - 1
        BY <2>1, <2>3, <3>2
      <4>2. L % Rows = L
        BY <2>3, <4>1, ModSmall
      <4> QED
        BY <2>4, <3>2, <4>2 DEF HasLatestRow
    <3>3. CASE L >= Rows
      <4>1. L # 0
        BY <2>1, <2>3, <3>3
      <4> QED
        BY <2>4, <3>3, <4>1 DEF HasLatestRow
    <3> QED
      BY <2>1, <2>3, <3>1, <3>2, <3>3
  <2>7. ASSUME L # 0 PROVE LatestRow = RowSeqs[L]
    <3>1. L \in 1 .. L /\ L > L - Rows
      BY <2>1, <2>3, <2>7
    <3>2. matrix.cells[(L - 1) % Rows] = RowSeqs[L]
      BY <2>4, <3>1
    <3>3. (L - 1) % Rows = IF matrix.head = 0 THEN Rows - 1 ELSE matrix.head - 1
      <4> HIDE DEF L
      <4> QED
        BY <2>1, <2>3, <2>4, <2>7, ModBackOne
    <3> QED
      BY <3>2, <3>3 DEF LatestRow
  <2> QED
    BY <2>2, <2>5, <2>6, <2>7 DEF RowsAreRecent
<1> QED
  BY <1>1, HoldCorrect, PTL

-----------------------------------------------------------------------------
(* The window and the counter of phasors.                                  *)

\* From the sample that fills the window on, every sample gives a phasor.
ReadyCounts == totals.ready = IF totals.in < Window THEN 0 ELSE totals.in - Window + 1

\* dftNext is full when the next sample fills the window or comes later.
LEMMA FullWhen ==
    ASSUME TypeOK, BuffersHold
    PROVE  /\ dftNext.full <=> totals.in + 1 >= Window
           /\ dft.full <=> totals.in >= Window
<1>1. totals.in \in Nat /\ seqNo \in Nat /\ seqNo = totals.in + 1
  BY Fields DEF seqNo
<1>2. /\ SampleLog \in Seq(Nat) /\ Len(SampleLog) = totals.in
      /\ Append(SampleLog, seqNo) = [i \in 1 .. totals.in + 1 |-> i]
      /\ Len([i \in 1 .. totals.in + 1 |-> i]) = totals.in + 1
  BY <1>1, CountOn DEF SampleLog
<1>3. Holds(Window, dftNext, Append(SampleLog, seqNo))
  BY <1>1, <1>2, SizesOK, PushHolds DEF dftNext, TypeOK, BuffersHold
<1>4. Len(Append(SampleLog, seqNo)) = totals.in + 1
  BY <1>2, Zenon
<1>5. dftNext.full <=> totals.in + 1 >= Window
  BY <1>3, <1>4, Zenon DEF Holds
<1>6. dft.full <=> totals.in >= Window
  BY <1>2, Zenon DEF Holds, BuffersHold
<1> QED
  BY <1>5, <1>6

LEMMA ReadyStep == TypeOK /\ BuffersHold /\ ReadyCounts /\ [Next]_vars => ReadyCounts'
<1> SUFFICES ASSUME TypeOK, BuffersHold, ReadyCounts, [Next]_vars PROVE ReadyCounts'
  OBVIOUS
<1>1. totals.in \in Nat /\ totals.ready \in Nat /\ Window \in Nat /\ Window > 0
  BY Fields, SizesOK DEF Sizes
<1>2. CASE ProcessFilling
  <2>1. totals' = [totals EXCEPT !.in = seqNo] /\ ~ dftNext.full
    BY <1>2 DEF ProcessFilling
  <2>2. totals'.in = totals.in + 1 /\ totals'.ready = totals.ready
    BY <2>1 DEF TypeOK, seqNo
  <2>3. totals.in + 1 < Window
    BY <1>1, <2>1, FullWhen
  <2> QED
    BY <1>1, <2>2, <2>3 DEF ReadyCounts
<1>3. CASE PhasorReady
  <2>1. /\ totals' = [in |-> seqNo, ready |-> totals.ready + 1, started |-> TRUE]
        /\ dftNext.full
    BY <1>3 DEF PhasorReady
  <2>2. totals'.in = totals.in + 1 /\ totals'.ready = totals.ready + 1
    BY <2>1 DEF seqNo
  <2>3. totals.in + 1 >= Window
    BY <2>1, FullWhen
  <2> QED
    BY <1>1, <2>2, <2>3 DEF ReadyCounts
<1>4. CASE Reset
  <2>1. totals'.in = 0 /\ totals'.ready = 0
    BY <1>4 DEF Reset
  <2> QED
    BY <1>1, <2>1 DEF ReadyCounts
<1>5. CASE UNCHANGED vars
  BY <1>5 DEF vars, ReadyCounts
<1> QED
  BY <1>2, <1>3, <1>4, <1>5 DEF Next, Process, ProcessUnsolvable, ProcessRow

\* The DFT weighs the last Window samples in the order they came, and every
\* sample from the one that fills the window on gives a phasor.
THEOREM WindowCorrect == Spec => []WindowInOrder
<1>1. TypeOK /\ BuffersHold /\ ReadyCounts => WindowInOrder
  <2> SUFFICES ASSUME TypeOK, BuffersHold, ReadyCounts PROVE WindowInOrder
    OBVIOUS
  <2> DEFINE a == totals.in
  <2>1. a \in Nat /\ Window \in Nat /\ Window > 0 /\ Window \in Sizes
    BY Fields, SizesOK DEF Sizes
  <2>2. SampleLog \in Seq(Nat) /\ Len(SampleLog) = a
    BY <2>1, CountOn DEF SampleLog
  <2>3. /\ dft.head = a % Window
        /\ \A j \in 1 .. a : j > a - Window => dft.cells[(j - 1) % Window] = SampleLog[j]
    BY <2>2, Zenon DEF Holds, BuffersHold
  <2>4. \A j \in 1 .. a : SampleLog[j] = j
    BY DEF SampleLog
  <2>5. ASSUME dft.full, NEW n \in 1 .. Window
        PROVE  dft.cells[(dft.head + (n - 1)) % Window] = a - Window + n
    <3>1. a >= Window
      BY <2>5, FullWhen
    <3>2. /\ a - Window + n \in 1 .. a /\ a - Window + n > a - Window
          /\ a - Window \in Nat /\ n - 1 \in Nat
          /\ (a - Window) + (n - 1) = (a - Window + n) - 1
      BY <2>1, <3>1
    <3>3. a % Window = (a - Window) % Window
      <4> DEFINE q == (a - Window) \div Window
                 r == (a - Window) % Window
      <4>1. q \in Int /\ r \in 0 .. Window - 1 /\ a - Window = (Window * q) + r
        BY <2>1, <3>2, DivMod
      <4> HIDE DEF q, r
      <4>2. Window * (q + 1) = (Window * q) + Window
        BY <2>1, <4>1
      <4>3. a = (Window * (q + 1)) + r
        <5>1. Window * q \in Int
          BY <2>1, <4>1
        <5> QED
          BY <2>1, <4>1, <4>2, <5>1
      <4>4. a % Window = r
        BY <2>1, <4>1, <4>3, ModIs
      <4> QED
        BY <4>4 DEF r
    <3>4. dft.head \in Nat /\ dft.head % Window = (a - Window) % Window
      <4>1. a % Window \in 0 .. Window - 1
        BY <2>1, DivMod
      <4> QED
        BY <2>1, <2>3, <3>3, <4>1, ModSmall
    <3>5. (dft.head + (n - 1)) % Window = ((a - Window) + (n - 1)) % Window
      BY <2>1, <3>2, <3>4, ModAdd, ZenonT(30)
    <3> HIDE DEF a
    <3>6. dft.cells[((a - Window + n) - 1) % Window] = a - Window + n
      BY <2>3, <2>4, <3>2
    <3> QED
      BY <3>2, <3>5, <3>6
  <2> QED
    BY <2>5 DEF WindowInOrder, WindowRead, ReadyCounts
<1>2. Init => ReadyCounts
  BY SizesOK DEF Init, ReadyCounts, Sizes
<1> QED
  BY <1>1, <1>2, HoldCorrect, ReadyStep, PTL DEF Spec

-----------------------------------------------------------------------------
(* The numbers of the events.                                              *)

LEMMA IdsStep == TypeOK /\ IdsNumberEvents /\ [Next]_vars => IdsNumberEvents'
<1> SUFFICES ASSUME TypeOK, IdsNumberEvents, [Next]_vars PROVE IdsNumberEvents'
  OBVIOUS
<1>1. CASE ProcessFilling \/ ProcessUnsolvable
  BY <1>1, TypeQuiet DEF Quiet, IdsNumberEvents
<1>2. ASSUME NEW off \in BOOLEAN, NEW low \in BOOLEAN, ProcessRow(off, low)
      PROVE  IdsNumberEvents'
  <2>1. alarms'.alarmCount = Len(anomLog') /\ \A i \in 1 .. Len(anomLog') : anomLog'[i].id = i
    <3>1. CASE Alarm(off)
      <4> DEFINE m == alarms.alarmCount
                 e == Event(seqNo, m + 1)
      <4>1. m \in Nat /\ e \in Events /\ e.id = m + 1 /\ anomLog \in Seq(Events)
        BY Fields DEF TypeOK, Event, Events
      <4>2. alarms'.alarmCount = m + 1 /\ anomLog' = Append(anomLog, e)
        BY <1>2, <3>1 DEF ProcessRow, AppendRow, KeepAnomaly
      <4>3. Len(anomLog) = m /\ \A i \in 1 .. m : anomLog[i].id = i
        BY DEF IdsNumberEvents
      <4> HIDE DEF e, m
      <4>4. /\ Len(anomLog') = m + 1 /\ anomLog'[m + 1] = e
            /\ \A i \in 1 .. m : anomLog'[i] = anomLog[i]
        BY <4>1, <4>2, <4>3, AppendProperties
      <4>5. ASSUME NEW i \in 1 .. m + 1 PROVE anomLog'[i].id = i
        BY <4>1, <4>3, <4>4
      <4> QED
        BY <4>2, <4>4, <4>5
    <3>2. CASE ~ Alarm(off)
      BY <1>2, <3>2 DEF ProcessRow, AppendRow, KeepAnomaly, IdsNumberEvents
    <3> QED
      BY <3>1, <3>2
  <2>2. /\ hits' = Len(pullLog')
        /\ \A i \in 1 .. Len(pullLog') : pullLog'[i].id = pullEventSeq' - Len(pullLog') + i
    <3>1. CASE low
      <4> DEFINE m == Len(pullLog)
                 q == pullEventSeq
                 e == Event(seqNo, q + 1)
      <4>1. /\ m \in Nat /\ q \in Nat /\ e \in Events /\ e.id = q + 1
            /\ pullLog \in Seq(Events)
        BY Fields DEF TypeOK, Event, Events
      <4>2. hits' = hits + 1 /\ pullEventSeq' = q + 1 /\ pullLog' = Append(pullLog, e)
        BY <1>2, <3>1 DEF ProcessRow, PushPhasor, KeepPullEvent, Event
      <4>3. hits = m /\ \A i \in 1 .. m : pullLog[i].id = q - m + i
        BY DEF IdsNumberEvents
      <4> HIDE DEF e, q
      <4>4. /\ Len(pullLog') = m + 1 /\ pullLog'[m + 1] = e
            /\ \A i \in 1 .. m : pullLog'[i] = pullLog[i]
        BY <4>1, <4>2, AppendProperties
      <4> HIDE DEF m
      <4>5. ASSUME NEW i \in 1 .. m + 1 PROVE pullLog'[i].id = (q + 1) - (m + 1) + i
        BY <4>1, <4>3, <4>4
      <4> QED
        BY <4>2, <4>3, <4>4, <4>5
    <3>2. CASE ~ low
      BY <1>2, <3>2 DEF ProcessRow, PushPhasor, KeepPullEvent, IdsNumberEvents
    <3> QED
      BY <3>1, <3>2
  <2> QED
    BY <2>1, <2>2 DEF IdsNumberEvents
<1>3. CASE Reset
  <2>1. alarms'.alarmCount = 0 /\ anomLog' = <<>> /\ hits' = 0 /\ pullLog' = <<>>
    BY <1>3 DEF Reset, PredictorReset, TypeOK
  <2> QED
    BY <2>1 DEF IdsNumberEvents
<1>4. CASE UNCHANGED vars
  BY <1>4 DEF vars, IdsNumberEvents
<1> QED
  BY <1>1, <1>2, <1>3, <1>4 DEF Next, Process

\* Anomalies are numbered from one since the last Reset, pull events without
\* a gap across Resets, and redlineHits counts the events since the last one.
THEOREM IdsCorrect == Spec => []IdsNumberEvents
<1>1. Init => IdsNumberEvents
  BY DEF Init, PredictorInit, IdsNumberEvents
<1> QED
  BY <1>1, TypeCorrect, IdsStep, PTL DEF Spec

-----------------------------------------------------------------------------
(* Alarms.                                                                 *)

\* The strengthening: if the last row is off and raised no alarm, the last
\* alarm was for the row index that this row took.
MissedAtLastIndex ==
    LET last == Len(rowLog)
    IN  last > 0 /\ rowLog[last].off /\ ~ rowLog[last].alarm =>
            (alarms.lastAlarmIdx + 1) % Rows = matrix.head

\* The log with the row that AppendRow adds.
LEMMA RowAdded ==
    ASSUME TypeOK, NEW off \in BOOLEAN, AppendRow(off)
    PROVE  /\ Len(rowLog) \in Nat /\ Len(rowLog') = Len(rowLog) + 1
           /\ rowLog'[Len(rowLog) + 1].off = off
           /\ rowLog'[Len(rowLog) + 1].alarm = Alarm(off)
           /\ \A i \in 1 .. Len(rowLog) : rowLog'[i] = rowLog[i]
<1> DEFINE R == [seq : Nat, off : BOOLEAN, alarm : BOOLEAN]
           r == [seq |-> seqNo, off |-> off, alarm |-> Alarm(off)]
<1>1. rowLog \in Seq(R) /\ rowLog' = Append(rowLog, r)
  BY DEF TypeOK, AppendRow
<1>2. r \in R /\ r.off = off /\ r.alarm = Alarm(off)
  <2>1. seqNo \in Nat /\ Alarm(off) \in BOOLEAN
    BY Fields DEF Alarm
  <2> QED
    BY <2>1
<1> HIDE DEF R, r
<1> QED
  BY <1>1, <1>2, AppendProperties, LenProperties

LEMMA AlarmRow ==
    ASSUME TypeOK, NoTwoAlarmsMissed, MissedAtLastIndex, NEW off \in BOOLEAN, AppendRow(off)
    PROVE  NoTwoAlarmsMissed' /\ MissedAtLastIndex'
<1> DEFINE L == Len(rowLog)
<1>1. /\ L \in Nat /\ Len(rowLog') = L + 1
      /\ rowLog'[L + 1].off = off /\ rowLog'[L + 1].alarm = Alarm(off)
      /\ \A i \in 1 .. L : rowLog'[i] = rowLog[i]
  BY RowAdded
<1>2. off /\ ~ Alarm(off) => matrix.head = alarms.lastAlarmIdx /\ alarms' = alarms
  BY DEF AppendRow, Alarm
<1>3. /\ matrix'.head = (matrix.head + 1) % Rows
      /\ alarms.lastAlarmIdx \in 0 .. Rows - 1 /\ Rows \in Sizes
  BY SizesOK, Fields DEF AppendRow, Push
<1>4. MissedAtLastIndex'
  <2>1. off /\ ~ Alarm(off) => (alarms'.lastAlarmIdx + 1) % Rows = matrix'.head
    BY <1>2, <1>3
  <2> HIDE DEF L
  <2> QED
    BY <1>1, <2>1 DEF MissedAtLastIndex
<1>5. ASSUME Rows > 1, NEW i \in 1 .. L, rowLog'[i].off, rowLog'[i + 1].off
      PROVE  rowLog'[i].alarm \/ rowLog'[i + 1].alarm
  <2>1. CASE i < L
    <3>1. i \in 1 .. L - 1 /\ i + 1 \in 1 .. L
      BY <1>1, <2>1
    <3>2. rowLog'[i] = rowLog[i] /\ rowLog'[i + 1] = rowLog[i + 1]
      BY <1>1, <3>1
    <3> QED
      BY <1>5, <3>1, <3>2 DEF NoTwoAlarmsMissed
  <2>2. CASE i = L
    <3> SUFFICES ASSUME ~ rowLog[L].alarm, ~ Alarm(off) PROVE FALSE
      BY <1>1, <2>2
    <3>1. L > 0 /\ rowLog[L].off /\ off
      BY <1>1, <1>5, <2>2
    <3>2. (alarms.lastAlarmIdx + 1) % Rows = matrix.head
      BY <3>1 DEF MissedAtLastIndex
    <3> DEFINE x == alarms.lastAlarmIdx
    <3>3. x \in Nat /\ x + 1 \in Nat /\ x < x + 1 /\ x + 1 < x + Rows
      BY <1>3, <1>5 DEF Sizes
    <3>4. x % Rows # (x + 1) % Rows
      <4> HIDE DEF x
      <4> QED
        BY <1>3, <3>3, ModApart
    <3>5. x % Rows = x
      BY <1>3, ModSmall
    <3> QED
      BY <1>2, <3>1, <3>2, <3>4, <3>5
  <2> QED
    BY <1>1, <2>1, <2>2
<1>6. (L + 1) - 1 = L
  BY <1>1
<1> HIDE DEF L
<1>7. NoTwoAlarmsMissed'
  BY <1>1, <1>5, <1>6 DEF NoTwoAlarmsMissed
<1> QED
  BY <1>4, <1>7

LEMMA AlarmStep ==
    TypeOK /\ NoTwoAlarmsMissed /\ MissedAtLastIndex /\ [Next]_vars =>
        NoTwoAlarmsMissed' /\ MissedAtLastIndex'
<1> SUFFICES ASSUME TypeOK, NoTwoAlarmsMissed, MissedAtLastIndex, [Next]_vars
             PROVE  NoTwoAlarmsMissed' /\ MissedAtLastIndex'
  OBVIOUS
<1>1. CASE ProcessFilling \/ ProcessUnsolvable
  BY <1>1, TypeQuiet DEF Quiet, NoTwoAlarmsMissed, MissedAtLastIndex
<1>2. ASSUME NEW off \in BOOLEAN, NEW low \in BOOLEAN, ProcessRow(off, low)
      PROVE  NoTwoAlarmsMissed' /\ MissedAtLastIndex'
  BY <1>2, AlarmRow DEF ProcessRow
<1>3. CASE Reset
  BY <1>3 DEF Reset, NoTwoAlarmsMissed, MissedAtLastIndex
<1>4. CASE UNCHANGED vars
  BY <1>4 DEF vars, NoTwoAlarmsMissed, MissedAtLastIndex
<1> QED
  BY <1>1, <1>2, <1>3, <1>4 DEF Next, Process

\* Of two rows in a row that are off the baseline at least one raises an
\* alarm, whatever index the last alarm left behind, if there are two rows.
THEOREM AlarmsCorrect == Spec => []NoTwoAlarmsMissed
<1>1. Init => NoTwoAlarmsMissed /\ MissedAtLastIndex
  BY DEF Init, NoTwoAlarmsMissed, MissedAtLastIndex
<1> QED
  BY <1>1, TypeCorrect, AlarmStep, PTL DEF Spec

-----------------------------------------------------------------------------
(* The baseline.                                                           *)

\* The smaller of a number of rows and BaselineN.
Capped(m) == IF m < BaselineN THEN m ELSE BaselineN

\* The strengthening: samples counts the rows since the last Reset, up to
\* BaselineN.
SamplesCountRows == baseline.samples = Capped(Len(rowLog))

BaselineInv == SamplesCountRows /\ BaselineOfFirstRows

\* The first BaselineN entries of a log that gets longer.
LEMMA FirstRows ==
    ASSUME NEW s \in Seq(Nat), NEW e \in Nat
    PROVE  SubSeq(Append(s, e), 1, Capped(Len(s) + 1)) =
               IF Len(s) < BaselineN THEN Append(SubSeq(s, 1, Capped(Len(s))), e)
                                     ELSE SubSeq(s, 1, Capped(Len(s)))
<1> DEFINE L == Len(s)
           t == Append(s, e)
<1>1. L \in Nat /\ BaselineN \in Nat
  BY SizesOK DEF Sizes
<1>2. t \in Seq(Nat) /\ Len(t) = L + 1 /\ \A i \in 1 .. L : t[i] = s[i]
  BY AppendProperties
<1>3. CASE L < BaselineN
  <2>1. Capped(L) = L /\ Capped(L + 1) = L + 1
    BY <1>1, <1>3 DEF Capped
  <2>2. SubSeq(s, 1, L) = s
    BY SubSeqFull
  <2>3. SubSeq(t, 1, L + 1) = t
    <3> HIDE DEF t
    <3> QED
      BY <1>2, SubSeqFull
  <2> QED
    BY <1>3, <2>1, <2>2, <2>3
<1>4. CASE ~ (L < BaselineN)
  <2>1. Capped(L) = BaselineN /\ Capped(L + 1) = BaselineN /\ BaselineN <= L
    BY <1>1, <1>4 DEF Capped
  <2> HIDE DEF t
  <2>2. \A i \in 1 .. BaselineN : i \in 1 .. L /\ s[i] \in Nat /\ t[i] = s[i] /\ t[i] \in Nat
    BY <1>1, <1>2, <2>1, SMTT(30)
  <2> DEFINE u == SubSeq(t, 1, BaselineN)
             v == SubSeq(s, 1, BaselineN)
  <2>3. /\ u \in Seq(Nat) /\ Len(u) = IF 1 <= BaselineN THEN BaselineN - 1 + 1 ELSE 0
        /\ \A i \in 1 .. BaselineN - 1 + 1 : u[i] = t[1 + i - 1]
    BY <1>1, <2>2, SubSeqProperties
  <2>4. /\ v \in Seq(Nat) /\ Len(v) = IF 1 <= BaselineN THEN BaselineN - 1 + 1 ELSE 0
        /\ \A i \in 1 .. BaselineN - 1 + 1 : v[i] = s[1 + i - 1]
    BY <1>1, <2>2, SubSeqProperties
  <2> HIDE DEF u, v
  <2>5. Len(u) = BaselineN /\ Len(v) = BaselineN /\ \A i \in 1 .. BaselineN : u[i] = v[i]
    BY <1>1, <2>2, <2>3, <2>4, SizesOK DEF Sizes
  <2>6. u = v
    BY <2>3, <2>4, <2>5, SeqEqual
  <2> QED
    BY <1>4, <2>1, <2>6 DEF t, u, v
<1> QED
  BY <1>3, <1>4

LEMMA BaselineRow ==
    ASSUME TypeOK, BaselineInv, NEW off \in BOOLEAN, AppendRow(off), resets' = resets
    PROVE  BaselineInv'
<1> DEFINE L == Len(rowLog)
<1>1. /\ L \in Nat /\ Len(rowLog') = L + 1 /\ rowLog'[L + 1].off = off
      /\ \A i \in 1 .. L : rowLog'[i] = rowLog[i]
  BY RowAdded
<1>2. /\ BaselineN \in Nat /\ BaselineN > 0
      /\ baseline.samples = Capped(L) /\ (baseline.locked <=> baseline.samples = BaselineN)
  BY SizesOK, Fields DEF Sizes, BaselineInv, SamplesCountRows
<1>3. baseline.locked <=> ~ (L < BaselineN)
  BY <1>1, <1>2 DEF Capped
<1>4. baseline' = IF L < BaselineN
                  THEN [z0      |-> Append(baseline.z0, seqNo),
                        samples |-> baseline.samples + 1,
                        locked  |-> baseline.samples + 1 >= BaselineN]
                  ELSE baseline
  BY <1>3 DEF AppendRow, BaselineNext
<1>5. SamplesCountRows'
  <2>1. baseline'.samples = IF L < BaselineN THEN Capped(L) + 1 ELSE Capped(L)
    BY <1>2, <1>4
  <2>2. baseline'.samples = Capped(L + 1)
    BY <1>1, <1>2, <2>1 DEF Capped
  <2> QED
    BY <1>1, <2>2 DEF SamplesCountRows, Capped
<1>6. resets' = 0 => baseline'.z0 = SubSeq(RowSeqs', 1, Capped(L + 1))
  <2> SUFFICES ASSUME resets = 0 PROVE baseline'.z0 = SubSeq(RowSeqs', 1, Capped(L + 1))
    OBVIOUS
  <2>1. RowSeqs' = Append(RowSeqs, seqNo) /\ RowSeqs \in Seq(Nat) /\ Len(RowSeqs) = L
    BY RowSeqsAppend, RowSeqsType
  <2>2. seqNo \in Nat
    BY Fields
  <2>3. baseline.z0 = SubSeq(RowSeqs, 1, Capped(L))
    BY DEF BaselineInv, BaselineOfFirstRows, Capped
  <2>4. baseline'.z0 = IF L < BaselineN THEN Append(baseline.z0, seqNo) ELSE baseline.z0
    BY <1>4
  <2> HIDE DEF L
  <2>5. SubSeq(Append(RowSeqs, seqNo), 1, Capped(Len(RowSeqs) + 1)) =
            IF Len(RowSeqs) < BaselineN
            THEN Append(SubSeq(RowSeqs, 1, Capped(Len(RowSeqs))), seqNo)
            ELSE SubSeq(RowSeqs, 1, Capped(Len(RowSeqs)))
    BY <2>1, <2>2, FirstRows
  <2> QED
    BY <2>1, <2>3, <2>4, <2>5
<1>7. ASSUME NEW i \in 1 .. L + 1, rowLog'[i].off PROVE i >= BaselineN
  <2>1. CASE i \in 1 .. L
    BY <1>1, <1>7, <2>1 DEF BaselineInv, BaselineOfFirstRows
  <2>2. CASE i = L + 1
    <3>1. BaselineNext.locked
      BY <1>1, <1>7, <2>2 DEF AppendRow
    <3>2. baseline'.locked
      BY <3>1 DEF AppendRow
    <3>3. CASE L < BaselineN
      <4>1. baseline.samples = L
        BY <1>2, <3>3 DEF Capped
      <4>2. baseline.samples + 1 >= BaselineN
        BY <1>4, <3>2, <3>3
      <4> QED
        BY <2>2, <4>1, <4>2
    <3> QED
      BY <1>1, <1>2, <2>2, <3>3
  <2> QED
    BY <1>1, <2>1, <2>2
<1> HIDE DEF L
<1> QED
  BY <1>1, <1>5, <1>6, <1>7 DEF BaselineInv, BaselineOfFirstRows, Capped

LEMMA BaselineStep == TypeOK /\ BaselineInv /\ [Next]_vars => BaselineInv'
<1> SUFFICES ASSUME TypeOK, BaselineInv, [Next]_vars PROVE BaselineInv'
  OBVIOUS
<1>1. CASE ProcessFilling \/ ProcessUnsolvable
  BY <1>1, TypeQuiet
  DEF Quiet, BaselineInv, SamplesCountRows, BaselineOfFirstRows, RowSeqs
<1>2. ASSUME NEW off \in BOOLEAN, NEW low \in BOOLEAN, ProcessRow(off, low)
      PROVE  BaselineInv'
  BY <1>2, BaselineRow DEF ProcessRow
<1>3. CASE Reset
  <2>1. baseline'.samples = 0 /\ rowLog' = <<>> /\ resets' # 0
    BY <1>3 DEF Reset, TypeOK
  <2>2. Capped(0) = 0
    BY SizesOK DEF Capped, Sizes
  <2> QED
    BY <2>1, <2>2 DEF BaselineInv, SamplesCountRows, BaselineOfFirstRows, Capped
<1>4. CASE UNCHANGED vars
  BY <1>4 DEF vars, BaselineInv, SamplesCountRows, BaselineOfFirstRows, RowSeqs
<1> QED
  BY <1>1, <1>2, <1>3, <1>4 DEF Next, Process

\* Until the first Reset the baseline is the sum of the first BaselineN rows,
\* and no row before it is complete is called off.
THEOREM BaselineCorrect == Spec => []BaselineOfFirstRows
<1>1. Init => BaselineInv
  <2> SUFFICES ASSUME Init PROVE BaselineInv
    OBVIOUS
  <2>1. baseline.samples = 0 /\ baseline.z0 = <<>> /\ rowLog = <<>>
    BY DEF Init
  <2>2. RowSeqs = <<>> /\ Len(rowLog) = 0
    BY <2>1 DEF RowSeqs
  <2>3. Capped(0) = 0
    BY SizesOK DEF Capped, Sizes
  <2>4. SubSeq(<<>>, 1, 0) = <<>>
    BY SubSeqEmpty
  <2> QED
    BY <2>1, <2>2, <2>3, <2>4 DEF BaselineInv, SamplesCountRows, BaselineOfFirstRows, Capped
<1> QED
  BY <1>1, TypeCorrect, BaselineStep, PTL DEF Spec, BaselineInv
=============================================================================
