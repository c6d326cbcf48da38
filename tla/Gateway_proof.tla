--------------------------- MODULE Gateway_proof ---------------------------
(***************************************************************************)
(* Proofs about Gateway, for every size of its rings and buffers and every *)
(* number of frames: nothing is lost without a count, and nothing arrives  *)
(* out of order.                                                           *)
(***************************************************************************)
EXTENDS Gateway, SequenceTheorems, FiniteSetTheorems, TLAPS

(***************************************************************************)
(* Sequences of frames.                                                    *)
(***************************************************************************)
Before(s, t) == \A i \in 1 .. Len(s), j \in 1 .. Len(t) : s[i][1] < t[j][1]

UpTo(s, n) == \A i \in 1 .. Len(s) : s[i][1] <= n

\* A frame that is taken from the front of one buffer and appended to the one
\* before it in order keeps its place among all other frames.
LEMMA MoveKeeps ==
    ASSUME NEW s \in Seq(Frames), NEW t \in Seq(Frames), t # <<>>, Before(s, t),
           Increasing(s), Increasing(t)
    PROVE  /\ Increasing(Append(s, Head(t))) /\ Increasing(Tail(t))
           /\ Before(Append(s, Head(t)), Tail(t))
<1> DEFINE u == Append(s, Head(t))
<1>1. /\ Head(t) = t[1] /\ Head(t) \in Frames /\ Len(t) \in Nat /\ Len(s) \in Nat
      /\ Len(Tail(t)) = Len(t) - 1 /\ 1 \in 1 .. Len(t)
      /\ \A i \in 1 .. Len(Tail(t)) : Tail(t)[i] = t[i + 1] /\ i + 1 \in 1 .. Len(t)
  BY HeadTailProperties, LenProperties, EmptySeq
<1>2. /\ Len(u) = Len(s) + 1
      /\ \A i \in 1 .. Len(s) : u[i] = s[i]
      /\ u[Len(s) + 1] = t[1]
  BY <1>1, AppendProperties
<1> HIDE DEF u
<1>3. Increasing(Tail(t))
  BY <1>1 DEF Increasing
<1>4. Increasing(u)
  <2> SUFFICES ASSUME NEW i \in 1 .. Len(u), NEW j \in 1 .. Len(u), i < j
               PROVE  u[i][1] < u[j][1]
    BY DEF Increasing
  <2>1. i \in 1 .. Len(s) /\ u[i] = s[i]
    BY <1>1, <1>2
  <2>2. CASE j \in 1 .. Len(s)
    BY <1>2, <2>1, <2>2 DEF Increasing
  <2>3. CASE j = Len(s) + 1
    BY <1>1, <1>2, <2>1, <2>3 DEF Before
  <2> QED
    BY <1>1, <1>2, <2>2, <2>3
<1>5. Before(u, Tail(t))
  <2> SUFFICES ASSUME NEW i \in 1 .. Len(u), NEW j \in 1 .. Len(Tail(t))
               PROVE  u[i][1] < t[j + 1][1]
    BY <1>1 DEF Before
  <2>1. CASE i \in 1 .. Len(s)
    BY <1>1, <1>2, <2>1 DEF Before
  <2>2. CASE i = Len(s) + 1
    BY <1>1, <1>2, <2>2 DEF Increasing
  <2> QED
    BY <1>1, <1>2, <2>1, <2>2
<1> QED
  BY <1>3, <1>4, <1>5 DEF u

LEMMA MoveElements ==
    ASSUME NEW s \in Seq(Frames), NEW t \in Seq(Frames), t # <<>>
    PROVE  /\ 1 \in 1 .. Len(t)
           /\ \A i \in 1 .. Len(Tail(t)) : Tail(t)[i] = t[i + 1] /\ i + 1 \in 1 .. Len(t)
           /\ \A i \in 1 .. Len(Append(s, Head(t))) :
                  \/ i \in 1 .. Len(s) /\ Append(s, Head(t))[i] = s[i]
                  \/ Append(s, Head(t))[i] = t[1]
<1>1. /\ Head(t) = t[1] /\ Head(t) \in Frames /\ Len(t) \in Nat /\ Len(s) \in Nat
      /\ Len(Tail(t)) = Len(t) - 1 /\ 1 \in 1 .. Len(t)
      /\ \A i \in 1 .. Len(Tail(t)) : Tail(t)[i] = t[i + 1] /\ i + 1 \in 1 .. Len(t)
  BY HeadTailProperties, LenProperties, EmptySeq
<1>2. \A i \in 1 .. Len(Append(s, Head(t))) :
          \/ i \in 1 .. Len(s) /\ Append(s, Head(t))[i] = s[i]
          \/ Append(s, Head(t))[i] = t[1]
  BY <1>1, AppendProperties
<1> QED
  BY <1>1, <1>2

\* What is after, before or bounds both buffers goes on to do so.
LEMMA MoveAfter ==
    ASSUME NEW s \in Seq(Frames), NEW t \in Seq(Frames), t # <<>>, NEW w \in Seq(Frames),
           Before(w, s), Before(w, t)
    PROVE  Before(w, Append(s, Head(t))) /\ Before(w, Tail(t))
<1>1. Before(w, Append(s, Head(t)))
  BY MoveElements DEF Before
<1>2. Before(w, Tail(t))
  BY MoveElements DEF Before
<1> QED
  BY <1>1, <1>2

LEMMA MoveBefore ==
    ASSUME NEW s \in Seq(Frames), NEW t \in Seq(Frames), t # <<>>, NEW w \in Seq(Frames),
           Before(s, w), Before(t, w)
    PROVE  Before(Append(s, Head(t)), w) /\ Before(Tail(t), w)
<1>1. Before(Append(s, Head(t)), w)
  BY MoveElements DEF Before
<1>2. Before(Tail(t), w)
  BY MoveElements DEF Before
<1> QED
  BY <1>1, <1>2

LEMMA MoveUpTo ==
    ASSUME NEW s \in Seq(Frames), NEW t \in Seq(Frames), t # <<>>, NEW n,
           UpTo(s, n), UpTo(t, n)
    PROVE  UpTo(Append(s, Head(t)), n) /\ UpTo(Tail(t), n)
<1>1. UpTo(Append(s, Head(t)), n)
  BY MoveElements DEF UpTo
<1>2. UpTo(Tail(t), n)
  BY MoveElements DEF UpTo
<1> QED
  BY <1>1, <1>2

\* The same of a buffer that is emptied behind another one.
LEMMA ConcatKeeps ==
    ASSUME NEW s \in Seq(Frames), NEW t \in Seq(Frames), Before(s, t),
           Increasing(s), Increasing(t)
    PROVE  /\ Increasing(s \o t)
           /\ \A w \in Seq(Frames) : Before(s, w) /\ Before(t, w) => Before(s \o t, w)
<1>1. /\ Len(s) \in Nat /\ Len(t) \in Nat /\ Len(s \o t) = Len(s) + Len(t)
      /\ \A i \in 1 .. Len(s) + Len(t) :
             \/ i \in 1 .. Len(s) /\ (s \o t)[i] = s[i]
             \/ i - Len(s) \in 1 .. Len(t) /\ (s \o t)[i] = t[i - Len(s)]
  BY ConcatProperties, LenProperties
<1> DEFINE u == s \o t
<1> HIDE DEF u
<1>2. Increasing(u)
  <2> SUFFICES ASSUME NEW i \in 1 .. Len(s) + Len(t), NEW j \in 1 .. Len(s) + Len(t), i < j
               PROVE  u[i][1] < u[j][1]
    BY <1>1 DEF Increasing, u
  <2>1. CASE i \in 1 .. Len(s) /\ u[i] = s[i] /\ j \in 1 .. Len(s) /\ u[j] = s[j]
    BY <2>1 DEF Increasing
  <2>2. CASE /\ i \in 1 .. Len(s) /\ u[i] = s[i]
             /\ j - Len(s) \in 1 .. Len(t) /\ u[j] = t[j - Len(s)]
    BY <2>2 DEF Before
  <2>3. CASE /\ i - Len(s) \in 1 .. Len(t) /\ u[i] = t[i - Len(s)]
             /\ j - Len(s) \in 1 .. Len(t) /\ u[j] = t[j - Len(s)]
    <3>1. \A k, m \in 1 .. Len(t) : k < m => t[k][1] < t[m][1]
      BY DEF Increasing
    <3>2. i - Len(s) < j - Len(s)
      BY <1>1
    <3> QED
      BY <2>3, <3>1, <3>2
  <2>4. ~ (i - Len(s) \in 1 .. Len(t) /\ j \in 1 .. Len(s))
    BY <1>1
  <2> QED
    BY <1>1, <2>1, <2>2, <2>3, <2>4 DEF u
<1>3. ASSUME NEW w \in Seq(Frames), Before(s, w), Before(t, w)
      PROVE  Before(u, w)
  <2> SUFFICES ASSUME NEW i \in 1 .. Len(s) + Len(t), NEW j \in 1 .. Len(w)
               PROVE  u[i][1] < w[j][1]
    BY <1>1 DEF Before, u
  <2>1. CASE i \in 1 .. Len(s) /\ u[i] = s[i]
    BY <1>3, <2>1 DEF Before
  <2>2. CASE i - Len(s) \in 1 .. Len(t) /\ u[i] = t[i - Len(s)]
    BY <1>3, <2>2 DEF Before
  <2> QED
    BY <1>1, <2>1, <2>2 DEF u
<1> QED
  BY <1>2, <1>3 DEF u

(***************************************************************************)
(* The counters.                                                           *)
(***************************************************************************)

\* What Count does to each counter the steps use it for.
LEMMA CountEffect ==
    ASSUME stats \in Stats, NEW n \in Nat
    PROVE  /\ Count("FramesRx", n) =>
                  stats' \in Stats /\ stats' = [stats EXCEPT !.FramesRx = stats.FramesRx + n]
           /\ Count("ParseErrors", n) =>
                  stats' \in Stats /\ stats' = [stats EXCEPT !.ParseErrors = stats.ParseErrors + n]
           /\ Count("RingEnqFails", n) =>
                  /\ stats' \in Stats
                  /\ stats' = [stats EXCEPT !.RingEnqFails = stats.RingEnqFails + n]
           /\ Count("FramesDropped", n) =>
                  /\ stats' \in Stats
                  /\ stats' = [stats EXCEPT !.FramesDropped = stats.FramesDropped + n]
           /\ Count("SamplesRx", n) =>
                  stats' \in Stats /\ stats' = [stats EXCEPT !.SamplesRx = stats.SamplesRx + n]
           /\ Count("PullRedlineHits", n) =>
                  /\ stats' \in Stats
                  /\ stats' = [stats EXCEPT !.PullRedlineHits = stats.PullRedlineHits + n]
           /\ Count("CANFuseFrames", n) =>
                  /\ stats' \in Stats
                  /\ stats' = [stats EXCEPT !.CANFuseFrames = stats.CANFuseFrames + n]
BY DEF Stats, Count

LEMMA FuseNat == FuseFrames \in Nat /\ (EnableCANFuse => FuseFrames = 1)
BY DEF FuseFrames

\* What taking the head of one buffer and appending it to another does to types
\* and lengths.
LEMMA MoveTyped ==
    ASSUME NEW s \in Seq(Frames), NEW t \in Seq(Frames), t # <<>>
    PROVE  /\ Append(s, Head(t)) \in Seq(Frames) /\ Tail(t) \in Seq(Frames)
           /\ Len(s) \in Nat /\ Len(Tail(t)) \in Nat
           /\ Len(t) = Len(Tail(t)) + 1 /\ Len(Append(s, Head(t))) = Len(s) + 1
<1>1. /\ Head(t) \in Frames /\ Tail(t) \in Seq(Frames) /\ Len(Tail(t)) = Len(t) - 1
      /\ Len(t) \in Nat /\ Len(s) \in Nat /\ Len(Tail(t)) \in Nat
  BY HeadTailProperties, LenProperties
<1>2. Append(s, Head(t)) \in Seq(Frames) /\ Len(Append(s, Head(t))) = Len(s) + 1
  BY <1>1, AppendProperties
<1> QED
  BY <1>1, <1>2

\* A batch of redline events is a finite number of them.
LEMMA RedsNat ==
    ASSUME NEW s \in Seq(Frames)
    PROVE  Cardinality({k \in 1 .. Len(s) : s[k][2] = "red"}) \in Nat
<1>1. Len(s) \in Nat /\ 1 \in Int
  BY LenProperties
<1>2. IsFiniteSet(1 .. Len(s))
  BY <1>1, FS_Interval
<1>3. {k \in 1 .. Len(s) : s[k][2] = "red"} \subseteq 1 .. Len(s)
  OBVIOUS
<1>4. IsFiniteSet({k \in 1 .. Len(s) : s[k][2] = "red"})
  BY <1>2, <1>3, FS_Subset
<1> QED
  BY <1>4, FS_CardinalityType

(***************************************************************************)
(* Steps that only move a control point: they leave every buffer, every    *)
(* counter and every history alone.                                        *)
(***************************************************************************)
data == <<capVars, frameRing, batchBuf, decoded, sampRing, dspVars, stats>>

Control ==
    \/ Start \/ StartEnds \/ Cancel \/ CallStop
    \/ \E x \in Callers : Stop(x)
    \/ \E x \in Loops : LoopExits(x)
    \/ CaptureBatchDone \/ DecodeBatch \/ FramesDequeued
    \/ DspStep \/ SamplesDequeued \/ DispatchDone

Moves ==
    \/ CaptureBatch \/ FrameAccepted \/ FrameRefused \/ FrameDropped
    \/ DequeueFrame \/ DecodeFails \/ DecodeNoSample \/ SamplesAccepted \/ SamplesRefused
    \/ DecodeBatchDone \/ DequeueSamples \/ ProcessBatch \/ DispatchEmergency

LEMMA NextSplit == Next => Control \/ Moves
BY DEF Next, CaptureLoop, DecodeLoop, DspLoop, Control, Moves, Loops

LEMMA ControlKeeps == Control => UNCHANGED data
<1> SUFFICES ASSUME Control PROVE UNCHANGED data
  OBVIOUS
<1> USE DEF data, capVars, decVars, dspVars, lifeVars
<1>1. CASE Start
  BY <1>1 DEF Start
<1>2. CASE StartEnds
  BY <1>2 DEF StartEnds
<1>3. CASE Cancel
  BY <1>3 DEF Cancel
<1>4. CASE CallStop
  BY <1>4 DEF CallStop
<1>5. CASE \E x \in Callers : Stop(x)
  BY <1>5 DEF Stop, StopSwap, StopClose
<1>6. CASE \E x \in Loops : LoopExits(x)
  BY <1>6 DEF LoopExits
<1>7. CASE CaptureBatchDone
  BY <1>7 DEF CaptureBatchDone
<1>8. CASE DecodeBatch
  BY <1>8 DEF DecodeBatch
<1>9. CASE FramesDequeued
  BY <1>9 DEF FramesDequeued
<1>10. CASE DspStep
  BY <1>10 DEF DspStep
<1>11. CASE SamplesDequeued
  BY <1>11 DEF SamplesDequeued
<1>12. CASE DispatchDone
  BY <1>12 DEF DispatchDone
<1> QED
  BY <1>1, <1>2, <1>3, <1>4, <1>5, <1>6, <1>7, <1>8, <1>9, <1>10, <1>11, <1>12 DEF Control

(***************************************************************************)
(* The type invariant, in two halves: who runs, and what the buffers hold. *)
(***************************************************************************)
LifeOK ==
    /\ running \in BOOLEAN /\ ctxDone \in BOOLEAN /\ closes \in Nat
    /\ pc \in [Loops \cup Callers ->
                  {"idle", "top", "enqueue", "drop", "dequeue", "decode", "process", "dispatch",
                   "wait", "stop", "close", "done"}]

BuffersOK ==
    /\ rawBatch \in Seq(Frames) /\ frameRing \in Seq(Frames) /\ batchBuf \in Seq(Frames)
    /\ sampRing \in Seq(Frames) /\ sampBuf \in Seq(Frames)
    /\ decoded \in Seq(Frames) /\ processed \in Seq(Frames)
    /\ Len(frameRing) <= RingCap /\ Len(sampRing) <= RingCap
    /\ Len(batchBuf) <= DecBatch /\ Len(sampBuf) <= DspBatch

CountersOK ==
    /\ stats \in Stats /\ totalSamples \in Nat /\ redlines \in Nat
    /\ captured \in 0 .. MaxFrames /\ pullBuf \in 0 .. PullCap

LEMMA TypeParts == TypeOK <=> LifeOK /\ BuffersOK /\ CountersOK
BY DEF TypeOK, LifeOK, BuffersOK, CountersOK

LEMMA LifeStep == LifeOK /\ [Next]_vars => LifeOK'
<1> SUFFICES ASSUME LifeOK, [Next]_vars PROVE LifeOK'
  OBVIOUS
<1> USE DEF LifeOK, Goto, lifeVars
<1>a. {"cap", "dec", "dsp"} \subseteq Loops /\ {"start", "other"} \subseteq Callers
  BY DEF Loops, Callers
<1>1. CASE Start
  BY <1>a, <1>1 DEF Start
<1>2. CASE StartEnds
  BY <1>a, <1>2 DEF StartEnds
<1>3. CASE Cancel
  BY <1>a, <1>3 DEF Cancel
<1>4. CASE CallStop
  BY <1>a, <1>4 DEF CallStop
<1>5. CASE \E x \in Callers : Stop(x)
  <2>1. PICK x \in Callers : Stop(x)
    BY <1>5
  <2>2. CASE StopSwap(x)
    <3>1. PICK l \in {"close", "done"} : pc' = [pc EXCEPT ![x] = l]
      BY <2>2 DEF StopSwap
    <3> QED
      BY <2>2, <3>1 DEF StopSwap
  <2>3. CASE StopClose(x)
    BY <2>3 DEF StopClose
  <2> QED
    BY <2>1, <2>2, <2>3 DEF Stop
<1>6. CASE \E x \in Loops : LoopExits(x)
  BY <1>a, <1>6 DEF LoopExits
<1>7. CASE CaptureBatchDone
  BY <1>a, <1>7 DEF CaptureBatchDone
<1>8. CASE DecodeBatch
  BY <1>a, <1>8 DEF DecodeBatch
<1>9. CASE FramesDequeued
  BY <1>a, <1>9 DEF FramesDequeued
<1>10. CASE DspStep
  BY <1>a, <1>10 DEF DspStep
<1>11. CASE SamplesDequeued
  BY <1>a, <1>11 DEF SamplesDequeued
<1>12. CASE DispatchDone
  BY <1>a, <1>12 DEF DispatchDone
<1>13. CASE CaptureBatch
  BY <1>a, <1>13 DEF CaptureBatch
<1>14. CASE FrameAccepted
  BY <1>a, <1>14 DEF FrameAccepted
<1>15. CASE FrameRefused
  BY <1>a, <1>15 DEF FrameRefused
<1>16. CASE DequeueFrame
  BY <1>a, <1>16 DEF DequeueFrame
<1>17. CASE DecodeFails
  BY <1>a, <1>17 DEF DecodeFails
<1>18. CASE DecodeNoSample
  BY <1>a, <1>18 DEF DecodeNoSample
<1>19. CASE SamplesAccepted
  BY <1>a, <1>19 DEF SamplesAccepted
<1>20. CASE SamplesRefused
  BY <1>a, <1>20 DEF SamplesRefused
<1>21. CASE DecodeBatchDone
  BY <1>a, <1>21 DEF DecodeBatchDone
<1>22. CASE DequeueSamples
  BY <1>a, <1>22 DEF DequeueSamples
<1>23. CASE ProcessBatch
  BY <1>a, <1>23 DEF ProcessBatch
<1>24. CASE DispatchEmergency
  BY <1>a, <1>24 DEF DispatchEmergency
<1>25. CASE UNCHANGED vars
  BY <1>25 DEF vars
<1>26. CASE FrameDropped
  BY <1>a, <1>26 DEF FrameDropped
<1> QED
  BY NextSplit, <1>1, <1>2, <1>3, <1>4, <1>5, <1>6, <1>7, <1>8, <1>9, <1>10, <1>11, <1>12, <1>13,
     <1>14, <1>15, <1>16, <1>17, <1>18, <1>19, <1>20, <1>21, <1>22, <1>23, <1>24, <1>25,
     <1>26
     DEF Control, Moves

(***************************************************************************)
(* What a loop holds at each of its control points, without which a new    *)
(* batch could overwrite an unfinished one.                                *)
(***************************************************************************)
StageInv ==
    /\ pc["cap"] \notin {"enqueue", "drop"} => rawBatch = <<>>
    /\ pc["cap"] = "drop" => rawBatch # <<>>
    /\ pc["dec"] # "decode" => totalSamples = 0
    /\ pc["dsp"] # "dispatch" => pullBuf = 0
    /\ pc["start"] = "idle" => \A x \in Loops : pc[x] = "idle"

\* A step that moves no frame leaves the halves about frames true.
LEMMA StutterKeeps ==
    ASSUME BuffersOK, CountersOK, UNCHANGED data, totalSamples' \in Nat
    PROVE  BuffersOK' /\ CountersOK'
BY DEF BuffersOK, CountersOK, data, capVars, dspVars

LEMMA ControlTotal ==
    ASSUME CountersOK, Control
    PROVE  totalSamples' \in {0, totalSamples}
<1> USE DEF decVars, CountersOK
<1>1. CASE Start
  BY <1>1 DEF Start
<1>2. CASE StartEnds
  BY <1>2 DEF StartEnds
<1>3. CASE Cancel
  BY <1>3 DEF Cancel
<1>4. CASE CallStop
  BY <1>4 DEF CallStop
<1>5. CASE \E x \in Callers : Stop(x)
  BY <1>5 DEF Stop, StopSwap, StopClose
<1>6. CASE \E x \in Loops : LoopExits(x)
  BY <1>6 DEF LoopExits
<1>7. CASE CaptureBatchDone
  BY <1>7 DEF CaptureBatchDone
<1>8. CASE DecodeBatch
  BY <1>8 DEF DecodeBatch
<1>9. CASE FramesDequeued
  BY <1>9 DEF FramesDequeued
<1>10. CASE DspStep
  BY <1>10 DEF DspStep
<1>11. CASE SamplesDequeued
  BY <1>11 DEF SamplesDequeued
<1>12. CASE DispatchDone
  BY <1>12 DEF DispatchDone
<1> QED
  BY <1>1, <1>2, <1>3, <1>4, <1>5, <1>6, <1>7, <1>8, <1>9, <1>10, <1>11, <1>12 DEF Control

LEMMA BuffersStep ==
    BuffersOK /\ CountersOK /\ StageInv /\ Next => BuffersOK' /\ CountersOK'
<1> SUFFICES ASSUME BuffersOK, CountersOK, StageInv, Next PROVE BuffersOK' /\ CountersOK'
  OBVIOUS
<1> USE DEF data, capVars, decVars, dspVars, lifeVars, Decoded
<1>0. /\ {BatchSize, DecBatch, DspBatch, PullCap, RingCap, MaxFrames} \subseteq Nat
      /\ 1 \in Nat
  BY SizesAssumption
<1>1. CASE Control
  BY <1>1, ControlKeeps, ControlTotal, StutterKeeps DEF CountersOK
<1>2. CASE CaptureBatch
  <2>1. PICK kind \in [1 .. BatchSize -> Kinds] :
            rawBatch' = [i \in 1 .. BatchSize |-> <<captured + i, kind[i]>>]
    BY <1>2 DEF CaptureBatch
  <2>2. captured' \in 0 .. MaxFrames
    BY <1>0, <1>2 DEF CaptureBatch, CountersOK
  <2>3. \A i \in 1 .. BatchSize : <<captured + i, kind[i]>> \in Frames
    <3>1. ASSUME NEW i \in 1 .. BatchSize PROVE captured + i \in 1 .. MaxFrames
      BY <1>0, <1>2 DEF CaptureBatch, CountersOK
    <3> QED
      BY <3>1 DEF Frames
  <2>4. rawBatch' \in Seq(Frames)
    BY <1>0, <2>1, <2>3, SeqDef
  <2>5. stats' \in Stats
    BY <1>0, <1>2, CountEffect DEF CaptureBatch, CountersOK
  <2> QED
    BY <1>2, <2>2, <2>4, <2>5 DEF CaptureBatch, BuffersOK, CountersOK
<1>3. CASE FrameAccepted
  <2>1. stats' = stats /\ pullBuf' = pullBuf /\ totalSamples' = totalSamples
    BY <1>3 DEF FrameAccepted
  <2>2. BuffersOK'
    BY <1>0, <1>3, MoveTyped DEF FrameAccepted, BuffersOK
  <2> QED
    BY <1>3, <2>1, <2>2 DEF FrameAccepted, CountersOK
<1>4. CASE FrameRefused
  <2>1. stats' \in Stats
    BY <1>0, <1>4, CountEffect DEF FrameRefused, CountersOK
  <2> QED
    BY <1>4, <2>1 DEF FrameRefused, BuffersOK, CountersOK
<1>14. CASE FrameDropped
  <2>1. ASSUME rawBatch # <<>> PROVE BuffersOK'
    BY <1>14, <2>1, HeadTailProperties DEF FrameDropped, BuffersOK
  <2>2. stats' \in Stats
    BY <1>0, <1>14, CountEffect DEF FrameDropped, CountersOK
  <2> QED
    BY <1>14, <2>1, <2>2 DEF FrameDropped, CountersOK, StageInv
<1>5. CASE DequeueFrame
  <2>1. BuffersOK'
    BY <1>0, <1>5, MoveTyped DEF DequeueFrame, BuffersOK
  <2> QED
    BY <1>5, <2>1 DEF DequeueFrame, CountersOK
<1>6. CASE DecodeFails
  <2>1. BuffersOK'
    BY <1>0, <1>6, MoveTyped DEF DecodeFails, BuffersOK
  <2>2. stats' \in Stats
    BY <1>0, <1>6, CountEffect DEF DecodeFails, CountersOK
  <2> QED
    BY <1>6, <2>1, <2>2 DEF DecodeFails, CountersOK
<1>7. CASE DecodeNoSample
  <2>1. BuffersOK'
    BY <1>0, <1>7, MoveTyped DEF DecodeNoSample, BuffersOK
  <2> QED
    BY <1>7, <2>1 DEF DecodeNoSample, CountersOK
<1>8. CASE SamplesAccepted
  <2>1. /\ Append(sampRing, Head(batchBuf)) \in Seq(Frames)
        /\ Len(Append(sampRing, Head(batchBuf))) <= RingCap
    <3>1. Head(batchBuf) \in Frames
      BY <1>8, HeadTailProperties DEF SamplesAccepted, BuffersOK
    <3>2. Len(sampRing) \in Nat /\ Len(sampRing) < RingCap
      BY <1>8, LenProperties DEF SamplesAccepted, BuffersOK
    <3> QED
      BY <1>0, <3>1, <3>2, AppendProperties DEF BuffersOK
  <2>2. /\ Tail(batchBuf) \in Seq(Frames) /\ Append(decoded, Head(batchBuf)) \in Seq(Frames)
        /\ Len(Tail(batchBuf)) <= DecBatch
    BY <1>0, <1>8, MoveTyped DEF SamplesAccepted, BuffersOK
  <2>3. BuffersOK'
    BY <1>8, <2>1, <2>2 DEF SamplesAccepted, BuffersOK
  <2> QED
    BY <1>8, <2>3 DEF SamplesAccepted, CountersOK
<1>9. CASE SamplesRefused
  <2>1. BuffersOK'
    BY <1>0, <1>9, MoveTyped DEF SamplesRefused, BuffersOK
  <2>2. stats' \in Stats
    BY <1>0, <1>9, CountEffect DEF SamplesRefused, CountersOK
  <2> QED
    BY <1>9, <2>1, <2>2 DEF SamplesRefused, CountersOK
<1>10. CASE DecodeBatchDone
  <2>1. stats' \in Stats
    BY <1>10, CountEffect DEF DecodeBatchDone, CountersOK
  <2> QED
    BY <1>10, <2>1 DEF DecodeBatchDone, BuffersOK, CountersOK
<1>11. CASE DequeueSamples
  <2>1. BuffersOK'
    BY <1>0, <1>11, MoveTyped DEF DequeueSamples, BuffersOK
  <2> QED
    BY <1>11, <2>1 DEF DequeueSamples, CountersOK
<1>12. CASE ProcessBatch
  <2> DEFINE reds == Cardinality({k \in 1 .. Len(sampBuf) : sampBuf[k][2] = "red"})
  <2>1. reds \in Nat
    BY RedsNat DEF BuffersOK
  <2>2. /\ pullBuf' = IF reds <= PullCap THEN reds ELSE PullCap
        /\ redlines' = redlines + reds /\ Count("PullRedlineHits", pullBuf')
        /\ processed' = processed \o sampBuf /\ sampBuf' = <<>>
    BY <1>12 DEF ProcessBatch
  <2> HIDE DEF reds
  <2>3. pullBuf' \in 0 .. PullCap /\ pullBuf' \in Nat /\ redlines' \in Nat
    BY <1>0, <2>1, <2>2 DEF CountersOK
  <2>4. stats' \in Stats
    BY <2>2, <2>3, CountEffect DEF CountersOK
  <2>5. processed' \in Seq(Frames)
    BY <2>2, ConcatProperties DEF BuffersOK
  <2>6. sampBuf' \in Seq(Frames) /\ Len(sampBuf') <= DspBatch
    BY <1>0, <2>2, EmptySeq
  <2> QED
    BY <1>12, <2>3, <2>4, <2>5, <2>6 DEF ProcessBatch, BuffersOK, CountersOK
<1>13. CASE DispatchEmergency
  <2>1. stats' \in Stats
    BY <1>0, <1>13, CountEffect, FuseNat DEF DispatchEmergency, CountersOK
  <2>2. pullBuf' \in 0 .. PullCap
    BY <1>0, <1>13 DEF DispatchEmergency, CountersOK
  <2> QED
    BY <1>13, <2>1, <2>2 DEF DispatchEmergency, BuffersOK, CountersOK
<1> QED
  BY NextSplit, <1>1, <1>2, <1>3, <1>4, <1>5, <1>6, <1>7, <1>8, <1>9, <1>10, <1>11, <1>12, <1>13,
     <1>14 DEF Moves

LEMMA StageStep == LifeOK /\ BuffersOK /\ CountersOK /\ StageInv /\ [Next]_vars => StageInv'
<1> SUFFICES ASSUME LifeOK, BuffersOK, CountersOK, StageInv, [Next]_vars PROVE StageInv'
  OBVIOUS
<1> USE DEF StageInv, LifeOK, Goto, capVars, decVars, dspVars, lifeVars
<1>a. "start" \in Callers /\ Loops = {"cap", "dec", "dsp"} /\ Callers = {"start", "other"}
  BY DEF Loops, Callers
<1>1. CASE Start
  BY <1>a, <1>1 DEF Start
<1>2. CASE StartEnds
  BY <1>a, <1>2 DEF StartEnds
<1>3. CASE Cancel
  BY <1>a, <1>3 DEF Cancel
<1>4. CASE CallStop
  BY <1>a, <1>4 DEF CallStop
<1>5. CASE \E x \in Callers : Stop(x)
  BY <1>a, <1>5 DEF Stop, StopSwap, StopClose
<1>6. CASE \E x \in Loops : LoopExits(x)
  BY <1>a, <1>6 DEF LoopExits
<1>7. CASE CaptureBatchDone
  BY <1>a, <1>7 DEF CaptureBatchDone
<1>8. CASE DecodeBatch
  BY <1>a, <1>8 DEF DecodeBatch
<1>9. CASE FramesDequeued
  BY <1>a, <1>9 DEF FramesDequeued
<1>10. CASE DspStep
  BY <1>a, <1>10 DEF DspStep
<1>11. CASE SamplesDequeued
  BY <1>a, <1>11 DEF SamplesDequeued
<1>12. CASE DispatchDone
  BY <1>a, <1>12 DEF DispatchDone
<1>13. CASE CaptureBatch
  BY <1>a, <1>13 DEF CaptureBatch
<1>14. CASE FrameAccepted
  BY <1>a, <1>14 DEF FrameAccepted
<1>15. CASE FrameRefused
  BY <1>a, <1>15 DEF FrameRefused
<1>16. CASE DequeueFrame
  BY <1>a, <1>16 DEF DequeueFrame
<1>17. CASE DecodeFails
  BY <1>a, <1>17 DEF DecodeFails
<1>18. CASE DecodeNoSample
  BY <1>a, <1>18 DEF DecodeNoSample
<1>19. CASE SamplesAccepted
  BY <1>a, <1>19 DEF SamplesAccepted
<1>20. CASE SamplesRefused
  BY <1>a, <1>20 DEF SamplesRefused
<1>21. CASE DecodeBatchDone
  BY <1>a, <1>21 DEF DecodeBatchDone
<1>22. CASE DequeueSamples
  BY <1>a, <1>22 DEF DequeueSamples
<1>23. CASE ProcessBatch
  BY <1>a, <1>23 DEF ProcessBatch
<1>24. CASE DispatchEmergency
  BY <1>a, <1>24 DEF DispatchEmergency
<1>25. CASE UNCHANGED vars
  BY <1>25 DEF vars
<1>26. CASE FrameDropped
  BY <1>a, <1>26 DEF FrameDropped
<1> QED
  BY NextSplit, <1>1, <1>2, <1>3, <1>4, <1>5, <1>6, <1>7, <1>8, <1>9, <1>10, <1>11, <1>12, <1>13,
     <1>14, <1>15, <1>16, <1>17, <1>18, <1>19, <1>20, <1>21, <1>22, <1>23, <1>24, <1>25,
     <1>26
     DEF Control, Moves

\* DecodeBatch resets a total that is zero already.
LEMMA ControlKeepsTotal == CountersOK /\ StageInv /\ Control => totalSamples' = totalSamples
<1> SUFFICES ASSUME CountersOK, StageInv, Control PROVE totalSamples' = totalSamples
  OBVIOUS
<1> USE DEF decVars
<1>13. CASE DecodeBatch
  BY <1>13 DEF DecodeBatch, StageInv
<1>1. CASE Start
  BY <1>1 DEF Start
<1>2. CASE StartEnds
  BY <1>2 DEF StartEnds
<1>3. CASE Cancel
  BY <1>3 DEF Cancel
<1>4. CASE CallStop
  BY <1>4 DEF CallStop
<1>5. CASE \E x \in Callers : Stop(x)
  BY <1>5 DEF Stop, StopSwap, StopClose
<1>6. CASE \E x \in Loops : LoopExits(x)
  BY <1>6 DEF LoopExits
<1>7. CASE CaptureBatchDone
  BY <1>7 DEF CaptureBatchDone
<1>8. CASE FramesDequeued
  BY <1>8 DEF FramesDequeued
<1>9. CASE DspStep
  BY <1>9 DEF DspStep
<1>10. CASE SamplesDequeued
  BY <1>10 DEF SamplesDequeued
<1>11. CASE DispatchDone
  BY <1>11 DEF DispatchDone
<1> QED
  BY <1>1, <1>2, <1>3, <1>4, <1>5, <1>6, <1>7, <1>8, <1>9, <1>10, <1>11, <1>13 DEF Control

(***************************************************************************)
(* The accounts.  They are sums of the levels of the buffers and of the    *)
(* counters, which get a name each.                                        *)
(***************************************************************************)
nRaw     == Len(rawBatch)
nFrames  == Len(frameRing)
nBatch   == Len(batchBuf)
nDecoded == Len(decoded)
nSamples == Len(sampRing)
nBuf     == Len(sampBuf)
nProcessed == Len(processed)

rx      == stats.FramesRx
dropped == stats.FramesDropped
refused == stats.RingEnqFails
samples == stats.SamplesRx
hits    == stats.PullRedlineHits
sent    == stats.CANFuseFrames
pending == Dropping

Accounts == FramesAccounted /\ SamplesAccounted /\ EveryHitDispatched

Sums ==
    /\ rx = nRaw + dropped + nFrames + nBatch + nDecoded
    /\ samples + totalSamples = nProcessed + nBuf + nSamples + (refused - dropped - pending)
    /\ EnableCANFuse => hits = sent + pullBuf

LevelsOK ==
    /\ nRaw \in Nat /\ nFrames \in Nat /\ nBatch \in Nat /\ nDecoded \in Nat
    /\ nSamples \in Nat /\ nBuf \in Nat /\ nProcessed \in Nat
    /\ rx \in Nat /\ dropped \in Nat /\ refused \in Nat /\ samples \in Nat
    /\ hits \in Nat /\ sent \in Nat /\ totalSamples \in Nat /\ pullBuf \in Nat
    /\ pending \in Nat

\* The counters after a step, and a step that changes none.
Tally(r, d, f, s, h, c) ==
    /\ rx' = r /\ dropped' = d /\ refused' = f /\ samples' = s /\ hits' = h /\ sent' = c

SameTally == Tally(rx, dropped, refused, samples, hits, sent)

TypeInv == LifeOK /\ BuffersOK /\ CountersOK

LEMMA AccountsAreSums == Accounts <=> Sums
BY DEF Accounts, Sums, FramesAccounted, SamplesAccounted, EveryHitDispatched, nRaw, nFrames,
       nBatch,
       nDecoded, nSamples, nBuf, nProcessed, rx, dropped, refused, samples, hits, sent, pending

LEMMA LevelsNat == BuffersOK /\ CountersOK => LevelsOK
<1> SUFFICES ASSUME BuffersOK, CountersOK PROVE LevelsOK
  OBVIOUS
<1>1. /\ nRaw \in Nat /\ nFrames \in Nat /\ nBatch \in Nat /\ nDecoded \in Nat
      /\ nSamples \in Nat /\ nBuf \in Nat /\ nProcessed \in Nat
  BY LenProperties DEF BuffersOK, nRaw, nFrames, nBatch, nDecoded, nSamples, nBuf, nProcessed
<1>2. /\ rx \in Nat /\ dropped \in Nat /\ refused \in Nat /\ samples \in Nat
      /\ hits \in Nat /\ sent \in Nat
  BY DEF CountersOK, Stats, rx, dropped, refused, samples, hits, sent
<1>3. totalSamples \in Nat /\ pullBuf \in Nat /\ pending \in Nat
  BY SizesAssumption DEF CountersOK, pending, Dropping
<1> QED
  BY <1>1, <1>2, <1>3 DEF LevelsOK

LEMMA SameStats == UNCHANGED stats => SameTally
BY DEF SameTally, Tally, rx, dropped, refused, samples, hits, sent

LEMMA CountTally ==
    ASSUME stats \in Stats, NEW n \in Nat
    PROVE  /\ Count("FramesRx", n) => Tally(rx + n, dropped, refused, samples, hits, sent)
           /\ Count("ParseErrors", n) => SameTally
           /\ Count("RingEnqFails", n) => Tally(rx, dropped, refused + n, samples, hits, sent)
           /\ Count("FramesDropped", n) => Tally(rx, dropped + n, refused, samples, hits, sent)
           /\ Count("SamplesRx", n) => Tally(rx, dropped, refused, samples + n, hits, sent)
           /\ Count("PullRedlineHits", n) => Tally(rx, dropped, refused, samples, hits + n, sent)
           /\ Count("CANFuseFrames", n) => Tally(rx, dropped, refused, samples, hits, sent + n)
BY DEF Stats, Count, SameTally, Tally, rx, dropped, refused, samples, hits, sent

\* Only the two steps of a refusal reach or leave the point between them.
LEMMA ControlPending == LifeOK /\ StageInv /\ Control => pending' = pending
<1> SUFFICES ASSUME LifeOK, StageInv, Control PROVE pending' = pending
  OBVIOUS
<1>a. {"cap", "dec", "dsp"} \subseteq Loops /\ {"start", "other"} \subseteq Callers
  BY DEF Loops, Callers
<1>b. Callers = {"start", "other"} /\ Loops = {"cap", "dec", "dsp"}
  BY DEF Loops, Callers
<1> USE DEF LifeOK, StageInv, Goto, pending, Dropping
<1>1. CASE Start
  BY <1>a, <1>1 DEF Start
<1>2. CASE StartEnds
  BY <1>a, <1>2 DEF StartEnds
<1>3. CASE Cancel
  BY <1>a, <1>3 DEF Cancel
<1>4. CASE CallStop
  BY <1>a, <1>4 DEF CallStop
<1>5. CASE \E x \in Callers : Stop(x)
  BY <1>a, <1>b, <1>5 DEF Stop, StopSwap, StopClose
<1>6. CASE \E x \in Loops : LoopExits(x)
  BY <1>a, <1>b, <1>6 DEF LoopExits
<1>7. CASE CaptureBatchDone
  BY <1>a, <1>7 DEF CaptureBatchDone
<1>8. CASE DecodeBatch
  BY <1>a, <1>8 DEF DecodeBatch
<1>9. CASE FramesDequeued
  BY <1>a, <1>9 DEF FramesDequeued
<1>10. CASE DspStep
  BY <1>a, <1>10 DEF DspStep
<1>11. CASE SamplesDequeued
  BY <1>a, <1>11 DEF SamplesDequeued
<1>12. CASE DispatchDone
  BY <1>a, <1>12 DEF DispatchDone
<1> QED
  BY <1>1, <1>2, <1>3, <1>4, <1>5, <1>6, <1>7, <1>8, <1>9, <1>10, <1>11, <1>12 DEF Control

LEMMA MovesPending ==
    ASSUME LifeOK,
           \/ CaptureBatch \/ FrameAccepted \/ DequeueFrame \/ DecodeFails \/ DecodeNoSample
           \/ SamplesAccepted \/ SamplesRefused \/ DecodeBatchDone \/ DequeueSamples \/ ProcessBatch
           \/ DispatchEmergency
    PROVE  pending' = pending
<1>a. {"cap", "dec", "dsp"} \subseteq Loops
  BY DEF Loops
<1> USE DEF LifeOK, Goto, pending, Dropping
<1>1. CASE CaptureBatch
  BY <1>a, <1>1 DEF CaptureBatch
<1>2. CASE FrameAccepted
  BY <1>a, <1>2 DEF FrameAccepted
<1>3. CASE DequeueFrame
  BY <1>a, <1>3 DEF DequeueFrame
<1>4. CASE DecodeFails
  BY <1>a, <1>4 DEF DecodeFails
<1>5. CASE DecodeNoSample
  BY <1>a, <1>5 DEF DecodeNoSample
<1>6. CASE SamplesAccepted
  BY <1>a, <1>6 DEF SamplesAccepted
<1>7. CASE SamplesRefused
  BY <1>a, <1>7 DEF SamplesRefused
<1>8. CASE DecodeBatchDone
  BY <1>a, <1>8 DEF DecodeBatchDone
<1>9. CASE DequeueSamples
  BY <1>a, <1>9 DEF DequeueSamples
<1>10. CASE ProcessBatch
  BY <1>a, <1>10 DEF ProcessBatch
<1>11. CASE DispatchEmergency
  BY <1>a, <1>11 DEF DispatchEmergency
<1> QED
  BY <1>1, <1>2, <1>3, <1>4, <1>5, <1>6, <1>7, <1>8, <1>9, <1>10, <1>11

LEMMA SumsStep == TypeInv /\ StageInv /\ Sums /\ Next => Sums'
<1> SUFFICES ASSUME TypeInv, StageInv, Sums, Next PROVE Sums'
  OBVIOUS
<1>0. BuffersOK /\ CountersOK /\ stats \in Stats /\ LevelsOK
  BY LevelsNat DEF TypeInv, CountersOK
<1>a. BatchSize \in Nat /\ totalSamples \in Nat /\ pullBuf \in Nat /\ 1 \in Nat
  BY <1>0, SizesAssumption DEF CountersOK
<1>b. LifeOK
  BY DEF TypeInv
<1> USE DEF capVars, decVars, dspVars, lifeVars, Decoded
<1>1. CASE Control
  <2>1. UNCHANGED data /\ totalSamples' = totalSamples
    BY <1>0, <1>1, ControlKeeps, ControlKeepsTotal
  <2>2. pending' = pending
    BY <1>1, <1>b, ControlPending
  <2> QED
    BY <2>1, <2>2 DEF data, Sums, nRaw, nFrames, nBatch, nDecoded, nSamples, nBuf, nProcessed,
                rx, dropped, refused, samples, hits, sent
<1>2. CASE CaptureBatch
  <2>1. nRaw = 0 /\ nRaw' = BatchSize
    BY <1>2, <1>0, <1>a, EmptySeq
       DEF CaptureBatch, StageInv, BuffersOK, nRaw
  <2>2. UNCHANGED <<nFrames, nBatch, nDecoded, totalSamples, nSamples, nBuf, nProcessed,
                   pullBuf>>
    BY <1>2 DEF CaptureBatch, nFrames, nBatch, nDecoded, nSamples, nBuf, nProcessed
  <2>3. Tally(rx + BatchSize, dropped, refused, samples, hits, sent)
    BY <1>2, <1>0, <1>a, CountTally DEF CaptureBatch
  <2>4. pending' = pending
    BY <1>2, <1>b, MovesPending
  <2> QED
    BY <1>0, <1>a, <2>1, <2>2, <2>3, <2>4 DEF Sums, LevelsOK, Tally
<1>3. CASE FrameAccepted
  <2>1. nFrames' = nFrames + 1 /\ nRaw' = nRaw - 1
    BY <1>3, <1>0, <1>a, MoveTyped
       DEF FrameAccepted, BuffersOK, nFrames, nRaw
  <2>2. UNCHANGED <<nBatch, nDecoded, totalSamples, nSamples, nBuf, nProcessed, pullBuf>>
    BY <1>3 DEF FrameAccepted, nBatch, nDecoded, nSamples, nBuf, nProcessed
  <2>3. SameTally
    BY <1>3, SameStats DEF FrameAccepted
  <2>4. pending' = pending
    BY <1>3, <1>b, MovesPending
  <2> QED
    BY <1>0, <1>a, <2>1, <2>2, <2>3, <2>4 DEF Sums, LevelsOK, Tally, SameTally
<1>4. CASE FrameRefused
  <2>1. UNCHANGED <<nRaw, nFrames, nBatch, nDecoded, totalSamples, nSamples, nBuf, nProcessed,
                   pullBuf>>
    BY <1>4 DEF FrameRefused, nRaw, nFrames, nBatch, nDecoded, nSamples, nBuf, nProcessed
  <2>2. pending = 0 /\ pending' = 1
    BY <1>4 DEF FrameRefused, Goto, TypeInv, LifeOK, pending, Dropping, Loops
  <2>3. Tally(rx, dropped, refused + 1, samples, hits, sent)
    BY <1>4, <1>0, <1>a, CountTally DEF FrameRefused
  <2> QED
    BY <1>0, <1>a, <2>1, <2>2, <2>3 DEF Sums, LevelsOK, Tally
<1>14. CASE FrameDropped
  <2>1. nRaw' = nRaw - 1
    BY <1>14, <1>0, <1>a, MoveTyped
       DEF FrameDropped, StageInv, BuffersOK, nRaw
  <2>2. UNCHANGED <<nFrames, nBatch, nDecoded, totalSamples, nSamples, nBuf, nProcessed,
                   pullBuf>>
    BY <1>14 DEF FrameDropped, nFrames, nBatch, nDecoded, nSamples, nBuf, nProcessed
  <2>3. pending = 1 /\ pending' = 0
    BY <1>14 DEF FrameDropped, Goto, TypeInv, LifeOK, pending, Dropping, Loops
  <2>4. Tally(rx, dropped + 1, refused, samples, hits, sent)
    BY <1>14, <1>0, <1>a, CountTally DEF FrameDropped
  <2> QED
    BY <1>0, <1>a, <2>1, <2>2, <2>3, <2>4 DEF Sums, LevelsOK, Tally
<1>5. CASE DequeueFrame
  <2>1. nBatch' = nBatch + 1 /\ nFrames' = nFrames - 1
    BY <1>5, <1>0, <1>a, MoveTyped
       DEF DequeueFrame, BuffersOK, nBatch, nFrames
  <2>2. UNCHANGED <<nRaw, nDecoded, totalSamples, nSamples, nBuf, nProcessed, pullBuf>>
    BY <1>5 DEF DequeueFrame, nRaw, nDecoded, nSamples, nBuf, nProcessed
  <2>3. SameTally
    BY <1>5, SameStats DEF DequeueFrame
  <2>4. pending' = pending
    BY <1>5, <1>b, MovesPending
  <2> QED
    BY <1>0, <1>a, <2>1, <2>2, <2>3, <2>4 DEF Sums, LevelsOK, Tally, SameTally
<1>6. CASE DecodeFails
  <2>1. nDecoded' = nDecoded + 1 /\ nBatch' = nBatch - 1
    BY <1>6, <1>0, <1>a, MoveTyped
       DEF DecodeFails, BuffersOK, nBatch, nDecoded
  <2>2. UNCHANGED <<nRaw, nFrames, totalSamples, nSamples, nBuf, nProcessed, pullBuf>>
    BY <1>6 DEF DecodeFails, nRaw, nFrames, nSamples, nBuf, nProcessed
  <2>3. SameTally
    BY <1>6, <1>0, <1>a, CountTally DEF DecodeFails
  <2>4. pending' = pending
    BY <1>6, <1>b, MovesPending
  <2> QED
    BY <1>0, <1>a, <2>1, <2>2, <2>3, <2>4 DEF Sums, LevelsOK, Tally, SameTally
<1>7. CASE DecodeNoSample
  <2>1. nDecoded' = nDecoded + 1 /\ nBatch' = nBatch - 1
    BY <1>7, <1>0, <1>a, MoveTyped
       DEF DecodeNoSample, BuffersOK, nBatch, nDecoded
  <2>2. UNCHANGED <<nRaw, nFrames, totalSamples, nSamples, nBuf, nProcessed, pullBuf>>
    BY <1>7 DEF DecodeNoSample, nRaw, nFrames, nSamples, nBuf, nProcessed
  <2>3. SameTally
    BY <1>7, SameStats DEF DecodeNoSample
  <2>4. pending' = pending
    BY <1>7, <1>b, MovesPending
  <2> QED
    BY <1>0, <1>a, <2>1, <2>2, <2>3, <2>4 DEF Sums, LevelsOK, Tally, SameTally
<1>8. CASE SamplesAccepted
  <2>1. /\ nDecoded' = nDecoded + 1 /\ nBatch' = nBatch - 1
        /\ nSamples' = nSamples + 1
    BY <1>8, <1>0, <1>a, MoveTyped
       DEF SamplesAccepted, BuffersOK, nSamples, nBatch, nDecoded
  <2>2. UNCHANGED <<nRaw, nFrames, nBuf, nProcessed,
                   pullBuf>> /\ totalSamples' = totalSamples + 1
    BY <1>8 DEF SamplesAccepted, nRaw, nFrames, nBuf, nProcessed
  <2>3. SameTally
    BY <1>8, SameStats DEF SamplesAccepted
  <2>4. pending' = pending
    BY <1>8, <1>b, MovesPending
  <2> QED
    BY <1>0, <1>a, <2>1, <2>2, <2>3, <2>4 DEF Sums, LevelsOK, Tally, SameTally
<1>9. CASE SamplesRefused
  <2>1. nDecoded' = nDecoded + 1 /\ nBatch' = nBatch - 1
    BY <1>9, <1>0, <1>a, MoveTyped
       DEF SamplesRefused, BuffersOK, nBatch, nDecoded
  <2>2. UNCHANGED <<nRaw, nFrames, nSamples, nBuf, nProcessed,
                   pullBuf>> /\ totalSamples' = totalSamples + 1
    BY <1>9 DEF SamplesRefused, nRaw, nFrames, nSamples, nBuf, nProcessed
  <2>3. Tally(rx, dropped, refused + 1, samples, hits, sent)
    BY <1>9, <1>0, <1>a, CountTally DEF SamplesRefused
  <2>4. pending' = pending
    BY <1>9, <1>b, MovesPending
  <2> QED
    BY <1>0, <1>a, <2>1, <2>2, <2>3, <2>4 DEF Sums, LevelsOK, Tally
<1>10. CASE DecodeBatchDone
  <2>1. UNCHANGED <<nRaw, nFrames, nBatch, nDecoded, nSamples, nBuf, nProcessed,
                   pullBuf>> /\ totalSamples' = 0
    BY <1>10 DEF DecodeBatchDone, nRaw, nFrames, nBatch, nDecoded, nSamples, nBuf, nProcessed
  <2>2. Tally(rx, dropped, refused, samples + totalSamples, hits, sent)
    BY <1>10, <1>0, <1>a, CountTally DEF DecodeBatchDone
  <2>3. pending' = pending
    BY <1>10, <1>b, MovesPending
  <2> QED
    BY <1>0, <1>a, <2>1, <2>2, <2>3 DEF Sums, LevelsOK, Tally
<1>11. CASE DequeueSamples
  <2>1. nBuf' = nBuf + 1 /\ nSamples' = nSamples - 1
    BY <1>11, <1>0, <1>a, MoveTyped
       DEF DequeueSamples, BuffersOK, nBuf, nSamples
  <2>2. UNCHANGED <<nRaw, nFrames, nBatch, nDecoded, totalSamples, nProcessed, pullBuf>>
    BY <1>11 DEF DequeueSamples, nRaw, nFrames, nBatch, nDecoded, nProcessed
  <2>3. SameTally
    BY <1>11, SameStats DEF DequeueSamples
  <2>4. pending' = pending
    BY <1>11, <1>b, MovesPending
  <2> QED
    BY <1>0, <1>a, <2>1, <2>2, <2>3, <2>4 DEF Sums, LevelsOK, Tally, SameTally
<1>12. CASE ProcessBatch
  <2>1. pullBuf = 0 /\ pullBuf' \in Nat
    BY <1>12, <1>0, BuffersStep, SizesAssumption DEF ProcessBatch, StageInv, CountersOK
  <2>2. nProcessed' = nProcessed + nBuf /\ nBuf' = 0
    BY <1>12, <1>0, <1>a, ConcatProperties, EmptySeq
       DEF ProcessBatch, BuffersOK, nBuf, nProcessed
  <2>3. UNCHANGED <<nRaw, nFrames, nBatch, nDecoded, totalSamples, nSamples>>
    BY <1>12 DEF ProcessBatch, nRaw, nFrames, nBatch, nDecoded, nSamples
  <2>4. Tally(rx, dropped, refused, samples, hits + pullBuf', sent)
    BY <1>12, <1>0, <1>a, <2>1, CountTally DEF ProcessBatch
  <2>5. pending' = pending
    BY <1>12, <1>b, MovesPending
  <2> QED
    BY <1>0, <1>a, <2>1, <2>2, <2>3, <2>4, <2>5 DEF Sums, LevelsOK, Tally
<1>13. CASE DispatchEmergency
  <2>1. UNCHANGED <<nRaw, nFrames, nBatch, nDecoded, totalSamples, nSamples, nBuf,
                   nProcessed>> /\ pullBuf' = pullBuf - 1
    BY <1>13 DEF DispatchEmergency, nRaw, nFrames, nBatch, nDecoded, nSamples, nBuf, nProcessed
  <2>2. Tally(rx, dropped, refused, samples, hits, sent + FuseFrames)
    BY <1>13, <1>0, FuseNat, CountTally DEF DispatchEmergency
  <2>3. pending' = pending
    BY <1>13, <1>b, MovesPending
  <2> QED
    BY <1>0, <1>a, FuseNat, <2>1, <2>2, <2>3 DEF Sums, LevelsOK, Tally
<1> QED
  BY NextSplit, <1>1, <1>2, <1>3, <1>4, <1>5, <1>6, <1>7, <1>8, <1>9, <1>10, <1>11, <1>12,
         <1>13, <1>14 DEF Moves

(***************************************************************************)
(* The order of frames, at every place where one may wait.                 *)
(***************************************************************************)
OrderInv ==
    /\ Increasing(decoded) /\ Increasing(batchBuf) /\ Increasing(frameRing)
    /\ Increasing(rawBatch) /\ Increasing(processed) /\ Increasing(sampBuf)
    /\ Increasing(sampRing)
    /\ Before(decoded, batchBuf) /\ Before(decoded, frameRing) /\ Before(decoded, rawBatch)
    /\ Before(batchBuf, frameRing) /\ Before(batchBuf, rawBatch) /\ Before(frameRing, rawBatch)
    /\ Before(processed, sampBuf) /\ Before(processed, sampRing) /\ Before(sampBuf, sampRing)
    /\ Before(processed, batchBuf) /\ Before(processed, frameRing) /\ Before(processed, rawBatch)
    /\ Before(sampBuf, batchBuf) /\ Before(sampBuf, frameRing) /\ Before(sampBuf, rawBatch)
    /\ Before(sampRing, batchBuf) /\ Before(sampRing, frameRing) /\ Before(sampRing, rawBatch)
    /\ UpTo(decoded, captured) /\ UpTo(batchBuf, captured) /\ UpTo(frameRing, captured)
    /\ UpTo(rawBatch, captured) /\ UpTo(processed, captured) /\ UpTo(sampBuf, captured)
    /\ UpTo(sampRing, captured)

\* A frame that is dropped leaves the others in order.
LEMMA DropKeeps ==
    ASSUME NEW t \in Seq(Frames), t # <<>>, NEW n
    PROVE  /\ Tail(t) \in Seq(Frames)
           /\ Increasing(t) => Increasing(Tail(t))
           /\ UpTo(t, n) => UpTo(Tail(t), n)
           /\ \A w \in Seq(Frames) : Before(w, t) => Before(w, Tail(t))
<1>1. /\ Len(t) \in Nat /\ Len(Tail(t)) = Len(t) - 1 /\ Tail(t) \in Seq(Frames)
      /\ \A i \in 1 .. Len(Tail(t)) : Tail(t)[i] = t[i + 1] /\ i + 1 \in 1 .. Len(t)
  BY HeadTailProperties, LenProperties
<1>2. Increasing(t) => Increasing(Tail(t))
  BY <1>1 DEF Increasing
<1>3. UpTo(t, n) => UpTo(Tail(t), n)
  BY <1>1 DEF UpTo
<1>4. \A w \in Seq(Frames) : Before(w, t) => Before(w, Tail(t))
  BY <1>1 DEF Before
<1> QED
  BY <1>1, <1>2, <1>3, <1>4

\* An empty buffer is before and behind every other one.
LEMMA EmptyOrdered ==
    ASSUME NEW w \in Seq(Frames), NEW n
    PROVE  Increasing(<<>>) /\ UpTo(<<>>, n) /\ Before(<<>>, w) /\ Before(w, <<>>)
BY DEF Increasing, UpTo, Before

LEMMA ConcatUpTo ==
    ASSUME NEW s \in Seq(Frames), NEW t \in Seq(Frames), NEW n, UpTo(s, n), UpTo(t, n)
    PROVE  UpTo(s \o t, n)
<1>1. /\ Len(s) \in Nat /\ Len(t) \in Nat /\ Len(s \o t) = Len(s) + Len(t)
      /\ \A i \in 1 .. Len(s) + Len(t) :
             \/ i \in 1 .. Len(s) /\ (s \o t)[i] = s[i]
             \/ i - Len(s) \in 1 .. Len(t) /\ (s \o t)[i] = t[i - Len(s)]
  BY ConcatProperties, LenProperties
<1> QED
  BY <1>1 DEF UpTo

LEMMA UpToGrows ==
    ASSUME NEW s \in Seq(Frames), NEW n \in Nat, NEW m \in Nat, n <= m, UpTo(s, n)
    PROVE  UpTo(s, m)
<1>1. \A i \in 1 .. Len(s) : s[i] \in Frames
  BY ElementOfSeq
<1>2. \A i \in 1 .. Len(s) : s[i][1] \in Nat
  BY <1>1, SizesAssumption DEF Frames
<1> QED
  BY <1>2 DEF UpTo

\* The frames of a new batch come after all others.
LEMMA NewBatch ==
    ASSUME NEW n \in Nat, NEW size \in Nat, NEW batch,
           Len(batch) = size, \A i \in 1 .. size : batch[i][1] = n + i
    PROVE  /\ Increasing(batch) /\ UpTo(batch, n + size)
           /\ \A w \in Seq(Frames) : UpTo(w, n) => Before(w, batch)
<1>1. Increasing(batch)
  BY DEF Increasing
<1>2. UpTo(batch, n + size)
  BY DEF UpTo
<1>3. ASSUME NEW w \in Seq(Frames), UpTo(w, n)
      PROVE  Before(w, batch)
  <2>1. \A i \in 1 .. Len(w) : w[i] \in Frames
    BY ElementOfSeq
  <2>2. \A i \in 1 .. Len(w) : w[i][1] \in Nat /\ w[i][1] <= n
    BY <1>3, <2>1, SizesAssumption DEF Frames, UpTo
  <2> QED
    BY <2>2 DEF Before
<1> QED
  BY <1>1, <1>2, <1>3

LEMMA OrderStep == BuffersOK /\ CountersOK /\ StageInv /\ OrderInv /\ Next => OrderInv'
<1> SUFFICES ASSUME BuffersOK, CountersOK, StageInv, OrderInv, Next PROVE OrderInv'
  OBVIOUS
<1> USE DEF capVars, decVars, dspVars, lifeVars, Decoded
<1>a. BatchSize \in Nat /\ captured \in Nat
  BY SizesAssumption DEF CountersOK
<1>1. CASE Control
  BY <1>1, ControlKeeps DEF data, OrderInv
<1>2. CASE CaptureBatch
  <2>1. PICK kind \in [1 .. BatchSize -> Kinds] :
            rawBatch' = [i \in 1 .. BatchSize |-> <<captured + i, kind[i]>>]
    BY <1>2 DEF CaptureBatch
  <2>2. /\ captured' = captured + BatchSize
        /\ UNCHANGED <<frameRing, batchBuf, decoded, sampRing, sampBuf, processed>>
    BY <1>2 DEF CaptureBatch
  <2>3. /\ Increasing(rawBatch') /\ UpTo(rawBatch', captured')
        /\ \A w \in Seq(Frames) : UpTo(w, captured) => Before(w, rawBatch')
    <3>1. Len(rawBatch') = BatchSize /\ \A i \in 1 .. BatchSize : rawBatch'[i][1] = captured + i
      BY <1>a, <2>1
    <3> QED
      BY <1>a, <2>2, <3>1, NewBatch
  <2>4. captured' \in Nat /\ captured <= captured'
    BY <1>a, <2>2
  <2>5. \A w \in Seq(Frames) : UpTo(w, captured) => UpTo(w, captured')
    BY <1>a, <2>4, UpToGrows
  <2> QED
    BY <2>2, <2>3, <2>5 DEF OrderInv, BuffersOK
<1>3. CASE FrameAccepted
  <2>1. /\ rawBatch # <<>> /\ rawBatch' = Tail(rawBatch)
        /\ frameRing' = Append(frameRing, Head(rawBatch))
        /\ UNCHANGED <<captured, batchBuf, decoded, sampRing, sampBuf, processed>>
    BY <1>3 DEF FrameAccepted
  <2> QED
    BY <2>1, MoveKeeps, MoveAfter, MoveUpTo DEF OrderInv, BuffersOK
<1>4. CASE FrameDropped
  <2>1. /\ rawBatch # <<>> /\ rawBatch' = Tail(rawBatch)
        /\ UNCHANGED <<captured, frameRing, batchBuf, decoded, sampRing, sampBuf, processed>>
    BY <1>4 DEF FrameDropped, StageInv
  <2> QED
    BY <2>1, DropKeeps DEF OrderInv, BuffersOK
<1>5. CASE DequeueFrame
  <2>1. /\ frameRing # <<>> /\ frameRing' = Tail(frameRing)
        /\ batchBuf' = Append(batchBuf, Head(frameRing))
        /\ UNCHANGED <<captured, rawBatch, decoded, sampRing, sampBuf, processed>>
    BY <1>5 DEF DequeueFrame
  <2> QED
    BY <2>1, MoveKeeps, MoveAfter, MoveBefore, MoveUpTo DEF OrderInv, BuffersOK
<1>6. CASE DecodeFails \/ DecodeNoSample \/ SamplesRefused
  <2>1. /\ batchBuf # <<>> /\ batchBuf' = Tail(batchBuf)
        /\ decoded' = Append(decoded, Head(batchBuf))
        /\ UNCHANGED <<captured, rawBatch, frameRing, sampRing, sampBuf, processed>>
    BY <1>6 DEF DecodeFails, DecodeNoSample, SamplesRefused
  <2> QED
    BY <2>1, MoveKeeps, MoveBefore, MoveUpTo, DropKeeps DEF OrderInv, BuffersOK
<1>7. CASE SamplesAccepted
  <2>1. /\ batchBuf # <<>> /\ batchBuf' = Tail(batchBuf)
        /\ decoded' = Append(decoded, Head(batchBuf))
        /\ sampRing' = Append(sampRing, Head(batchBuf))
        /\ UNCHANGED <<captured, rawBatch, frameRing, sampBuf, processed>>
    BY <1>7 DEF SamplesAccepted
  <2>2. /\ Increasing(sampRing') /\ Before(sampRing', batchBuf') /\ UpTo(sampRing', captured)
        /\ Before(sampRing', frameRing) /\ Before(sampRing', rawBatch)
        /\ Before(processed, sampRing') /\ Before(sampBuf, sampRing')
    BY <2>1, MoveKeeps, MoveAfter, MoveBefore, MoveUpTo DEF OrderInv, BuffersOK
  <2>3. /\ Increasing(decoded') /\ Increasing(batchBuf') /\ Before(decoded', batchBuf')
        /\ Before(decoded', frameRing) /\ Before(decoded', rawBatch)
        /\ Before(batchBuf', frameRing) /\ Before(batchBuf', rawBatch)
        /\ UpTo(decoded', captured) /\ UpTo(batchBuf', captured)
    BY <2>1, MoveKeeps, MoveBefore, MoveUpTo DEF OrderInv, BuffersOK
  <2>4. Before(processed, batchBuf') /\ Before(sampBuf, batchBuf')
    BY <2>1, DropKeeps DEF OrderInv, BuffersOK
  <2> QED
    BY <2>1, <2>2, <2>3, <2>4 DEF OrderInv
<1>8. CASE FrameRefused \/ DecodeBatchDone \/ DispatchEmergency
  BY <1>8 DEF FrameRefused, DecodeBatchDone, DispatchEmergency, OrderInv
<1>9. CASE DequeueSamples
  <2>1. /\ sampRing # <<>> /\ sampRing' = Tail(sampRing)
        /\ sampBuf' = Append(sampBuf, Head(sampRing))
        /\ UNCHANGED <<captured, rawBatch, frameRing, batchBuf, decoded, processed>>
    BY <1>9 DEF DequeueSamples
  <2> QED
    BY <2>1, MoveKeeps, MoveAfter, MoveBefore, MoveUpTo DEF OrderInv, BuffersOK
<1>10. CASE ProcessBatch
  <2>1. /\ processed' = processed \o sampBuf /\ sampBuf' = <<>>
        /\ UNCHANGED <<captured, rawBatch, frameRing, batchBuf, decoded, sampRing>>
    BY <1>10 DEF ProcessBatch
  <2>2. /\ Increasing(processed') /\ UpTo(processed', captured)
        /\ Before(processed', sampRing) /\ Before(processed', batchBuf)
        /\ Before(processed', frameRing) /\ Before(processed', rawBatch)
    BY <2>1, ConcatKeeps, ConcatUpTo DEF OrderInv, BuffersOK
  <2>3. processed' \in Seq(Frames)
    BY <2>1, ConcatProperties DEF BuffersOK
  <2>4. /\ Increasing(sampBuf') /\ UpTo(sampBuf', captured)
        /\ Before(processed', sampBuf') /\ Before(sampBuf', sampRing)
        /\ Before(sampBuf', batchBuf) /\ Before(sampBuf', frameRing) /\ Before(sampBuf', rawBatch)
    BY <2>1, <2>3, EmptyOrdered DEF BuffersOK
  <2> QED
    BY <2>1, <2>2, <2>4 DEF OrderInv
<1> QED
  BY NextSplit, <1>1, <1>2, <1>3, <1>4, <1>5, <1>6, <1>7, <1>8, <1>9, <1>10 DEF Moves

(***************************************************************************)
(* The inductive invariant and what follows from it.                       *)
(***************************************************************************)
IInv == TypeInv /\ StageInv /\ Sums /\ OrderInv

LEMMA IInvInit == Init => IInv
<1> SUFFICES ASSUME Init PROVE IInv
  OBVIOUS
<1> USE DEF Init
<1>1. LifeOK
  BY DEF LifeOK
<1>2. BuffersOK
  BY SizesAssumption, EmptySeq DEF BuffersOK
<1>3. CountersOK
  BY SizesAssumption DEF CountersOK, Stats
<1>4. StageInv
  BY DEF StageInv, Loops, Callers
<1>5. Sums
  BY EmptySeq DEF Sums, nRaw, nFrames, nBatch, nDecoded, nSamples, nBuf, nProcessed,
                  rx, dropped, refused, samples, hits, sent, pending, Dropping,
                  Loops, Callers
<1>6. OrderInv
  BY EmptySeq, EmptyOrdered DEF OrderInv
<1> QED
  BY <1>1, <1>2, <1>3, <1>4, <1>5, <1>6 DEF IInv, TypeInv

LEMMA IInvStep == IInv /\ [Next]_vars => IInv'
<1> SUFFICES ASSUME IInv, [Next]_vars PROVE IInv'
  OBVIOUS
<1>1. CASE Next
  <2>1. LifeOK' /\ BuffersOK' /\ CountersOK'
    BY <1>1, LifeStep, BuffersStep DEF IInv, TypeInv
  <2>2. StageInv'
    BY <1>1, StageStep DEF IInv, TypeInv
  <2>3. Sums'
    BY <1>1, SumsStep DEF IInv
  <2>4. OrderInv'
    BY <1>1, OrderStep DEF IInv, TypeInv
  <2> QED
    BY <2>1, <2>2, <2>3, <2>4 DEF IInv, TypeInv
<1>2. CASE UNCHANGED vars
  BY <1>2 DEF vars, IInv, TypeInv, LifeOK, BuffersOK, CountersOK, StageInv, Sums, OrderInv,
              nRaw, nFrames, nBatch, nDecoded, nSamples, nBuf, nProcessed,
              rx, dropped, refused, samples, hits, sent, pending, Dropping
<1> QED
  BY <1>1, <1>2

\* The invariant holds in every state the gateway reaches, whatever its sizes.
THEOREM IInvAlways == Spec => []IInv
BY IInvInit, IInvStep, PTL DEF Spec

\* No buffer, ring or counter of the gateway leaves its type or its capacity:
\* a loop never dequeues more than its batch holds (gateway.go:271-458).
THEOREM TypeCorrect == Spec => []TypeOK
<1>1. IInv => TypeOK
  BY TypeParts DEF IInv, TypeInv
<1> QED
  BY <1>1, IInvAlways, PTL

\* Every frame counted as received is in exactly one place: about to be
\* enqueued, dropped and counted, waiting, or decoded.
THEOREM FramesCorrect == Spec => []FramesAccounted
<1>1. IInv => FramesAccounted
  BY AccountsAreSums DEF IInv, Accounts
<1> QED
  BY <1>1, IInvAlways, PTL

\* Every frame counted as samples has reached the pipeline, is on its way, or
\* was refused by sampRing and counted in RingEnqFails.
THEOREM SamplesCorrect == Spec => []SamplesAccounted
<1>1. IInv => SamplesAccounted
  BY AccountsAreSums DEF IInv, Accounts
<1> QED
  BY <1>1, IInvAlways, PTL

\* Every redline event that dspLoop got is dispatched to the fuse once.
THEOREM HitsCorrect == Spec => []EveryHitDispatched
<1>1. IInv => EveryHitDispatched
  BY AccountsAreSums DEF IInv, Accounts
<1> QED
  BY <1>1, IInvAlways, PTL

\* The decoder and the pipeline see the frames in the order of capture, each
\* at most once, whatever is dropped in between.
THEOREM OrderCorrect == Spec => []InCaptureOrder
<1>1. IInv => InCaptureOrder
  BY DEF IInv, OrderInv, InCaptureOrder
<1> QED
  BY <1>1, IInvAlways, PTL
=============================================================================
