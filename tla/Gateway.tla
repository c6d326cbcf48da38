------------------------------ MODULE Gateway ------------------------------
(***************************************************************************)
(* WireBondingGateway of internal/gateway/gateway.go: three goroutines     *)
(* connected by two rings.  captureLoop puts frames into frameRing,        *)
(* decodeLoop turns frames into samples in sampRing, dspLoop runs the      *)
(* pipeline over the samples and sends an emergency stop over CAN for each *)
(* pull-strength event it gets.  Start launches them and stops them when   *)
(* its context ends; anybody else may call Stop as well.                   *)
(*                                                                         *)
(* A frame is its number and what becomes of it.  A ring is a sequence:    *)
(* each has one producer and one consumer here, so an enqueue that takes   *)
(* effect when it publishes and a dequeue that takes effect when it        *)
(* releases are refused by TaggedRing exactly when the sequence is full or *)
(* empty.  The capture is the pure-Go one (capture_nocgo.go), whose Close  *)
(* is harmless.                                                            *)
(***************************************************************************)
EXTENDS Naturals, Sequences, FiniteSets

CONSTANTS BatchSize,    \* frames per SimulateBatch or ReadBatch, len(gw.rawBatch)
          RingCap,      \* cells of each ring
          DecBatch,     \* len(batchBuf) in decodeLoop
          DspBatch,     \* len(sampBuf) in dspLoop
          PullCap,      \* len(gw.pullBuf)
          EnableCANFuse, \* cfg.EnableCANFuse: whether gw.fuse is not nil
          MaxFrames,    \* bound: frames captured
          KindsOf       \* bound: the kinds considered for each frame

ASSUME SizesAssumption ==
    /\ {BatchSize, DecBatch, DspBatch, PullCap} \subseteq Nat \ {0}
    /\ RingCap \in Nat /\ RingCap >= 2
    /\ MaxFrames \in Nat

ASSUME FuseAssumption == EnableCANFuse \in BOOLEAN

\* What a frame holds: bytes that DecodeFull rejects, no sample, samples that
\* are fine, samples for which the pipeline predicts a pull below the redline.
Kinds == {"bad", "empty", "good", "red"}

ASSUME KindsAssumption == KindsOf \in [1 .. MaxFrames -> SUBSET Kinds \ {{}}]

Callers == {"start", "other"}   \* who calls Stop
Loops   == {"cap", "dec", "dsp"}

VARIABLES running,      \* gw.running
          ctxDone,      \* ctx is cancelled
          pc,           \* per loop and per caller of Stop, where it is
          rawBatch,     \* frames captureLoop has still to enqueue
          frameRing,
          batchBuf,     \* frames decodeLoop has dequeued and not decoded
          totalSamples, \* local of decodeLoop
          sampRing,
          sampBuf,      \* frames whose samples dspLoop has dequeued
          pullBuf,      \* number of events dspLoop has still to dispatch
          stats,        \* gw.stats
          closes,       \* how often Stop has closed the capture and the log
          captured,     \* history: number of frames captured
          decoded,      \* history: the frames decoded, in order
          processed,    \* history: the frames the pipeline saw, in order
          redlines      \* history: number of redline events of the pipeline

vars == <<running, ctxDone, pc, rawBatch, frameRing, batchBuf, totalSamples, sampRing,
          sampBuf, pullBuf, stats, closes, captured, decoded, processed, redlines>>

capVars  == <<rawBatch, captured>>
decVars  == <<batchBuf, totalSamples, decoded>>
dspVars  == <<sampBuf, pullBuf, processed, redlines>>
lifeVars == <<running, ctxDone, closes>>

Init ==
    /\ running = FALSE /\ ctxDone = FALSE
    /\ pc = [x \in Loops \cup Callers |-> "idle"]
    /\ rawBatch = <<>> /\ frameRing = <<>> /\ batchBuf = <<>> /\ totalSamples = 0
    /\ sampRing = <<>> /\ sampBuf = <<>> /\ pullBuf = 0
    /\ stats = [FramesRx |-> 0, FramesDropped |-> 0, ParseErrors |-> 0, RingEnqFails |-> 0,
                SamplesRx |-> 0, PullRedlineHits |-> 0, CANFuseFrames |-> 0]
    /\ closes = 0
    /\ captured = 0 /\ decoded = <<>> /\ processed = <<>> /\ redlines = 0

Goto(x, label) == pc' = [pc EXCEPT ![x] = label]
Count(field, n) == stats' = [stats EXCEPT ![field] = @ + n]

\* The condition at the head of every loop.
MayLoop == running /\ ~ ctxDone

(***************************************************************************)
(* Slips: definitions below, each with a mistake that would be easy to     *)
(* make in the code.  Nothing refers to them; put in the place of the      *)
(* definition they are named after, each makes a property fail.            *)
(***************************************************************************)

StopAlwaysCloses(x) ==
    /\ pc[x] = "stop"
    /\ running' = FALSE
    /\ Goto(x, "close")
    /\ UNCHANGED <<ctxDone, closes, capVars, frameRing, decVars, sampRing, dspVars, stats>>

FrameDroppedUncounted ==
    /\ pc["cap"] = "drop"
    /\ rawBatch' = Tail(rawBatch)
    /\ Goto("cap", "enqueue")
    /\ UNCHANGED <<lifeVars, captured, frameRing, decVars, sampRing, dspVars, stats>>

DequeuePastEnd ==
    /\ pc["dec"] = "dequeue" /\ frameRing # <<>>
    /\ batchBuf'  = Append(batchBuf, Head(frameRing))
    /\ frameRing' = Tail(frameRing)
    /\ UNCHANGED <<lifeVars, pc, capVars, totalSamples, decoded, sampRing, dspVars, stats>>

DequeueKeepsFrame ==
    /\ pc["dec"] = "dequeue"
    /\ frameRing # <<>> /\ Len(batchBuf) < DecBatch
    /\ batchBuf' = Append(batchBuf, Head(frameRing))
    /\ UNCHANGED <<lifeVars, pc, capVars, frameRing, totalSamples, decoded, sampRing, dspVars, stats>>

DequeueForgetsBatch ==
    /\ pc["dec"] = "dequeue"
    /\ Len(batchBuf) = DecBatch \/ frameRing = <<>>
    /\ Goto("dec", IF frameRing = <<>> THEN "top" ELSE "decode")
    /\ UNCHANGED <<lifeVars, capVars, frameRing, decVars, sampRing, dspVars, stats>>

SamplesRefusedUncounted ==
    /\ pc["dec"] = "decode" /\ batchBuf # <<>> /\ Head(batchBuf)[2] \in {"good", "red"}
    /\ Len(sampRing) = RingCap
    /\ batchBuf' = Tail(batchBuf) /\ decoded' = Append(decoded, Head(batchBuf))
    /\ totalSamples' = totalSamples + 1
    /\ UNCHANGED <<lifeVars, pc, capVars, frameRing, sampRing, dspVars, stats>>

DispatchStopsEarly ==
    /\ pc["dsp"] = "dispatch"
    /\ Goto("dsp", "top")
    /\ UNCHANGED <<lifeVars, capVars, frameRing, decVars, sampRing, dspVars, stats>>

(***************************************************************************)
(* Start, Stop and the context.                                            *)
(***************************************************************************)

Start ==
    /\ pc["start"] = "idle" /\ ~ running
    /\ running' = TRUE
    /\ pc' = [x \in Loops \cup Callers |->
                 IF x \in Loops THEN "top" ELSE IF x = "start" THEN "wait" ELSE pc[x]]
    /\ UNCHANGED <<ctxDone, closes, capVars, frameRing, decVars, sampRing, dspVars, stats>>

Cancel ==
    /\ ~ ctxDone
    /\ ctxDone' = TRUE
    /\ UNCHANGED <<running, closes, pc, capVars, frameRing, decVars, sampRing, dspVars, stats>>

\* Nothing ever sends on errChan, so only the context ends the wait.
StartEnds ==
    /\ pc["start"] = "wait" /\ ctxDone
    /\ Goto("start", "stop")
    /\ UNCHANGED <<lifeVars, capVars, frameRing, decVars, sampRing, dspVars, stats>>

CallStop ==
    /\ pc["other"] = "idle"
    /\ Goto("other", "stop")
    /\ UNCHANGED <<lifeVars, capVars, frameRing, decVars, sampRing, dspVars, stats>>

\* running.CompareAndSwap(true, false): only one caller goes on to close.
StopSwap(x) ==
    /\ pc[x] = "stop"
    /\ running' = FALSE
    /\ Goto(x, IF running THEN "close" ELSE "done")
    /\ UNCHANGED <<ctxDone, closes, capVars, frameRing, decVars, sampRing, dspVars, stats>>

StopClose(x) ==
    /\ pc[x] = "close"
    /\ closes' = closes + 1
    /\ Goto(x, "done")
    /\ UNCHANGED <<running, ctxDone, capVars, frameRing, decVars, sampRing, dspVars, stats>>

LoopExits(x) ==
    /\ pc[x] = "top" /\ ~ MayLoop
    /\ Goto(x, "done")
    /\ UNCHANGED <<lifeVars, capVars, frameRing, decVars, sampRing, dspVars, stats>>

(***************************************************************************)
(* captureLoop.  A batch always fills rawBatch.                            *)
(***************************************************************************)

CaptureBatch ==
    /\ pc["cap"] = "top" /\ MayLoop
    /\ captured + BatchSize <= MaxFrames
    /\ \E kind \in [1 .. BatchSize -> Kinds] :
           /\ \A i \in 1 .. BatchSize : kind[i] \in KindsOf[captured + i]
           /\ rawBatch' = [i \in 1 .. BatchSize |-> <<captured + i, kind[i]>>]
    /\ captured' = captured + BatchSize
    /\ Count("FramesRx", BatchSize)
    /\ Goto("cap", "enqueue")
    /\ UNCHANGED <<lifeVars, frameRing, decVars, sampRing, dspVars>>

FrameAccepted ==
    /\ pc["cap"] = "enqueue" /\ rawBatch # <<>>
    /\ Len(frameRing) < RingCap
    /\ frameRing' = Append(frameRing, Head(rawBatch))
    /\ rawBatch'  = Tail(rawBatch)
    /\ UNCHANGED <<lifeVars, pc, captured, decVars, sampRing, dspVars, stats>>

\* A full ring is counted twice, in two counters one after the other.
FrameRefused ==
    /\ pc["cap"] = "enqueue" /\ rawBatch # <<>>
    /\ Len(frameRing) = RingCap
    /\ Count("RingEnqFails", 1)
    /\ Goto("cap", "drop")
    /\ UNCHANGED <<lifeVars, capVars, frameRing, decVars, sampRing, dspVars>>

FrameDropped ==
    /\ pc["cap"] = "drop"
    /\ Count("FramesDropped", 1)
    /\ rawBatch' = Tail(rawBatch)
    /\ Goto("cap", "enqueue")
    /\ UNCHANGED <<lifeVars, captured, frameRing, decVars, sampRing, dspVars>>

CaptureBatchDone ==
    /\ pc["cap"] = "enqueue" /\ rawBatch = <<>>
    /\ Goto("cap", "top")
    /\ UNCHANGED <<lifeVars, capVars, frameRing, decVars, sampRing, dspVars, stats>>

(***************************************************************************)
(* decodeLoop.                                                             *)
(***************************************************************************)

DecodeBatch ==
    /\ pc["dec"] = "top" /\ MayLoop
    /\ totalSamples' = 0
    /\ Goto("dec", "dequeue")
    /\ UNCHANGED <<lifeVars, capVars, frameRing, batchBuf, decoded, sampRing, dspVars, stats>>

DequeueFrame ==
    /\ pc["dec"] = "dequeue"
    /\ frameRing # <<>> /\ Len(batchBuf) < DecBatch
    /\ batchBuf'  = Append(batchBuf, Head(frameRing))
    /\ frameRing' = Tail(frameRing)
    /\ UNCHANGED <<lifeVars, pc, capVars, totalSamples, decoded, sampRing, dspVars, stats>>

FramesDequeued ==
    /\ pc["dec"] = "dequeue"
    /\ Len(batchBuf) = DecBatch \/ frameRing = <<>>
    /\ Goto("dec", IF batchBuf = <<>> THEN "top" ELSE "decode")
    /\ UNCHANGED <<lifeVars, capVars, frameRing, decVars, sampRing, dspVars, stats>>

Decoded == batchBuf' = Tail(batchBuf) /\ decoded' = Append(decoded, Head(batchBuf))

DecodeFails ==
    /\ pc["dec"] = "decode" /\ batchBuf # <<>> /\ Head(batchBuf)[2] = "bad"
    /\ Decoded
    /\ Count("ParseErrors", 1)
    /\ UNCHANGED <<lifeVars, pc, capVars, frameRing, totalSamples, sampRing, dspVars>>

DecodeNoSample ==
    /\ pc["dec"] = "decode" /\ batchBuf # <<>> /\ Head(batchBuf)[2] = "empty"
    /\ Decoded
    /\ UNCHANGED <<lifeVars, pc, capVars, frameRing, totalSamples, sampRing, dspVars, stats>>

SamplesAccepted ==
    /\ pc["dec"] = "decode" /\ batchBuf # <<>> /\ Head(batchBuf)[2] \in {"good", "red"}
    /\ Len(sampRing) < RingCap
    /\ sampRing' = Append(sampRing, Head(batchBuf))
    /\ Decoded
    /\ totalSamples' = totalSamples + 1
    /\ UNCHANGED <<lifeVars, pc, capVars, frameRing, dspVars, stats>>

\* Samples that find sampRing full are counted as received all the same.
SamplesRefused ==
    /\ pc["dec"] = "decode" /\ batchBuf # <<>> /\ Head(batchBuf)[2] \in {"good", "red"}
    /\ Len(sampRing) = RingCap
    /\ Decoded
    /\ Count("RingEnqFails", 1)
    /\ totalSamples' = totalSamples + 1
    /\ UNCHANGED <<lifeVars, pc, capVars, frameRing, sampRing, dspVars>>

DecodeBatchDone ==
    /\ pc["dec"] = "decode" /\ batchBuf = <<>>
    /\ Count("SamplesRx", totalSamples)
    /\ totalSamples' = 0
    /\ Goto("dec", "top")
    /\ UNCHANGED <<lifeVars, capVars, frameRing, batchBuf, decoded, sampRing, dspVars>>

(***************************************************************************)
(* dspLoop.                                                                *)
(***************************************************************************)

DspStep ==
    /\ pc["dsp"] = "top" /\ MayLoop
    /\ Goto("dsp", "dequeue")
    /\ UNCHANGED <<lifeVars, capVars, frameRing, decVars, sampRing, dspVars, stats>>

DequeueSamples ==
    /\ pc["dsp"] = "dequeue"
    /\ sampRing # <<>> /\ Len(sampBuf) < DspBatch
    /\ sampBuf'  = Append(sampBuf, Head(sampRing))
    /\ sampRing' = Tail(sampRing)
    /\ UNCHANGED <<lifeVars, pc, capVars, frameRing, decVars, pullBuf, processed, redlines, stats>>

SamplesDequeued ==
    /\ pc["dsp"] = "dequeue"
    /\ Len(sampBuf) = DspBatch \/ sampRing = <<>>
    /\ Goto("dsp", IF sampBuf = <<>> THEN "top" ELSE "process")
    /\ UNCHANGED <<lifeVars, capVars, frameRing, decVars, sampRing, dspVars, stats>>

\* ProcessBatch copies out at most PullCap events; the rest stay behind in
\* the pipeline's own history.
ProcessBatch ==
    /\ pc["dsp"] = "process"
    /\ LET reds == Cardinality({k \in 1 .. Len(sampBuf) : sampBuf[k][2] = "red"})
       IN  /\ pullBuf'  = IF reds <= PullCap THEN reds ELSE PullCap
           /\ redlines' = redlines + reds
           /\ Count("PullRedlineHits", pullBuf')
    /\ processed' = processed \o sampBuf
    /\ sampBuf'   = <<>>
    /\ Goto("dsp", "dispatch")
    /\ UNCHANGED <<lifeVars, capVars, frameRing, decVars, sampRing>>

\* The frames that one event sends: none when there is no fuse.
FuseFrames == IF EnableCANFuse THEN 1 ELSE 0

DispatchEmergency ==
    /\ pc["dsp"] = "dispatch" /\ pullBuf > 0
    /\ pullBuf' = pullBuf - 1
    /\ Count("CANFuseFrames", FuseFrames)
    /\ UNCHANGED <<lifeVars, pc, capVars, frameRing, decVars, sampRing, sampBuf, processed, redlines>>

DispatchDone ==
    /\ pc["dsp"] = "dispatch" /\ pullBuf = 0
    /\ Goto("dsp", "top")
    /\ UNCHANGED <<lifeVars, capVars, frameRing, decVars, sampRing, dspVars, stats>>

CaptureLoop ==
    \/ LoopExits("cap") \/ CaptureBatch
    \/ FrameAccepted \/ FrameRefused \/ FrameDropped \/ CaptureBatchDone

DecodeLoop ==
    \/ LoopExits("dec") \/ DecodeBatch \/ DequeueFrame \/ FramesDequeued
    \/ DecodeFails \/ DecodeNoSample \/ SamplesAccepted \/ SamplesRefused \/ DecodeBatchDone

DspLoop ==
    \/ LoopExits("dsp") \/ DspStep \/ DequeueSamples \/ SamplesDequeued
    \/ ProcessBatch \/ DispatchEmergency \/ DispatchDone

Stop(x) == StopSwap(x) \/ StopClose(x)

Next ==
    \/ Start \/ StartEnds \/ Cancel \/ CallStop
    \/ \E x \in Callers : Stop(x)
    \/ CaptureLoop \/ DecodeLoop \/ DspLoop

Spec == Init /\ [][Next]_vars

\* Every goroutine is scheduled; nobody has to cancel the context.
FairSpec ==
    /\ Spec
    /\ WF_vars(CaptureLoop) /\ WF_vars(DecodeLoop) /\ WF_vars(DspLoop)
    /\ WF_vars(StartEnds) /\ \A x \in Callers : WF_vars(Stop(x))

-----------------------------------------------------------------------------
Frames == (1 .. MaxFrames) \X Kinds

Stats == [FramesRx : Nat, FramesDropped : Nat, ParseErrors : Nat, RingEnqFails : Nat,
          SamplesRx : Nat, PullRedlineHits : Nat, CANFuseFrames : Nat]

TypeOK ==
    /\ running \in BOOLEAN /\ ctxDone \in BOOLEAN
    /\ pc \in [Loops \cup Callers ->
                  {"idle", "top", "enqueue", "drop", "dequeue", "decode", "process", "dispatch",
                   "wait", "stop", "close", "done"}]
    /\ rawBatch \in Seq(Frames) /\ frameRing \in Seq(Frames) /\ batchBuf \in Seq(Frames)
    /\ sampRing \in Seq(Frames) /\ sampBuf \in Seq(Frames)
    /\ Len(frameRing) <= RingCap /\ Len(sampRing) <= RingCap
    /\ Len(batchBuf) <= DecBatch /\ Len(sampBuf) <= DspBatch /\ pullBuf \in 0 .. PullCap
    /\ stats \in Stats
    /\ totalSamples \in Nat /\ closes \in Nat /\ redlines \in Nat
    /\ captured \in 0 .. MaxFrames
    /\ decoded \in Seq(Frames) /\ processed \in Seq(Frames)

\* Every frame received is accounted for: still to be enqueued, dropped and
\* counted, waiting in the ring or in the decoder's batch, or decoded.
FramesAccounted ==
    stats.FramesRx = Len(rawBatch) + stats.FramesDropped + Len(frameRing)
                     + Len(batchBuf) + Len(decoded)

\* captureLoop has counted a refusal and not yet the frame it dropped.
Dropping == IF pc["cap"] = "drop" THEN 1 ELSE 0

\* So is every decoded frame with samples: processed, on its way, or one of
\* the refusals in RingEnqFails that are no dropped frames, which other
\* goroutines count meanwhile.
SamplesAccounted ==
    stats.SamplesRx + totalSamples =
        Len(processed) + Len(sampBuf) + Len(sampRing)
        + (stats.RingEnqFails - stats.FramesDropped - Dropping)

\* The pipeline sees the frames in the order of capture, none twice,
\* whatever the three loops drop or leave waiting.
Increasing(s) == \A i, j \in 1 .. Len(s) : i < j => s[i][1] < s[j][1]
InCaptureOrder == Increasing(decoded) /\ Increasing(processed)

\* With a fuse every event counted as a redline hit is sent to it exactly once.
EveryHitDispatched ==
    EnableCANFuse => stats.PullRedlineHits = stats.CANFuseFrames + pullBuf

\* When the context ends, every loop ends after the batch it is in, Start
\* returns, and the capture and the log file are closed once for good,
\* however many callers of Stop race to close them (gateway.go:460).
CancelEnds ==
    ctxDone /\ pc["start"] # "idle" ~>
        [](/\ \A x \in Loops : pc[x] = "done"
           /\ pc["start"] = "done" /\ ~ running /\ closes = 1)

\* While nobody stops the gateway every frame received is decoded or counted
\* as dropped, and every event that dspLoop got is dispatched in any case.
Drained ==
    /\ stats.FramesRx # Len(decoded) + stats.FramesDropped ~>
           stats.FramesRx = Len(decoded) + stats.FramesDropped \/ ~ MayLoop
    /\ pullBuf > 0 ~> pullBuf = 0

\* main.go:113 calls the redline the threshold of the CAN fuse: when dspLoop
\* is between two batches, each event below it has stopped the machine.
EveryRedlineStops == EnableCANFuse /\ pc["dsp"] = "top" => redlines = stats.CANFuseFrames
=============================================================================
