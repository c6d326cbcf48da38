# Wire bonding gateway: a TLA+ model of the code

The program under `src/` is a gateway for ultrasonic wire bonding machines. It
captures IEC 61850-9-2 sampled values, follows the impedance of the bond with two
sliding DFTs, predicts the pull strength of the bond, and sends an emergency stop
over CAN when the prediction is below a redline. This directory holds TLA+ modules
of its parts, TLC runs over small instances of them, and theorems that TLAPS checks:
about the two ring buffers, the hazard domain, the gateway, the pipeline, the
predictor, the fuse and the decoder.

Everything below is translated from the Go code; the repository's own README is
empty. Comments in the code are quoted only where the code disagrees with them
(see "Where the code and its texts disagree").

## 1. The system

    capture --> frameRing --> decodeLoop --> sampRing --> dspLoop --> CAN fuse
    (captureLoop)             (decoder)                   (pipeline: DFT, matrix,
                                                           predictor)

| Component | Source | State | Operations | Hard about it |
|---|---|---|---|---|
| Tagged ring buffer | `ringbuf/tagged.go:13-123` | two counters; per cell a sequence and a value | Enqueue, Dequeue, their batch and Try forms, ApproxLen, ValidateIntegrity | threads interleave between any two atomic operations; values are plain memory |
| Versioned ring buffer | `tagged.go:125-223` | two counters; per cell a pointer to version and data | EnqueueVersioned, DequeueVersioned | versions must tell laps apart |
| Hazard domain, pool | `ringbuf/hazard.go` | slots (in use, pointer), retired list under a mutex, pool per size | Acquire, Protect, Clear, Release, Retire, Scan, Alloc, Free | Scan reads slots one by one while guards change; Acquire panics when it finds none |
| SafeQueue | `hazard.go:125-172` | a versioned ring and the domain | Enqueue, Dequeue, RetireNode | protects after dequeuing |
| Gateway | `gateway/gateway.go` | running, two rings, three loops' buffers, statistics | Start, Stop, three loops, statsReporter, GetStats | stop at any point, full rings, a fixed buffer for events |
| Pipeline and matrix | `impedance/*.go` | circular buffers of rows, anomalies and pull events; baseline; alarm index; totals | Process, ProcessBatch, Reset, Latest, Snapshot, RecentAnomalies, RecentPullEvents | hand-written wrap-around; a Reset that keeps some state |
| Sliding DFT, Goertzel | `dsp/*.go` | sample window, head, filled | Update, Reset | order of the window after it wraps |
| Maxwell-Meyer predictor | `pullstrength/meyer.go` | softening and energy trackers, time of the last phasor, redline hits | PushPhasor, Reset, SetRedline | a window over unsigned timestamps that may go back; a running sum |
| CAN fuse | `canbus/fuse.go` | a channel per device with an 8-bit sequence; statistics | DispatchEmergency, ComposeQualityFail, Send, PayloadDecode | wrap of the sequence; narrow integer fields |
| Decoder | `iec61850/*.go` | two scale factors | DecodeFull and the BER readers | lengths and counts that the frame claims, nested slices, guesses and fallbacks |
| Packet capture | `packetcap/*` | a socket and a kernel ring, or a simulator | ReadBatch, SimulateBatch, Close | C code, kernel memory; length forms and sample numbers of simulated frames |
| Command | `cmd/gateway/main.go` | callbacks' counters | flags, signals, report | cancels the context; calls Stop a second time |

How they interact: captureLoop, decodeLoop and dspLoop are goroutines that share
nothing but the two rings, the statistics (atomic counters) and `running`. dspLoop
calls the pipeline under the pipeline's mutex, and the fuse, which only dspLoop
uses, without one. Callbacks registered by the command run inside dspLoop. The
hazard domain and the versioned ring are a library of their own that the gateway
does not use.

What makes each part correct, in one sentence each:

- a ring is a FIFO queue to any number of threads, and never lets two of them at
  the same cell's value;
- the hazard domain gives no buffer away that somebody protects, loses none, keeps
  a bounded backlog, and has a slot for everyone it promises one;
- the gateway accounts for every frame, keeps the order of capture, ends when told
  to, and sends a stop for every event;
- the pipeline's readers return the newest entries, in order, never an overwritten
  or unwritten one, and its alarms are neither lost in numbers nor misnumbered;
- two CAN frames can be told apart, and the reader decodes what was composed;
- the decoder stays inside the frame and returns, whatever the frame claims, gives
  back the samples that were simulated, and never takes a cut frame for a shorter one;
- the predictor counts the rows of its window and no others, and its running sum is
  the sum of the rows it keeps.

`PROJECT.json` lists the hazards of the code line by line, with the properties that
would catch each of them, and the ones that no property covers yet.

## 2. The modules

| Module | Models | Used by |
|---|---|---|
| `MpmcQueue` | abstract: a bounded FIFO queue with calls in progress | `TaggedRing`, `VersionedRing` as refinement target |
| `TaggedRing` | `TaggedRingBuffer.Enqueue/Dequeue` | `MCTaggedRing`, `TaggedRing_proof` |
| `TaggedRing_proof` | theorems about `TaggedRing` and `VersionedRing` | |
| `VersionedRing` | `VersionedRingBuffer` | `MCVersionedRing`, `TaggedRing_proof` |
| `HazardDomain` | `HazardDomain`, `HazardGuard`, `HazardPool` | `MCHazardDomain`, `HazardDomain_proof` |
| `HazardDomain_proof` | theorems about `HazardDomain` | |
| `Gateway` | `WireBondingGateway` and its loops | `MCGateway`, `Gateway_proof` |
| `Gateway_proof` | theorems about `Gateway` | |
| `Capture` | pure operators: the frames of the pure-Go capture, byte by byte | `Decoder` |
| `Decoder` | `DecodeFull`, `ParseAPDU`, `ParseSVASDU` and the BER readers | `MCDecoder`, `Decoder_proof` |
| `Decoder_proof` | theorems about `Decoder` | |
| `CircularLog` | pure operators: the circular buffer written out seven times in the code | `Pipeline`, `Predictor` |
| `CircularLog_proof` | theorems about `CircularLog` | `Pipeline_proof`, `Predictor_proof`, `Fuse_proof` |
| `PullOutcome` | abstract: what the pipeline sees of the predictor | `Pipeline`; `Predictor` as refinement target |
| `Pipeline` | `Pipeline`, `SpatiotemporalMatrix`, the DFT windows, over `PullOutcome` | `MCPipeline`, `Pipeline_proof` |
| `Pipeline_proof` | theorems about `Pipeline` | |
| `Predictor` | `MeyerPredictor` and its two trackers | `MCPredictor`, `Predictor_proof` |
| `Predictor_proof` | theorems about `Predictor` | |
| `Fuse` | `FuseDispatcher`, `FuseChannel`, `Frame20B` | `MCFuse`, `Fuse_proof` |
| `Fuse_proof` | theorems about `Fuse` | |

The block "Slips" of a module holds definitions with a plausible mistake each. No
specification uses them; each shows that one property notices when the code does
the wrong thing.

### TaggedRing

One action is one atomic operation, or one plain access to `cell.value`. A thread's
`pc` names the operation it does next:

| pc | code | actions |
|---|---|---|
| `idle` | 44-45, 66-68 | `EnqCall`, `DeqCall`: load the counter |
| `enq_seq`, `deq_seq` | 49, 71 | `...SeesFree/Full/Stale`, `...SeesItem/Empty/Stale`: load the sequence and decide |
| `enq_cas`, `deq_cas` | 52, 74 | `...Claim`, `...ClaimFails`: CompareAndSwap; on failure the loop goes on with the old `pos` |
| `enq_pos`, `deq_pos` | 58, 82 | `...Reload` |
| `enq_val`, `deq_val`, `deq_zero` | 61, 84, 86 | `EnqWrite`, `DeqRead`, `DeqZero`: plain memory |
| `enq_pub`, `deq_rel` | 62, 87 | `EnqPublish`, `DeqRelease`: store the sequence and return |

Item `<<p, k>>` is the k-th one of producer `p`, so all differ. `log` is a history
variable: the items in the order of the positions claimed. Positions are natural
numbers: an overflow of the uint64 counters is out of reach of any execution.

`MpmcQueue` has a call and a return action for each method with one step in between
where the effect takes place. A refused enqueue needs a full queue, or a dequeue that
has taken its item and not returned yet; a refused dequeue needs an empty queue, or an
enqueue that has been accepted and not returned yet. That is what the code promises:
items are linearizable, and `false` may come early while another thread is in the
middle of its call.

### VersionedRing

As above, with the cell replaced as a whole by a pointer store. `Next` is checked
against the same `MpmcQueue`.

### HazardDomain

A thread takes buffers from the pool, protects and frees them. `Acquire`, `Release`
and `Scan` are split at every shared access; `Protect` and `Clear` write a slot that
only their owner writes and are one action. The callback of `Free` puts the buffer
back into the pool. `covered` is a history variable: the pointer that a thread
protected while the buffer was live.

### Gateway

A frame is its number and what becomes of it: `bad` (DecodeFull rejects it), `empty` (no
sample), `good`, `red` (the pipeline predicts a pull below the redline). The samples of
a frame travel together, so `SamplesRx` counts frames here. The rings are sequences:
each has one producer and one consumer in the gateway, and then `TaggedRing` refuses
exactly when the sequence is full or empty. `Start` and another caller (main's deferred
call) may both run `Stop`; the context may be cancelled at any time. A loop looks at
`running` and the context between batches only, as the code does. A full frame ring is
counted in two counters one after the other, so captureLoop has a control point between
them (`drop`). Without a fuse (`EnableCANFuse`) an event is counted and no frame is
sent. The capture is the pure-Go one; what closing the C one under a reader does is not
modelled. Of the events in `pullBuf` only the number matters.

### Capture and Decoder

A frame is a sequence of bytes. `Capture` builds it as `buildSVFramePureGo` does, with
the three forms of a BER length; the sine waves are replaced by values that differ
from sample to sample. `Decoder` follows one frame through `DecodeFull`. `pc` names
what is parsed next:

| pc | code | actions |
|---|---|---|
| `headers` | decoder.go:10-40 | `ParseHeaders` |
| `apdu` | 113-145 | `OpenAPDU`: outer TLV, number of ASDUs, sequence around them |
| `asdus` | 147-184 | `NextTagged`, `NextGuessed`: one iteration; `Return`, `Fallback`, `Unsupported` |
| `asdu` | 42-111 | `ParseTLV`: one iteration; `ASDUDone`, `FallbackDone` |

A Go slice is its interval of offsets in the frame, so that "a slice of a slice" can be
compared with the slice it came from; a 32-bit number is its four bytes. Lengths and
counts from 2^24 are all the same: longer than any frame. The SvID that
`ParseSVASDU` reads before its loop is read by the first iteration in the same way.
`Samples` is `ExtractSamples` of the first ASDU, the only one the code uses.

### CircularLog and Pipeline

`CircularLog` has the buffer as a record of cells, head and full, with `Push` and
`Recent`. `Pipeline` has one action per call, since Process and Reset hold the mutex from
beginning to end (the readers that are modelled hold it too, or the one of the matrix, which
AppendRow takes; `TotalIn` and `TotalReady` read a counter without it and are not modelled):
`ProcessFilling` (window not full), `ProcessUnsolvable` (no current or no impedance),
`ProcessRow(off, low)`, `Reset`. `off` says that the row is beyond a threshold, `low`
that the predicted pull is below the redline; both are free, because thresholds and
redline can be set at any time. `rowLog`, `anomLog` and `pullLog` are histories since
the last Reset. Readers are operators, and the invariants say what they return in
every state and for every count. The tracked frequency and the smoothing of the
impedance are left out: they only influence `off` and `low`.

Of the predictor the pipeline sees whether a phasor gives a prediction below the
redline, and a counter: `PullOutcome` says what it relies on, and `Pipeline` extends it.

### Predictor

One action per call, as PushPhasor and Reset hold the predictor's mutex: `PushNoCurrent` and
`PushNoImpedance` (the early returns), `PushTooFew`, `PushPredicts`, `Reset`. Both
trackers are buffers of `CircularLog`, of timestamps and of timestamps with a power.
Timestamps are unsigned and need not grow: the simulator stamps the frames of a batch
ahead of the clock and starts the next batch at the clock again. Powers are integers.
The strength formula (`solveMaxwellMeyer`) is the free parameter `low`, which includes
a redline set at any time. `ImplementsOutcome` is the refinement of `PullOutcome`, with
the rows of the softening tracker counted up to `SoftMin`. `softLog` and `energyLog`
are histories of the rows since the last Reset, `energySum` the running sums of the
powers in `energyLog`, so that the energy of the last rows is a difference of two of them.

### Fuse

A call is one action, the callback with its statistics included: in the gateway dspLoop is
the only caller, it always gives a `sendAll`, and nothing reads the statistics meanwhile.
Identifiers are records of bit
fields. An entry of `bus` is a frame and, as history, the call that it was made for.
`composed` counts the frames composed for a device, those included that Send never got.
The float values of a call are whole hundredths; the product with 100 in float32 may fall
just short of the whole number and is then truncated to the one below (`Hundredths`).
`Stored` is what the field can be.
`Uint16` is what Go says of a conversion from float to `uint16`: truncation
if it fits; otherwise the value depends on the implementation, and the builds wrap
or saturate.

## 3. The runs

Each takes less than two and a half minutes with two workers.

| Run | Bounds | States | What it shows |
|---|---|---|---|
| `ring_safety` | 2 producers, 2 consumers, 2 cells, 2 items each | 213 thousand | `TypeOK`, `RingInv`, `NoDataRace`, `DequeuedInOrder`, `SequencesGrow`, `ImplementsQueue`, `AllDelivered` |
| `ring_lockfree` | one producer may be suspended | violation | `LockFree` |
| `versioned` | one producer, one consumer, 2 cells | violation | `ImplementsQueue` |
| `hazard_backlog` | 3 threads, 1 slot, 4 buffers, batch 2 | 304 thousand | `TypeOK`, `ProtectedNotReclaimed`, `OnePlaceEach`, `BacklogBounded`; panics allowed |
| `hazard_guards` | 3 threads, 3 slots, 1 buffer, batch 1 | 167 thousand | `SlotInv`, `NeverExhausted` |
| `gateway_flow` | batch 2, rings of 2, 4 frames, 1 event | 239 thousand | accounting, order and events with a stop at every point; `CancelEnds`, `Drained` |
| `gateway_redline` | 2 redline frames, room for one event | violation | `EveryRedlineStops` |
| `pipeline` | window 2, 3 rows, 2 anomalies, 2 events, 7 samples, 1 Reset | 661 thousand | what readers return, numbering, alarms, baseline |
| `fuse_bus` | 2 devices, sequence modulo 2, 3 frames each | 212 thousand | identifiers, decoding, statistics |
| `fuse_deviation` | the values of a unit test | violation | `DeviationReadable` |
| `decoder` | 9 simulated and 10 handmade frames, with a VLAN tag, one byte damaged, or cut: 5518 frames | 75 thousand | `TypeOK`, `SlicesOK`, `RoundTrip`, `CutRejected`, `Returns` |
| `predictor` | trackers of 3 and 2 rows, timestamps to 5 of 16, 5 phasors, 1 Reset | 353 thousand | `TypeOK`, `RowsAreFresh`, `EnergyOfNewest`, `ImplementsOutcome` |

Why the bounds are enough. Two cells is the least the constructor makes; four items go
twice around it, so every thread can be overtaken by a full lap, and two threads on each
side are what a lost CompareAndSwap takes (a third would only lose it again; the proofs
cover any number). One slot for three threads and four buffers makes Acquire fail, lets
the list grow to the bound of `BacklogBounded` (one pointer that a Retire may leave and
one for each of three pending Scans), and lets Scan meet a guard that moves behind it. A
Scan over several slots is left to `ProtectedCorrect`, which is for any number of them:
with two slots this run takes too long. A batch of two into rings of two, twice,
overflows both rings. Seven samples fill a window of two and then wrap three rows and
two events; one Reset at every point covers what Reset leaves behind (a second one could
only repeat it: nothing that survives counts Resets). Three frames of a device pass the
wrap of a sequence number of one bit. The simulated batches have samples of 8, 120, 128,
256 and 640 bytes, which is each side of both changes of the length form, at one or more
of the four levels, and sample numbers that carry into every byte and wrap; the handmade
frames have two ASDUs, tagged and not, none, an empty one, and every tag and integer
length that the loop tells apart; a damaged byte takes the values at which a tag, a
count or a length form changes. Five phasors wrap trackers of three and two rows, with
steps of one interval, of two and back.

Deadlock is not checked where the bound on items, frames or samples, or the end of
the gateway, really ends the behaviour; the cfg files say so.

### Fairness

- `TaggedRing!FairSpec`: weak fairness of every thread that is not `Stalled`. The Go
  scheduler is preemptive and every goroutine that can run is run eventually; no
  operation blocks. Producers retry what was refused and consumers poll, as the
  gateway's decodeLoop and dspLoop do. `LockFree` makes no such assumption about the
  one stalled thread, because that is what lock freedom means.
- `Gateway!FairSpec`: weak fairness of each loop, and of `Start` and `Stop` once
  called. Nothing is assumed of the cancellation, of the other caller, or of the
  network: `captureLoop` may get no frame.
- `Decoder!FairSpec`: weak fairness of the whole call, which is sequential code that
  waits for nothing.

## 4. The theorems

### The ring

In `TaggedRing_proof`, for any sets of producers and consumers that are disjoint, any
size from 2 and any number of items:

| Theorem | Says |
|---|---|
| `TypeCorrect` | `Spec => []TypeOK` |
| `RingInvariant` | `Spec => []RingInv` |
| `RaceFree` | `Spec => []NoDataRace` |
| `FirstInFirstOut` | `Spec => []DequeuedInOrder` |
| `SequencesOnlyGrow` | `Spec => SequencesGrow` |
| `QueueImplemented` | `Spec => ImplementsQueue`: the ring implements `MpmcQueue` |

Assumptions: `SizeAssumption` (the constructor raises smaller sizes to 2),
`BoundAssumption`, `ThreadAssumption` (a thread is a producer or a consumer),
`NoItemAssumption`. The size need not be a power of two: only `pos % Size` matters.

The argument. None of the properties is inductive; `RingInv` is. It says of every
cell that its sequence is either a position `n` of the cell (`CellFree`: waiting for,
or being filled by, the producer that claimed `n`) or `n + 1` (`CellFull`: holding the
item of `n`, or being drained by the consumer that claimed `n`), where `n` is within
one lap of the counters; that a thread past its CompareAndSwap (`Filling`,
`Draining`) has a claimed position whose cell has the matching sequence
(`ProducerOK`, `ConsumerOK`); and that no two such threads hold the same position
(`OwnersOK`). A successful CompareAndSwap proves that the counter still equals `pos`,
and the sequence read before it cannot have changed in between because sequences only
grow and the cell of an unclaimed position belongs to nobody: this is why `ProducerOK`
also speaks of a thread at `enq_cas`. Two owners of one cell would have positions a
multiple of `Size` apart with the same sequence, which is `RaceFree`; the item a
consumer reads is the one `CellFull` ties to its position in `log`, which is
`FirstInFirstOut`. The arithmetic is in a few lemmas about `%` on top of the division
theorem the prover knows. There is one step per action, and under it one per part of
the invariant that the action can disturb.

`QueueImplemented` maps the contents of the queue to the items claimed by a producer and
by no consumer yet, so the effect of a call is its successful CompareAndSwap
(`ContentsGrow`, `ContentsLength`); loads, stores of sequences and plain accesses are
stutters. What takes an argument is a refusal. A producer is refused when it reads a
sequence that is older than its position. The cell then still stands for an earlier
position, which is at least `Size` back: either no consumer has claimed that one, and the
queue is full, or its consumer is past its CompareAndSwap and has not released the cell,
which is a dequeue with its item in hand (`FullIsAllowed`). `EmptyIsAllowed` is the same
for a consumer and a producer that has claimed its cell and not published it.

### The versioned ring

At the end of `TaggedRing_proof`, about an instance `Versioned` of `VersionedRing`, from
`ThreadAssumption` and `SizeAssumption`:

| Theorem | Says |
|---|---|
| `VersionedAcceptsOne` | `Versioned!Spec => []AcceptsOne`: one item is accepted in all |
| `VersionedDeliversNothing` | `Versioned!Spec => []DeliversNothing`: every dequeue says "empty" |
| `VersionedLoserSpins` | `Versioned!Spec => LoserSpins`: who lost the race for the position never returns |

They say that the counterexample of section 6 is no accident of two cells and two threads:
it is all this ring ever does. The inductive invariant `VInv` has three parts. Every
version is 1 and the counters are at most 1 and 0 (`VersionInv`), since a store puts back
the version that was there. The position 0 has one winner (`ClaimInv`). Consumers wait for
the version 2 and never find it (`EmptyInv`). A producer that loaded the counter as 0 and
lost sees in its cell the version it waits for, so it tries its CompareAndSwap again, and
fails again; one that loads the counter as 1 is refused. The variables of the two models
that have one name are shared by the instance, and the other four are declared in the
proof module: nothing is said of both models at once.

### The hazard domain

In `HazardDomain_proof`, for any finite set of threads, any number of slots, any batch and
any buffers:

| Theorem | Says | Strengthening |
|---|---|---|
| `TypeCorrect` | `Spec => []TypeOK` | `ControlInv`, `MadeInv` |
| `SlotsCorrect` | `Spec => []SlotInv` | `CoverInv` |
| `AcquireSucceeds` | `Spec => []NeverExhausted` | `RoomAhead` |
| `ProtectedCorrect` | `Spec => []ProtectedNotReclaimed` | `CoverInv`, `ScanSees`, `Apart` |
| `PlacesCorrect` | `Spec => []OnePlaceEach` | `MadeInv`, `Apart`, `NoRepeats` |
| `BacklogCorrect` | `Spec => []BacklogBounded` | `HazardBound`, `ControlInv` |

Assumptions: `ThreadsAssumption` (finitely many threads), `SlotsAssumption` and
`BatchAssumption` (both positive), `NoneAssumption` (`None` is no pointer, thread or index).

The argument. Why no buffer is reclaimed under a guard: the pointer of a guard is in the
guard's slot until the guard clears it (`CoverInv`), and a buffer that somebody protected
while it was live and that is in the list of the Scan in progress is in the Scan's set
already, or the Scan has not reached its slot (`ScanSees`). That holds although guards
move while the Scan reads them, because a pointer protected only now is live, and the
five places a buffer can be in are disjoint (`Apart`): it is not in this Scan's list.
When the Scan sorts, every slot is behind it, so a protected pointer of its list is in
the set and is kept. `OnePlaceEach` counts: each action moves one buffer from one place
to another (`...Moves`), the places are disjoint and none has a pointer twice
(`NoRepeats`), and then cardinalities add up (`PlacesCounted`). The backlog is at
most `max(Batch - 1, Slots)` plus one for each thread in a Scan: a Retire adds a pointer
and either the list is still shorter than a batch or the thread joins the Scans; a Scan
leaves no more than one pointer per slot, because what it keeps is in its set and the set
got at most one pointer from each slot (`HazardBound`), and it is the only one that leaves
the Scans (`BacklogStep`). Acquire looks at slots one by one while others come and go, so that
one of them is free at any moment would not do: `RoomAhead` says that those who hold a
slot from `i` on, or search from `i` on, fit into the slots from `i` on. A search moves
past slot `i` only when `i` has an owner, who is counted at `i` and not behind it; a
search past the last slot would be one thread more than there is room for (`NoPanic`).

### Circular buffers and the pipeline

In `CircularLog_proof`, for any buffer, log and count:

| Theorem | Says |
|---|---|
| `RecentIsLast` | a buffer that `Holds` a log returns the end of the log, for every count |

In `Pipeline_proof`, for any sizes from 1, any number of samples and Resets:

| Theorem | Says | Strengthening |
|---|---|---|
| `TypeCorrect` | `Spec => []TypeOK` | none: it is inductive |
| `WindowCorrect` | `Spec => []WindowInOrder` | `BuffersHold`, `ReadyCounts` |
| `RowsCorrect` | `Spec => []RowsAreRecent` | `BuffersHold` |
| `EventsCorrect` | `Spec => []EventsAreRecent` | `BuffersHold` |
| `IdsCorrect` | `Spec => []IdsNumberEvents` | none |
| `AlarmsCorrect` | `Spec => []NoTwoAlarmsMissed` | `MissedAtLastIndex` |
| `BaselineCorrect` | `Spec => []BaselineOfFirstRows` | `SamplesCountRows` |

The only assumption is `SizesAssumption`: the constructors of the code give every
size a positive value.

The argument. `Holds(n, b, log)` says of every cell of `b` which entry of the log it
has; the empty buffer holds the empty log (`EmptyOK`), and `Push` keeps the buffer in
step with `Append` (`PushHolds`): two entries less than `n` apart are in different
cells (`ModApart`), so the push overwrites the entry that is `n` back and no other.
`BuffersHold` says it of the four buffers of the pipeline and their logs, and what a
reader gets follows from `RecentIsLast`, or, for `LatestRow`, from `ModBackOne`.
A row that is off and raises no alarm has taken the index of the last alarm
(`MissedAtLastIndex`); the next row takes the next index, which differs when there are
two rows, so it does raise one: that a Reset leaves the index behind and that it wraps
are both covered. `samples` counts the rows up to `BaselineN` (`SamplesCountRows`), so
the baseline locks with row `BaselineN` and not a row earlier or later.

### The predictor

In `Predictor_proof`, for trackers and windows of any size, any timestamps and powers and
any number of phasors and Resets:

| Theorem | Says | Part of the invariant |
|---|---|---|
| `TypeCorrect` | `Spec => []TypeOK` | `TypeOK`, `SumsInv` |
| `RowsCorrect` | `Spec => []RowsAreFresh` | `SoftInv`, `LatestFresh` |
| `EnergyCorrect` | `Spec => []EnergyOfNewest` | `EnergyInv` |
| `OutcomeCorrect` | `Spec => ImplementsOutcome` | `SoftInv` |

The only assumption is `TimeAssumption`: sizes and steps are positive, a prediction takes
no more rows than the tracker has, powers are not negative, and timestamps stay further
from 2^64 than the window (nanoseconds since 1970 do for centuries).

The argument. A timestamp ahead of now has an unsigned difference beyond the window, and
one that is not has its age, so `Counts` takes exactly the rows that are not ahead and
within the window (`CountsIs`). It does so only after the clock has left 0, where the code
takes every row; `SoftInv` says that there is none but 0 by then. `Holds` says which row
each cell has, so the cells that count are those of the newest rows (`ValidIs`). The
running energy adds a row and subtracts the one that it overwrites. `EnergyOfNewest` is
inductive only with the running sums of the log, which belong to it and never fall
(`SumsInv`), so that the clamp at 0 never bites, and with the facts that a cell not
written yet subtracts nothing (`EnergyFollows`) and that a written one does
(`SteadyInv`). A push is the abstract push of `PullOutcome`: it adds one to the rows
counted up to `SoftMin` (`RowCounted`), and a prediction takes rows that are all in the
tracker, so there are `SoftMin` of them by then (`EnoughTotal`).

### The fuse

In `Fuse_proof`, for any devices, any size of the sequence number and any values:

| Theorem | Says | Part of the invariant |
|---|---|---|
| `TypeCorrect` | `Spec => []TypeOK` | `ChannelInv`, `BusInv` |
| `IdsCorrect` | `Spec => []IdsDiffer` | `ChannelInv`, `BusInv`, `OrderInv` |
| `EmergencyCorrect` | `Spec => []EmergencyReadable` | `BusInv` |
| `StatsCorrect` | `Spec => []StatsMatchBus` | itself |

Assumptions: `DevicesAssumption` (no two devices agree in the six bits that an identifier
keeps; the hazard list has what happens otherwise) and `ValuesAssumption` (bonds and
reasons fit their fields).

The argument. `BusInv` ties every frame to the call it was made for: its device, its
sequence number as the number of the call modulo `SeqMod`, its command and bond, and its
pull force up to the hundredth that the conversion may lose (`StoredIs`). A channel
counts calls modulo `SeqMod` (`ChannelInv`), sent or not, and the frames of a device are
on the bus in the order of their calls (`OrderInv`). Equal identifiers therefore belong
to one device and to two calls whose numbers have the same remainder, which are a
multiple of `SeqMod` apart.

### The decoder

In `Decoder_proof`, for any set of frames and any batches:

| Theorem | Says | From |
|---|---|---|
| `TypeCorrect` | `Spec => []TypeOK` | `IInv` |
| `SlicesCorrect` | `Spec => []SlicesOK` | `IInv` |
| `OffsetsMove` | `Spec => OffsetsAdvance` | `IInv` |
| `CutCorrect` | `Spec => []CutRejected` | `CutInv` |
| `RoundTripCorrect` | `Spec => []RoundTrip` | `IInv`, `ParseInv` |

Assumptions: `FramesAssumption` (a frame is a sequence of bytes shorter than 2^24) and
`BatchesAssumption`. The second gives the parameters of `SimulateBatch` their types and
bounds a frame to 8186 samples: `berTLVLen` writes a length of 2^16 or more without its
high bits, so a longer frame would not say how long it is. The code simulates 80 samples
per frame, and `models.MaxFrameSamples` is 4096 (sample.go:10). `FramesAssumption` is
not about the batches: `RoundTrip` and `CutRejected` speak of the frames of the run that
are simulated ones, or begin one.

Any bytes. A TLV that `readTLV` accepts has its content behind its header and
before the end of its slice (`TLVBounds`), a guessed share is at least one byte and at
most what remains (`GuessedBounds`), and what a TLV changes of an ASDU takes a part
only from that content (`AbsorbedType`). `SlicesOK` is not inductive: that the samples
of two ASDUs are apart follows from the offset of the loop, behind which everything
taken so far lies (`OrderInv`), and the fallback, which goes back to the front, runs
only when nothing was taken (`StageInv`). With `OffsetInv`, the offset is inside the
slice whenever a loop looks at it, they make `IInv`, with one lemma per action.
`OffsetsAdvance` is the step that makes both loops end; that a frame is finite and so
they do end is `Returns`, which TLC checks.

Simulated frames. `Reads(n, s, hi)` says that what the frame holds from offset `n` on
agrees with `s`, as far as it goes before `hi`. A length or a TLV that was written is then
read if all of it is there, as it was written, and not read otherwise (`LengthRead`,
`TLVRead`), in each of the three forms of a length. `SizesIs` gives the size of everything the
builder nests and `LayoutHolds` what it writes at which offset; `PlainHeaders` and
`VlanHeaders` that the headers end at 22 and 26.

- `CutCorrect`. Of a frame that was cut, the outermost TLV is not all there, however
  little is missing. `CutInv`: until such a frame is rejected, nothing but its headers
  has been parsed.
- `RoundTripCorrect`. `ParseInv` follows a whole frame (`Parse`): one ASDU, its five TLVs
  one after another and each at its offset, the fields already taken as they were
  written, and never the fallback. There is a lemma for each action that such a frame
  meets (`OpenParse`, `LoopParse`, `FieldParse`, `ASDUParse`). At the end
  `ExtractSamples` finds what was written (`SamplesAre`), and the numbers go on from
  frame to frame, because adding two counts to a 32-bit number one after the other is
  adding their sum (`PlusPlus`).

### The gateway

In `Gateway_proof`, for rings and batches of any size and any number of frames of any
kind:

| Theorem | Says | Part of the invariant |
|---|---|---|
| `TypeCorrect` | `Spec => []TypeOK` | `TypeInv` |
| `FramesCorrect` | `Spec => []FramesAccounted` | `Sums`, `StageInv` |
| `SamplesCorrect` | `Spec => []SamplesAccounted` | `Sums`, `StageInv` |
| `HitsCorrect` | `Spec => []EveryHitDispatched` | `Sums`, `StageInv` |
| `OrderCorrect` | `Spec => []InCaptureOrder` | `OrderInv` |

Assumptions: `SizesAssumption` (sizes are positive), `KindsAssumption` and
`FuseAssumption` (`EnableCANFuse` is a Boolean).

The argument. The accounts are sums of the levels of buffers and of counters (`Sums`), in
which `Dropping` stands for the refusal that is in one counter and not yet in the other.
They are not inductive: a new batch overwrites `rawBatch`, `totalSamples` or `pullBuf`,
and only `StageInv`, which says what a loop still holds at each of its control points,
shows that nothing is left to overwrite. That frames arrive in order is not inductive
either: `OrderInv` says that every buffer is increasing, that every frame in a buffer
was captured before every frame in the buffers behind it, and that none is newer than
`captured`. A step takes the head of one buffer to the end of the next one
(`MoveKeeps`, `MoveAfter`, `MoveBefore`), drops it (`DropKeeps`), empties a batch into
the pipeline (`ConcatKeeps`) or adds a batch that is newer than everything
(`NewBatch`). Steps that only move a control point are one case (`ControlKeeps`).

## 5. Only model-checked

- `AllDelivered`, `CancelEnds`, `Drained`, `Returns`: liveness is beyond the prover.
- The runs that expect a violation: a counterexample needs no proof.

Every other property that a run checks is stated by a theorem of section 4.

## 6. Where the code and its texts disagree

Each of these is a run in which TLC finds the counterexample.

- `LockFree`. main.go:39 and 111 call the ring lock-free. A CompareAndSwap that fails
  does not reload `pos` (tagged.go:52); until the winner publishes, the loser reads
  the same sequence and fails again. A winner that is suspended blocks the others.
- `VersionedRing!ImplementsQueue`. The version stored with an item is the one the cell
  had (tagged.go:173), and the dequeue waits for the next one: an item is accepted and
  never delivered. ringbuf_test.go:217 calls it Vyukov's queue. The theorems
  about the versioned ring add that one item is accepted in all, and that a producer that
  lost the race for it never leaves the loop at tagged.go:166.
- `EveryRedlineStops`. `ProcessBatch` drops the events that do not fit `pullBuf`
  (pipeline.go:201); they are neither counted nor sent.
- `DeviationReadable`. A negative percentage goes into an unsigned field (fuse.go:113),
  and dspLoop passes such a percentage for every event, as long as the pipeline's redline is
  the configured one (gateway.go:364-366; `SetPullRedline` changes only the pipeline's).

## 7. Not modelled

- Floating-point arithmetic (DFT, impedance, pull strength): outcomes are
  nondeterministic, and the energy sum is one of integers.
- The C capture: its kernel ring is memory shared with the kernel, and its frame
  builder belongs to a build of its own. The pure-Go capture is the one modelled.
- `SafeQueue`: it forwards to the versioned ring, which delivers nothing (section 6).
- `ApproxLen` and `ValidateIntegrity`: observers that nothing in the program calls.
- Simulated frames of more than 8186 samples: their lengths do not fit the two bytes
  that `berTLVLen` has for them.
- The memory that `ParseAPDU` asks for: it is as much as the claimed number of ASDUs.
- The sample numbers in `Gateway`: captureLoop numbers a batch from `SamplesRx`, a
  counter of another goroutine, so numbers of two batches may overlap.
- Goertzel and `CRC16Fuse`: no caller outside the tests.
- statsReporter and `GetStats` (they read), log output, latency statistics, flags.
- Callbacks are registered under a mutex and read without it; main registers them
  before Start, so no race is modelled.

## 8. Plan

What is left, in this order:

1. `RingObserver`: `ApproxLen` and `ValidateIntegrity` against a running ring.
2. The numbering of simulated samples in `Gateway`.
