-------------------------------- MODULE Fuse --------------------------------
(***************************************************************************)
(* FuseDispatcher, FuseChannel and Frame20B of internal/canbus/fuse.go:    *)
(* stop frames are composed per device, with an 8-bit sequence number in   *)
(* the CAN identifier, sent by callback, counted, and decoded by whoever   *)
(* reads the bus.  dspLoop is the only caller and nobody reads the         *)
(* dispatcher's statistics meanwhile, so a call is one action; the gateway *)
(* always gives the dispatcher a function to send with.                    *)
(*                                                                         *)
(* An identifier is the record of its bit fields and the data bytes are    *)
(* the record of the values stored in them.  Grams and percents are in     *)
(* hundredths, the unit of the two 16-bit fields.                          *)
(***************************************************************************)
EXTENDS Integers, Sequences, FiniteSets

CONSTANTS Devices,    \* device ids that callers pass
          SeqMod,     \* values of the sequence number, 256
          BondIDs,
          Reasons,
          PullGrams,  \* pull forces in 1/100 g
          DevPcts,    \* deviations in 1/100 %
          MaxFrames   \* bound: frames composed per device

MaxUint8  == 255
MaxUint16 == 65535

\* FuseChannel keeps six bits of the device; the dispatcher's map keeps all.
ASSUME DevicesAssumption ==
    /\ Devices \subseteq 0 .. MaxUint8
    /\ \A d, e \in Devices : d % 64 = e % 64 => d = e

ASSUME ValuesAssumption ==
    /\ SeqMod \in Nat \ {0} /\ MaxFrames \in Nat
    /\ BondIDs \subseteq 0 .. MaxUint16 /\ Reasons \subseteq 0 .. MaxUint8
    /\ PullGrams \subseteq Nat /\ DevPcts \subseteq Int

VARIABLES channels,   \* fd.channels: the sequence number of each channel made
          bus,        \* frames sent, in order, each with what it was made from
          stats,      \* fd.stats
          composed    \* history: frames composed per device

vars == <<channels, bus, stats, composed>>

NoFrame == [bond |-> 0, reason |-> 0, emergency |-> FALSE, pull |-> 0, dev |-> 0,
            id |-> [priority |-> 0, device |-> 0, cmd |-> 0, reason |-> 0, seq |-> 0]]

Init ==
    /\ channels = [d \in {} |-> 0]
    /\ bus = <<>>
    /\ stats = [EmergencyFrames |-> 0, QualityFrames |-> 0, LastFrame |-> NoFrame]
    /\ composed = [d \in Devices |-> 0]

PriorityEmergency == 0
PriorityHigh      == 1
CmdBondingEmergencyStop == 1
CmdQualityFailStop      == 11

(***************************************************************************)
(* Slips: definitions below, each with a mistake that would be easy to     *)
(* make in the code.  Nothing refers to them; put in the place of the      *)
(* definition they are named after, each makes a property fail.            *)
(***************************************************************************)

PackCanIDShifted(priority, device, cmd, reason, seq) ==
    [priority |-> priority % 4, device |-> device \div 64, cmd |-> cmd % 256,
     reason |-> reason % 256, seq |-> seq % SeqMod]

PayloadDecodeReason(f) ==
    [BondID |-> f.bond, Reason |-> f.reason, EmergencyStop |-> f.reason # 0,
     PullGrams |-> f.pull, DeviationPct |-> f.dev, SeqNo |-> f.id.seq]

NextSeqUnbounded(d) == (IF d \in DOMAIN channels THEN channels[d] ELSE 0) + 1

SendCountsAll(f, made) ==
    /\ bus' = Append(bus, [frame |-> f, made |-> made])
    /\ stats' = [stats EXCEPT !.EmergencyFrames = @ + 1, !.LastFrame = f]

PackCanID(priority, device, cmd, reason, seq) ==
    [priority |-> priority % 4, device |-> device % 64, cmd |-> cmd % 256,
     reason |-> reason % 256, seq |-> seq % SeqMod]

\* 100 * x in float32, of a value of which x is the hundredths, without its
\* fraction: the product may fall just short of x.
Hundredths(x) == IF x > 0 THEN {x - 1, x} ELSE IF x < 0 THEN {x, x + 1} ELSE {0}

\* uint16(x) of a float: truncation when it fits; when it does not the
\* language leaves the value to the implementation, and the builds either
\* keep the low 16 bits or saturate.
Uint16(x) == IF x \in 0 .. MaxUint16 THEN {x}
             ELSE {x % (MaxUint16 + 1), IF x < 0 THEN 0 ELSE MaxUint16}

Stored(x) == UNION {Uint16(h) : h \in Hundredths(x)}

\* buildFrame
Frames(id, bond, reason, pull, dev, emergency) ==
    {[id |-> id, bond |-> bond, reason |-> reason, emergency |-> emergency,
      pull |-> pg, dev |-> dp] : pg \in Stored(pull), dp \in Stored(dev)}

\* PayloadDecode; SeqNo is the sequence number of the identifier.
PayloadDecode(f) ==
    [BondID |-> f.bond, Reason |-> f.reason, EmergencyStop |-> f.emergency,
     PullGrams |-> f.pull, DeviationPct |-> f.dev, SeqNo |-> f.id.seq]

\* GetChannel: the sequence number of the device's channel, made if need be.
ChannelSeq(d) == IF d \in DOMAIN channels THEN channels[d] ELSE 0

NextSeq(d) == (ChannelSeq(d) + 1) % SeqMod

SetChannel(d, seq) ==
    channels' = [e \in DOMAIN channels \cup {d} |-> IF e = d THEN seq ELSE channels[e]]

\* The callback of GetChannel: pass the frame on, then count it by the
\* command in its identifier.
Send(f, made) ==
    /\ bus' = Append(bus, [frame |-> f, made |-> made])
    /\ stats' = [EmergencyFrames |-> stats.EmergencyFrames
                                     + IF f.id.cmd = CmdBondingEmergencyStop THEN 1 ELSE 0,
                 QualityFrames   |-> stats.QualityFrames
                                     + IF f.id.cmd = CmdQualityFailStop THEN 1 ELSE 0,
                 LastFrame       |-> f]

Compose(d) ==
    /\ composed[d] < MaxFrames
    /\ composed' = [composed EXCEPT ![d] = @ + 1]
    /\ SetChannel(d, NextSeq(d))

DispatchEmergency(d, bond, reason, pull, dev) ==
    /\ Compose(d)
    /\ LET id == PackCanID(PriorityEmergency, d, CmdBondingEmergencyStop, reason, NextSeq(d))
       IN  \E f \in Frames(id, bond, reason, pull, dev, TRUE) :
               Send(f, [device |-> d, nth |-> composed'[d], bond |-> bond, pull |-> pull, dev |-> dev])

\* ComposeQualityFail on the device's channel, and Send if the caller does.
QualityFail(d, bond, reason, pull, dev) ==
    /\ Compose(d)
    /\ LET id == PackCanID(PriorityHigh, d, CmdQualityFailStop, reason, NextSeq(d))
       IN  \E f \in Frames(id, bond, reason, pull, dev, FALSE) :
               \/ Send(f, [device |-> d, nth |-> composed'[d], bond |-> bond, pull |-> pull, dev |-> dev])
               \/ UNCHANGED <<bus, stats>>

Next ==
    \E d \in Devices, bond \in BondIDs, reason \in Reasons, pull \in PullGrams, dev \in DevPcts :
        \/ DispatchEmergency(d, bond, reason, pull, dev)
        \/ QualityFail(d, bond, reason, pull, dev)

Spec == Init /\ [][Next]_vars

-----------------------------------------------------------------------------
TypeOK ==
    /\ DOMAIN channels \subseteq Devices
    /\ \A d \in DOMAIN channels : channels[d] \in 0 .. SeqMod - 1
    /\ composed \in [Devices -> 0 .. MaxFrames]
    /\ \A i \in 1 .. Len(bus) : /\ bus[i].frame.pull \in 0 .. MaxUint16
                                /\ bus[i].frame.dev \in 0 .. MaxUint16
    /\ stats.EmergencyFrames \in Nat /\ stats.QualityFrames \in Nat

\* Two frames of the bus have the same identifier only when their device has
\* composed a full round of sequence numbers between them, whatever mix of
\* emergency and quality frames, sent and unsent, that was.
IdsDiffer ==
    \A i, j \in 1 .. Len(bus) :
        i < j /\ bus[i].frame.id = bus[j].frame.id
            => /\ bus[i].made.device = bus[j].made.device
               /\ bus[j].made.nth - bus[i].made.nth >= SeqMod

\* Whoever reads an emergency frame learns the bond and, up to the last
\* hundredth of a gram, a pull force that 16 bits hold; the flag in the data
\* agrees with the command and the priority (fuse.go:93-116 and 137-153).
EmergencyReadable ==
    \A i \in 1 .. Len(bus) :
        LET f == bus[i].frame
            p == PayloadDecode(f)
        IN  /\ p.EmergencyStop <=> f.id.cmd = CmdBondingEmergencyStop
            /\ p.EmergencyStop <=> f.id.priority = PriorityEmergency
            /\ p.Reason = f.id.reason
            /\ p.BondID = bus[i].made.bond
            /\ bus[i].made.pull <= MaxUint16 =>
                   p.PullGrams \in {bus[i].made.pull - 1, bus[i].made.pull}

\* The statistics are those of the frames on the bus.
StatsMatchBus ==
    LET sent(b) == Cardinality({i \in 1 .. Len(bus) : bus[i].frame.emergency = b})
    IN  /\ stats.EmergencyFrames = sent(TRUE)
        /\ stats.QualityFrames = sent(FALSE)
        /\ bus # <<>> => stats.LastFrame = bus[Len(bus)].frame

\* The deviation that PayloadDecode returns, and main.go prints, is the one
\* the frame was composed with, up to the last hundredth.
DeviationReadable ==
    \A i \in 1 .. Len(bus) :
        PayloadDecode(bus[i].frame).DeviationPct \in bus[i].made.dev - 1 .. bus[i].made.dev + 1
=============================================================================
