----------------------------- MODULE Fuse_proof -----------------------------
(***************************************************************************)
(* Proofs about Fuse, for any devices, values and size of the sequence     *)
(* number: what an identifier and a payload say of the call they were      *)
(* made for, when identifiers repeat, and what the statistics count.  The  *)
(* facts about remainders are those of CircularLog_proof.                  *)
(***************************************************************************)
EXTENDS Fuse, CircularLog_proof, SequenceTheorems, FiniteSetTheorems

(***************************************************************************)
(* The inductive invariant.                                                *)
(***************************************************************************)
FrameType ==
    [id : [priority : Nat, device : Nat, cmd : Nat, reason : Nat, seq : Nat],
     bond : Nat, reason : Nat, emergency : BOOLEAN, pull : 0 .. MaxUint16, dev : 0 .. MaxUint16]

MadeType ==
    [device : Devices, nth : Nat, bond : BondIDs, pull : PullGrams, dev : DevPcts]

SentType == [frame : FrameType, made : MadeType]

\* What the frame of an entry of the bus says of the call it was made for.
Says(e) ==
    LET f == e.frame
    IN  /\ f.id.device = e.made.device % 64
        /\ f.id.seq = e.made.nth % SeqMod
        /\ f.id.cmd = IF f.emergency THEN CmdBondingEmergencyStop ELSE CmdQualityFailStop
        /\ f.id.priority = IF f.emergency THEN PriorityEmergency ELSE PriorityHigh
        /\ f.reason = f.id.reason
        /\ f.bond = e.made.bond
        /\ e.made.pull <= MaxUint16 => f.pull \in {e.made.pull - 1, e.made.pull}

BusInv ==
    /\ bus \in Seq(SentType)
    /\ \A i \in 1 .. Len(bus) : Says(bus[i])

\* The channel of a device has counted what was composed for it, modulo the
\* size of the sequence number.
ChannelInv ==
    /\ DOMAIN channels \subseteq Devices
    /\ \A d \in Devices : ChannelSeq(d) = composed[d] % SeqMod
    /\ composed \in [Devices -> 0 .. MaxFrames]

\* The frames of a device are on the bus in the order they were composed in.
OrderInv ==
    /\ \A i \in 1 .. Len(bus) : bus[i].made.nth \in 1 .. composed[bus[i].made.device]
    /\ \A i, j \in 1 .. Len(bus) :
           i < j /\ bus[i].made.device = bus[j].made.device => bus[i].made.nth < bus[j].made.nth

(***************************************************************************)
(* One frame.                                                              *)
(***************************************************************************)
LEMMA MaxIs == MaxUint16 \in Nat /\ MaxUint8 \in Nat /\ MaxUint8 + 1 = 256
BY DEF MaxUint16, MaxUint8

LEMMA Uint16Is ==
    ASSUME NEW x \in Int, NEW y \in Uint16(x)
    PROVE  y \in 0 .. MaxUint16 /\ (x \in 0 .. MaxUint16 => y = x)
<1>1. x % (MaxUint16 + 1) \in 0 .. MaxUint16
  BY MaxIs
<1>2. CASE x \in 0 .. MaxUint16
  BY <1>2 DEF Uint16
<1>3. CASE ~ x \in 0 .. MaxUint16
  BY <1>1, <1>3, MaxIs DEF Uint16
<1> QED
  BY <1>2, <1>3

LEMMA StoredIs ==
    ASSUME NEW x \in Int, NEW y \in Stored(x)
    PROVE  y \in 0 .. MaxUint16 /\ (x \in 0 .. MaxUint16 => y \in {x - 1, x})
<1>1. PICK h \in Hundredths(x) : y \in Uint16(h)
  BY DEF Stored
<1>2. h \in Int /\ (x \in 0 .. MaxUint16 => h \in 0 .. MaxUint16 /\ h \in {x - 1, x})
  BY MaxIs DEF Hundredths
<1> QED
  BY <1>1, <1>2, Uint16Is

LEMMA FrameSays ==
    ASSUME NEW d \in Devices, NEW bond \in BondIDs, NEW reason \in Reasons,
           NEW pull \in PullGrams, NEW dev \in DevPcts, NEW k \in Nat, NEW em \in BOOLEAN,
           NEW cmd, cmd = IF em THEN CmdBondingEmergencyStop ELSE CmdQualityFailStop,
           NEW pri, pri = IF em THEN PriorityEmergency ELSE PriorityHigh,
           NEW f \in Frames(PackCanID(pri, d, cmd, reason, k % SeqMod),
                            bond, reason, pull, dev, em),
           NEW e, e = [frame |-> f, made |-> [device |-> d, nth |-> k, bond |-> bond,
                                              pull |-> pull, dev |-> dev]]
    PROVE  e \in SentType /\ Says(e) /\ e.frame.emergency = em
<1>1. /\ d \in 0 .. MaxUint8 /\ bond \in Nat /\ reason \in 0 .. MaxUint8 /\ pull \in Nat /\ dev \in Int
      /\ SeqMod \in Sizes
  BY MaxIs, DevicesAssumption, ValuesAssumption DEF Sizes
<1>2. /\ k % SeqMod \in Nat /\ (k % SeqMod) % SeqMod = k % SeqMod
  <2>1. k % SeqMod \in 0 .. SeqMod - 1 /\ SeqMod \in Nat
    BY <1>1, DivMod DEF Sizes
  <2> QED
    BY <1>1, <2>1, ModSmall
<1> DEFINE id == PackCanID(pri, d, cmd, reason, k % SeqMod)
<1>3. id = [priority |-> pri, device |-> d % 64, cmd |-> cmd, reason |-> reason, seq |-> k % SeqMod]
  <2>1. cmd \in {1, 11} /\ pri \in {0, 1}
    BY DEF CmdBondingEmergencyStop, CmdQualityFailStop, PriorityEmergency, PriorityHigh
  <2>2. cmd % 256 = cmd /\ pri % 4 = pri /\ reason % 256 = reason
    <3>1. /\ 256 \in Sizes /\ 4 \in Sizes
          /\ cmd \in 0 .. 256 - 1 /\ pri \in 0 .. 4 - 1 /\ reason \in 0 .. 256 - 1
      BY <1>1, <2>1, MaxIs DEF Sizes
    <3> QED
      BY <3>1, ModSmall
  <2> QED
    BY <1>2, <2>2 DEF PackCanID
<1> HIDE DEF id
<1>4. PICK pg \in Stored(pull), dp \in Stored(dev) :
         f = [id |-> id, bond |-> bond, reason |-> reason, emergency |-> em,
              pull |-> pg, dev |-> dp]
  BY DEF Frames, id
<1>5. pg \in 0 .. MaxUint16 /\ dp \in 0 .. MaxUint16 /\ (pull <= MaxUint16 => pg \in {pull - 1, pull})
  BY <1>1, StoredIs
<1>6. d % 64 \in Nat /\ cmd \in Nat /\ pri \in Nat
  BY <1>1 DEF CmdBondingEmergencyStop, CmdQualityFailStop, PriorityEmergency, PriorityHigh
<1>7. id \in [priority : Nat, device : Nat, cmd : Nat, reason : Nat, seq : Nat]
  BY <1>1, <1>2, <1>3, <1>6
<1>8. f \in FrameType
  BY <1>1, <1>4, <1>5, <1>7 DEF FrameType
<1>9. e \in SentType
  BY <1>8 DEF SentType, MadeType
<1>10. e.frame = f /\ e.made.device = d /\ e.made.nth = k /\ e.made.bond = bond /\ e.made.pull = pull
  OBVIOUS
<1>11. f.id = id /\ f.bond = bond /\ f.reason = reason /\ f.emergency = em /\ f.pull = pg
  BY <1>4
<1>12. Says(e)
  BY <1>3, <1>5, <1>10, <1>11 DEF Says
<1> QED
  BY <1>9, <1>10, <1>11, <1>12

(***************************************************************************)
(* One call: the next frame of a device, sent or not.                      *)
(***************************************************************************)
Sends(d, e) ==
    /\ e \in SentType /\ Says(e)
    /\ e.made.device = d /\ e.made.nth = composed[d] + 1
    /\ Send(e.frame, e.made)

LEMMA NextSeqIs ==
    ASSUME ChannelInv, NEW d \in Devices
    PROVE  NextSeq(d) = (composed[d] + 1) % SeqMod
<1>1. SeqMod \in Sizes /\ composed[d] \in Nat
  BY ValuesAssumption DEF Sizes, ChannelInv
<1>2. composed[d] % SeqMod \in 0 .. SeqMod - 1 /\ SeqMod \in Nat
  BY <1>1, DivMod DEF Sizes
<1>3. (composed[d] % SeqMod) % SeqMod = composed[d] % SeqMod /\ composed[d] % SeqMod \in Nat
  BY <1>1, <1>2, ModSmall
<1>4. ((composed[d] % SeqMod) + 1) % SeqMod = (composed[d] + 1) % SeqMod
  BY <1>1, <1>3, ModAdd
<1> QED
  BY <1>4 DEF NextSeq, ChannelInv

LEMMA StepIs ==
    ASSUME ChannelInv, Next
    PROVE  \E d \in Devices :
               /\ Compose(d)
               /\ UNCHANGED <<bus, stats>> \/ \E e : Sends(d, e)
<1>1. PICK d \in Devices, bond \in BondIDs, reason \in Reasons,
           pull \in PullGrams, dev \in DevPcts :
         \/ DispatchEmergency(d, bond, reason, pull, dev)
         \/ QualityFail(d, bond, reason, pull, dev)
  BY DEF Next
<1> DEFINE k == composed[d] + 1
           made == [device |-> d, nth |-> k, bond |-> bond, pull |-> pull, dev |-> dev]
<1>2. Compose(d)
  BY <1>1 DEF DispatchEmergency, QualityFail
<1>3. k \in Nat /\ composed'[d] = k
  BY <1>2, ValuesAssumption DEF Compose, ChannelInv
<1>4. NextSeq(d) = k % SeqMod
  BY NextSeqIs
<1>5. ASSUME NEW em \in BOOLEAN,
             NEW cmd, cmd = IF em THEN CmdBondingEmergencyStop ELSE CmdQualityFailStop,
             NEW pri, pri = IF em THEN PriorityEmergency ELSE PriorityHigh,
             NEW f \in Frames(PackCanID(pri, d, cmd, reason, NextSeq(d)),
                              bond, reason, pull, dev, em),
             Send(f, made)
      PROVE  \E e : Sends(d, e)
  <2> DEFINE e == [frame |-> f, made |-> made]
  <2>1. e \in SentType /\ Says(e)
    <3>1. f \in Frames(PackCanID(pri, d, cmd, reason, k % SeqMod), bond, reason, pull, dev, em)
      BY <1>4, <1>5
    <3> HIDE DEF k
    <3> QED
      BY <1>3, <1>5, <3>1, FrameSays
  <2>2. e.frame = f /\ e.made = made /\ e.made.device = d /\ e.made.nth = k
    OBVIOUS
  <2> QED
    BY <1>5, <2>1, <2>2 DEF Sends
<1>6. CASE DispatchEmergency(d, bond, reason, pull, dev)
  <2>1. PICK f \in Frames(PackCanID(PriorityEmergency, d, CmdBondingEmergencyStop, reason,
                                    NextSeq(d)), bond, reason, pull, dev, TRUE) :
           Send(f, made)
    BY <1>3, <1>6 DEF DispatchEmergency
  <2> QED
    BY <1>2, <1>5, <2>1
<1>7. CASE QualityFail(d, bond, reason, pull, dev)
  <2>1. PICK f \in Frames(PackCanID(PriorityHigh, d, CmdQualityFailStop, reason,
                                    NextSeq(d)), bond, reason, pull, dev, FALSE) :
           Send(f, made) \/ UNCHANGED <<bus, stats>>
    BY <1>3, <1>7 DEF QualityFail
  <2> QED
    BY <1>2, <1>5, <2>1
<1> QED
  BY <1>1, <1>6, <1>7

(***************************************************************************)
(* The steps.                                                              *)
(***************************************************************************)
LEMMA AppendIs ==
    ASSUME bus \in Seq(SentType), NEW e \in SentType, bus' = Append(bus, e)
    PROVE  /\ Len(bus) \in Nat /\ bus' \in Seq(SentType) /\ Len(bus') = Len(bus) + 1
           /\ \A i \in 1 .. Len(bus) : bus'[i] = bus[i]
           /\ bus'[Len(bus')] = e
BY AppendProperties, LenProperties

LEMMA SendIs ==
    ASSUME NEW d, NEW e, Sends(d, e)
    PROVE  bus' = Append(bus, e)
<1>1. e = [frame |-> e.frame, made |-> e.made]
  BY DEF Sends, SentType
<1> QED
  BY <1>1 DEF Sends, Send

LEMMA ChannelStep == ChannelInv /\ [Next]_vars => ChannelInv'
<1> SUFFICES ASSUME ChannelInv, [Next]_vars PROVE ChannelInv'
  OBVIOUS
<1>1. CASE UNCHANGED vars
  BY <1>1 DEF vars, ChannelInv, ChannelSeq
<1>2. CASE Next
  <2>1. PICK d \in Devices : Compose(d)
    BY <1>2, StepIs
  <2>2. composed' = [composed EXCEPT ![d] = composed[d] + 1] /\ composed[d] < MaxFrames
    BY <2>1 DEF Compose
  <2>3. NextSeq(d) = (composed[d] + 1) % SeqMod
    BY NextSeqIs
  <2>4. channels' = [e \in DOMAIN channels \cup {d} |-> IF e = d THEN NextSeq(d) ELSE channels[e]]
    BY <2>1 DEF Compose, SetChannel
  <2>5. composed' \in [Devices -> 0 .. MaxFrames]
    BY <2>2, ValuesAssumption DEF ChannelInv
  <2>6. DOMAIN channels' \subseteq Devices
    BY <2>4 DEF ChannelInv
  <2>7. ASSUME NEW e \in Devices PROVE ChannelSeq(e)' = composed'[e] % SeqMod
    <3>1. CASE e = d
      BY <2>2, <2>3, <2>4, <3>1 DEF ChannelSeq, ChannelInv
    <3>2. CASE e # d
      <4>1. ChannelSeq(e)' = ChannelSeq(e)
        BY <2>4, <3>2 DEF ChannelSeq
      <4> QED
        BY <2>2, <3>2, <4>1 DEF ChannelInv
    <3> QED
      BY <3>1, <3>2
  <2> QED
    BY <2>5, <2>6, <2>7 DEF ChannelInv
<1> QED
  BY <1>1, <1>2

LEMMA BusStep ==
    ChannelInv /\ BusInv /\ OrderInv /\ [Next]_vars => BusInv' /\ OrderInv'
<1> SUFFICES ASSUME ChannelInv, BusInv, OrderInv, [Next]_vars PROVE BusInv' /\ OrderInv'
  OBVIOUS
<1>1. CASE UNCHANGED vars
  BY <1>1 DEF vars, BusInv, OrderInv
<1>2. CASE Next
  <2>1. PICK d \in Devices : Compose(d) /\ (UNCHANGED <<bus, stats>> \/ \E e : Sends(d, e))
    BY <1>2, StepIs
  <2>2. /\ composed' = [composed EXCEPT ![d] = composed[d] + 1]
        /\ \A e \in Devices : composed[e] \in Nat
    BY <2>1 DEF Compose, ChannelInv
  <2>3. \A i \in 1 .. Len(bus) : bus[i].made.device \in Devices /\ bus[i].made.nth \in Nat
    <3> SUFFICES ASSUME NEW i \in 1 .. Len(bus)
                 PROVE  bus[i].made.device \in Devices /\ bus[i].made.nth \in Nat
      OBVIOUS
    <3>1. bus[i] \in SentType
      BY ElementOfSeq DEF BusInv
    <3> QED
      BY <3>1 DEF SentType, MadeType
  <2>4. \A e \in Devices : composed'[e] \in Nat /\ composed[e] <= composed'[e]
    BY <2>2 DEF ChannelInv
  <2>5. CASE UNCHANGED <<bus, stats>>
    <3>1. BusInv'
      BY <2>5 DEF BusInv
    <3>2. OrderInv'
      BY <2>2, <2>3, <2>4, <2>5 DEF OrderInv
    <3> QED
      BY <3>1, <3>2
  <2>6. CASE \E e : Sends(d, e)
    <3>1. PICK e : Sends(d, e)
      BY <2>6
    <3>2. /\ e \in SentType /\ Says(e) /\ e.made.device = d /\ e.made.nth = composed[d] + 1
          /\ bus' = Append(bus, e)
      BY <3>1, SendIs DEF Sends
    <3>3. /\ Len(bus) \in Nat /\ bus' \in Seq(SentType) /\ Len(bus') = Len(bus) + 1
          /\ \A i \in 1 .. Len(bus) : bus'[i] = bus[i]
          /\ bus'[Len(bus')] = e
      BY <3>2, AppendIs DEF BusInv
    <3>4. BusInv'
      BY <3>2, <3>3 DEF BusInv
    <3>5. composed'[d] = composed[d] + 1 /\ composed[d] \in Nat
      BY <2>2 DEF ChannelInv
    <3>6. ASSUME NEW i \in 1 .. Len(bus') PROVE bus'[i].made.nth \in 1 .. composed'[bus'[i].made.device]
      <4>1. CASE i = Len(bus')
        BY <3>2, <3>3, <3>5, <4>1
      <4>2. CASE i # Len(bus')
        <5>1. i \in 1 .. Len(bus) /\ bus'[i] = bus[i]
          BY <3>3, <4>2
        <5> QED
          BY <2>3, <2>2, <2>4, <5>1 DEF OrderInv
      <4> QED
        BY <4>1, <4>2
    <3>7. ASSUME NEW i \in 1 .. Len(bus'), NEW j \in 1 .. Len(bus'), i < j,
                 bus'[i].made.device = bus'[j].made.device
          PROVE  bus'[i].made.nth < bus'[j].made.nth
      <4>1. i \in 1 .. Len(bus) /\ bus'[i] = bus[i]
        BY <3>3, <3>7
      <4>2. CASE j = Len(bus')
        <5>1. bus[i].made.device = d /\ bus'[j].made.nth = composed[d] + 1
          BY <3>2, <3>3, <3>7, <4>1, <4>2
        <5>2. bus[i].made.nth <= composed[d] /\ bus[i].made.nth \in Nat
          BY <2>3, <3>5, <4>1, <5>1 DEF OrderInv
        <5> QED
          BY <3>5, <4>1, <5>1, <5>2
      <4>3. CASE j # Len(bus')
        <5>1. j \in 1 .. Len(bus) /\ bus'[j] = bus[j]
          BY <3>3, <4>3
        <5> QED
          BY <3>7, <4>1, <5>1 DEF OrderInv
      <4> QED
        BY <4>2, <4>3
    <3>8. OrderInv'
      BY <3>6, <3>7 DEF OrderInv
    <3> QED
      BY <3>4, <3>8
  <2> QED
    BY <2>1, <2>5, <2>6
<1> QED
  BY <1>1, <1>2

(***************************************************************************)
(* The statistics.                                                         *)
(***************************************************************************)
SentWith(q, b) == {i \in 1 .. Len(q) : q[i].frame.emergency = b}

LEMMA StatsIs ==
    StatsMatchBus <=> /\ stats.EmergencyFrames = Cardinality(SentWith(bus, TRUE))
                      /\ stats.QualityFrames = Cardinality(SentWith(bus, FALSE))
                      /\ bus # <<>> => stats.LastFrame = bus[Len(bus)].frame
BY Zenon DEF StatsMatchBus, SentWith

LEMMA CountIs ==
    ASSUME BusInv, NEW b
    PROVE  IsFiniteSet(SentWith(bus, b)) /\ Cardinality(SentWith(bus, b)) \in Nat
<1>1. Len(bus) \in Nat
  BY LenProperties DEF BusInv
<1>2. IsFiniteSet(1 .. Len(bus))
  BY <1>1, FS_Interval
<1>3. SentWith(bus, b) \subseteq 1 .. Len(bus)
  BY DEF SentWith
<1> QED
  BY <1>2, <1>3, FS_Subset, FS_CardinalityType

LEMMA StatsStep ==
    ChannelInv /\ BusInv /\ StatsMatchBus /\ [Next]_vars => StatsMatchBus'
<1> SUFFICES ASSUME ChannelInv, BusInv, StatsMatchBus, [Next]_vars PROVE StatsMatchBus'
  OBVIOUS
<1>1. CASE UNCHANGED <<bus, stats>>
  BY <1>1 DEF StatsMatchBus
<1>2. ASSUME NEW d \in Devices, NEW e, Sends(d, e) PROVE StatsMatchBus'
  <2>1. e \in SentType /\ Says(e) /\ bus' = Append(bus, e)
    BY <1>2, SendIs DEF Sends
  <2> DEFINE n == Len(bus)
             em == e.frame.emergency
  <2>2. /\ n \in Nat /\ Len(bus') = n + 1 /\ bus'[n + 1] = e
        /\ \A i \in 1 .. n : bus'[i] = bus[i]
    BY <2>1, AppendIs DEF BusInv
  <2>3. em \in BOOLEAN
    BY <2>1 DEF SentType, FrameType
  <2>4. /\ e.frame.id.cmd = CmdBondingEmergencyStop <=> em
        /\ e.frame.id.cmd = CmdQualityFailStop <=> ~ em
    BY <2>1, <2>3 DEF Says, CmdBondingEmergencyStop, CmdQualityFailStop
  <2>5. ASSUME NEW b \in BOOLEAN
        PROVE  Cardinality(SentWith(bus', b)) = Cardinality(SentWith(bus, b)) + (IF em = b THEN 1 ELSE 0)
    <3>1. n + 1 \notin SentWith(bus, b)
      BY <2>2 DEF SentWith
    <3>2. CASE em = b
      <4>1. SentWith(bus', b) = SentWith(bus, b) \cup {n + 1}
        BY <2>2, <3>2 DEF SentWith
      <4>2. Cardinality(SentWith(bus, b) \cup {n + 1}) = Cardinality(SentWith(bus, b)) + 1
        BY <3>1, CountIs, FS_AddElement
      <4> QED
        BY <3>2, <4>1, <4>2
    <3>3. CASE em # b
      <4>1. SentWith(bus', b) = SentWith(bus, b)
        BY <2>2, <3>3 DEF SentWith
      <4> QED
        BY <3>3, <4>1, CountIs
    <3> QED
      BY <3>2, <3>3
  <2>6. /\ stats'.EmergencyFrames = stats.EmergencyFrames + (IF em THEN 1 ELSE 0)
        /\ stats'.QualityFrames = stats.QualityFrames + (IF em THEN 0 ELSE 1)
        /\ stats'.LastFrame = e.frame
    BY <1>2, <2>3, <2>4 DEF Sends, Send
  <2> HIDE DEF n, em
  <2>7. /\ stats'.EmergencyFrames = Cardinality(SentWith(bus', TRUE))
        /\ stats'.QualityFrames = Cardinality(SentWith(bus', FALSE))
    <3>1. /\ stats.EmergencyFrames = Cardinality(SentWith(bus, TRUE))
          /\ stats.QualityFrames = Cardinality(SentWith(bus, FALSE))
      BY StatsIs
    <3>2. CASE em
      BY <2>3, <2>5, <2>6, <3>1, <3>2, CountIs
    <3>3. CASE ~ em
      BY <2>3, <2>5, <2>6, <3>1, <3>3, CountIs
    <3> QED
      BY <3>2, <3>3
  <2>8. stats'.LastFrame = bus'[Len(bus')].frame
    BY <2>2, <2>6
  <2> QED
    BY <2>7, <2>8 DEF StatsMatchBus, SentWith
<1> QED
  BY <1>1, <1>2, StepIs DEF vars

(***************************************************************************)
(* The theorems.                                                           *)
(***************************************************************************)
IInv == ChannelInv /\ BusInv /\ OrderInv /\ StatsMatchBus

LEMMA IInvInit == Init => IInv
<1> SUFFICES ASSUME Init PROVE IInv
  OBVIOUS
<1>1. bus = <<>> /\ Len(bus) = 0 /\ bus \in Seq(SentType)
  BY EmptySeq DEF Init
<1>2. ChannelInv
  <2>1. 0 % SeqMod = 0
    BY ValuesAssumption, ModSmall DEF Sizes
  <2> QED
    BY <2>1, ValuesAssumption DEF Init, ChannelInv, ChannelSeq
<1>3. BusInv /\ OrderInv
  BY <1>1 DEF BusInv, OrderInv
<1>4. StatsMatchBus
  <2>1. \A b : SentWith(bus, b) = {}
    BY <1>1 DEF SentWith
  <2>2. stats.EmergencyFrames = 0 /\ stats.QualityFrames = 0
    BY DEF Init
  <2> QED
    BY <1>1, <2>1, <2>2, FS_EmptySet, StatsIs
<1> QED
  BY <1>2, <1>3, <1>4 DEF IInv

LEMMA IInvStep == IInv /\ [Next]_vars => IInv'
BY ChannelStep, BusStep, StatsStep DEF IInv

LEMMA IInvAlways == Spec => []IInv
BY IInvInit, IInvStep, PTL DEF Spec

\* Whatever is dispatched, a sequence number stays below its size and the two
\* 16-bit fields hold 16 bits (fuse.go:73-116 and 170-181).
THEOREM TypeCorrect == Spec => []TypeOK
<1>1. IInv => TypeOK
  <2> SUFFICES ASSUME IInv PROVE TypeOK
    OBVIOUS
  <2>1. ASSUME NEW d \in DOMAIN channels PROVE channels[d] \in 0 .. SeqMod - 1
    <3>1. d \in Devices /\ channels[d] = composed[d] % SeqMod /\ composed[d] \in Nat
      BY DEF IInv, ChannelInv, ChannelSeq
    <3> QED
      BY <3>1, ValuesAssumption, DivMod DEF Sizes
  <2>2. ASSUME NEW i \in 1 .. Len(bus)
        PROVE  bus[i].frame.pull \in 0 .. MaxUint16 /\ bus[i].frame.dev \in 0 .. MaxUint16
    <3>1. bus[i] \in SentType
      BY ElementOfSeq DEF IInv, BusInv
    <3> QED
      BY <3>1 DEF SentType, FrameType
  <2>3. stats.EmergencyFrames \in Nat /\ stats.QualityFrames \in Nat
    BY CountIs, StatsIs DEF IInv
  <2> QED
    BY <2>1, <2>2, <2>3 DEF TypeOK, IInv, ChannelInv
<1> QED
  BY <1>1, IInvAlways, PTL

\* Two frames on the bus have the same CAN identifier only when they are of
\* one device and a full round of its sequence numbers apart, for every size
\* of the sequence number and mix of frames (fuse.go:75, 82 and 118-126).
THEOREM IdsCorrect == Spec => []IdsDiffer
<1>1. IInv => IdsDiffer
  <2> SUFFICES ASSUME IInv, NEW i \in 1 .. Len(bus), NEW j \in 1 .. Len(bus), i < j,
                      bus[i].frame.id = bus[j].frame.id
               PROVE  /\ bus[i].made.device = bus[j].made.device
                      /\ bus[j].made.nth - bus[i].made.nth >= SeqMod
    BY DEF IdsDiffer
  <2> DEFINE a == bus[i].made.nth
             b == bus[j].made.nth
  <2>1. /\ bus[i] \in SentType /\ bus[j] \in SentType
        /\ Says(bus[i]) /\ Says(bus[j])
    BY ElementOfSeq DEF IInv, BusInv
  <2>2. /\ bus[i].made.device \in Devices /\ bus[j].made.device \in Devices
        /\ a \in Nat /\ b \in Nat
    BY <2>1 DEF SentType, MadeType
  <2>3. bus[i].made.device % 64 = bus[j].made.device % 64 /\ a % SeqMod = b % SeqMod
    BY <2>1 DEF Says
  <2>4. bus[i].made.device = bus[j].made.device
    BY <2>2, <2>3, DevicesAssumption
  <2>5. a < b
    BY <2>4 DEF IInv, OrderInv
  <2> HIDE DEF a, b
  <2>6. ~ b < a + SeqMod
    BY <2>2, <2>3, <2>5, ModApart, ValuesAssumption DEF Sizes
  <2>7. b - a >= SeqMod
    BY <2>2, <2>6, ValuesAssumption
  <2> QED
    BY <2>4, <2>7 DEF a, b
<1> QED
  BY <1>1, IInvAlways, PTL

\* Whoever decodes a frame of the bus finds the flag, the command, the
\* priority, the reason and the bond of the call it was made for, and the
\* pull force up to a hundredth of a gram if 16 bits hold it (fuse.go:93-116 and 137-153).
THEOREM EmergencyCorrect == Spec => []EmergencyReadable
<1>1. IInv => EmergencyReadable
  <2> SUFFICES ASSUME IInv, NEW i \in 1 .. Len(bus)
               PROVE  LET f == bus[i].frame
                          p == PayloadDecode(f)
                      IN  /\ p.EmergencyStop <=> f.id.cmd = CmdBondingEmergencyStop
                          /\ p.EmergencyStop <=> f.id.priority = PriorityEmergency
                          /\ p.Reason = f.id.reason
                          /\ p.BondID = bus[i].made.bond
                          /\ bus[i].made.pull <= MaxUint16 =>
                                 p.PullGrams \in {bus[i].made.pull - 1, bus[i].made.pull}
    BY DEF EmergencyReadable
  <2>1. bus[i] \in SentType /\ Says(bus[i])
    BY ElementOfSeq DEF IInv, BusInv
  <2>2. bus[i].frame.emergency \in BOOLEAN
    BY <2>1 DEF SentType, FrameType
  <2> QED
    BY <2>1, <2>2 DEF Says, PayloadDecode, CmdBondingEmergencyStop, CmdQualityFailStop,
                      PriorityEmergency, PriorityHigh
<1> QED
  BY <1>1, IInvAlways, PTL

\* The statistics count the emergency and the quality frames on the bus and
\* show the last of them (fuse.go:192-203).
THEOREM StatsCorrect == Spec => []StatsMatchBus
BY IInvAlways, PTL DEF IInv
=============================================================================
