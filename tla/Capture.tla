------------------------------ MODULE Capture ------------------------------
(***************************************************************************)
(* The frames of the pure-Go capture (internal/packetcap/capture_nocgo.go),*)
(* which simulates a merging unit: buildSVFramePureGo as a sequence of     *)
(* bytes, and the batch that SimulateBatch and ReadBatch fill.             *)
(*                                                                         *)
(* A uint32 is the sequence of its four bytes, most significant first.     *)
(* The two sine waves are replaced by values that all differ: the bytes    *)
(* travel, their meaning as numbers does not matter here.                  *)
(***************************************************************************)
EXTENDS Integers, Sequences

Byte == 0 .. 255
Word == [1 .. 4 -> Byte]

Zero32 == <<0, 0, 0, 0>>

\* w + k modulo 2^32, for a small k.
Plus(w, k) ==
    LET d == w[4] + k
        c == w[3] + d \div 256
        b == w[2] + c \div 256
        a == w[1] + b \div 256
    IN  <<a % 256, b % 256, c % 256, d % 256>>

\* A slip for BerLen: 128 in the short form.
BerLenShortTo128(n) ==
    IF n <= 128 THEN <<n>>
    ELSE IF n < 256 THEN <<129, n>>
    ELSE <<130, (n \div 256) % 256, n % 256>>

\* berTLVLen, berLenBytes
BerLen(n) ==
    IF n < 128 THEN <<n>>
    ELSE IF n < 256 THEN <<129, n>>
    ELSE <<130, (n \div 256) % 256, n % 256>>

TLV(tag, content) == <<tag>> \o BerLen(Len(content)) \o content

SvID == <<87, 66, 66, 79, 78, 68, 48, 49>>

\* Current and voltage of the sample at a phase, four bytes each.
Current(phase) == <<(phase % 2) * 255, 255, (phase \div 256) % 256, phase % 256>>
Voltage(phase) == <<((phase + 1) % 2) * 255, 0, (phase \div 256) % 256, phase % 256>>

SeqData(numSamples, phase) ==
    [b \in 1 .. 8 * numSamples |->
        LET at == phase + (b - 1) \div 8
            k  == (b - 1) % 8
        IN  IF k < 4 THEN Current(at)[k + 1] ELSE Voltage(at)[k - 3]]

ASDU(smpcnt, numSamples, phase) ==
    TLV(128, SvID) \o TLV(130, smpcnt) \o TLV(131, <<0, 0, 0, 1>>) \o TLV(133, <<1>>)
        \o TLV(135, SeqData(numSamples, phase))

EthernetHeader == <<1, 1, 1, 1, 1, 1, 2, 2, 2, 2, 2, 2, 136, 186>>

SVHeader(apdu) == <<0, 1, (Len(apdu) \div 256) % 256, Len(apdu) % 256, 0, 0, 0, 0>>

buildSVFramePureGo(smpcnt, numSamples, phase) ==
    LET apdu == TLV(96, TLV(128, <<1>>) \o TLV(162, TLV(48, ASDU(smpcnt, numSamples, phase))))
    IN  EthernetHeader \o SVHeader(apdu) \o apdu

PerFrame(batch) == IF batch.samplesPerFrame <= 0 THEN 80 ELSE batch.samplesPerFrame

\* Frame i of a batch of n: the sample numbers go on from the base of the
\* batch, the wave from the phase the capture is at.
SimulateBatch(batch) ==
    [i \in 1 .. batch.n |->
        LET before == (i - 1) * PerFrame(batch)
        IN  buildSVFramePureGo(Plus(batch.base, before), PerFrame(batch), batch.phase + before)]
=============================================================================
