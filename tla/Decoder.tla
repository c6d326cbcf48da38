------------------------------ MODULE Decoder ------------------------------
(***************************************************************************)
(* Decoder.DecodeFull of internal/iec61850/decoder.go over the BER readers *)
(* of ber.go: the headers of a frame, its APDU, one ASDU after the other,  *)
(* and in each ASDU one TLV after the other.  A step is an iteration of    *)
(* one of the loops, or the code between two of them.                      *)
(*                                                                         *)
(* A Go slice of the frame is its interval of offsets, lo inclusive, hi    *)
(* exclusive: buf[a:b] of a slice s is the interval from s.lo + a, and     *)
(* every offset below counts from the start of the frame.  int is 64 bits  *)
(* wide; a BER length or a number of ASDUs of 2^24 or more counts as 2^24, *)
(* which is longer than any frame.                                         *)
(***************************************************************************)
EXTENDS Capture

CONSTANTS Frames,   \* the frames that may arrive, sequences of bytes
          Batches   \* what SimulateBatch was called with to make some of them

\* 2^24
TooLong == 16777216

ASSUME FramesAssumption ==
    /\ Frames \subseteq Seq(Byte)
    /\ \A f \in Frames : Len(f) < TooLong

\* The longest content that the two length bytes of a simulated frame can say.
\* The outermost TLV has 40 bytes besides the samples: 8186 samples fill it;
\* 80 are simulated, and models.MaxFrameSamples is 4096 (sample.go:10).
MaxLength == 65535

ASSUME BatchesAssumption ==
    \A b \in Batches : /\ b.base \in Word /\ b.phase \in Nat /\ b.n \in Nat
                       /\ b.samplesPerFrame \in Int
                       /\ 8 * PerFrame(b) + 40 <= MaxLength

VARIABLES frame,      \* raw.Payload
          pc,         \* the next thing to parse, or how the call ended
          inner,      \* innerData of ParseAPDU
          at,         \* offset, innerOffset in ParseAPDU
          asduCount,
          i,          \* the loop counter of ParseAPDU
          raw,        \* the slice that ParseSVASDU parses
          cur,        \* offset in ParseSVASDU
          asdu,       \* the ASDU that ParseSVASDU fills
          asdus,      \* svPayload.ASDUs
          fallback    \* innerData is being parsed as one ASDU

vars == <<frame, pc, inner, at, asduCount, i, raw, cur, asdu, asdus, fallback>>

Slice(lo, hi) == [lo |-> lo, hi |-> hi]
NoBytes == Slice(0, 0)
Size(s) == s.hi - s.lo
Within(s, t) == t.lo <= s.lo /\ s.lo <= s.hi /\ s.hi <= t.hi

Payload == Slice(0, Len(frame))

\* The byte at an offset.
B(n) == frame[n + 1]

EmptyASDU == [SvID |-> NoBytes, SmpCnt |-> Zero32, ConfRev |-> Zero32, SmpRate |-> Zero32,
              SmpSynch |-> 0, RefrTm |-> NoBytes, SeqData |-> NoBytes]

Init ==
    /\ frame \in Frames
    /\ pc = "headers"
    /\ inner = NoBytes /\ at = 0
    /\ asduCount = 1 /\ i = 0
    /\ raw = NoBytes /\ cur = 0 /\ asdu = EmptyASDU
    /\ asdus = <<>> /\ fallback = FALSE

\* A slip for Number: the number is taken to be signed.
NumberSigned(w) == IF w[1] > 127 THEN -1 ELSE w[2] * 65536 + w[3] * 256 + w[4]

\* A big-endian number of four bytes.
Number(w) == IF w[1] > 0 THEN TooLong ELSE (w[2] * 256 + w[3]) * 256 + w[4]

\* The k bytes before an offset, the bytes missing to four being fill.
Word32(hi, k, fill) == [j \in 1 .. 4 |-> IF j <= 4 - k THEN fill ELSE B(hi - 5 + j)]

(***************************************************************************)
(* readBerLength at offset n of a slice that ends at hi, readTLV, and      *)
(* decodeInteger32.                                                        *)
(***************************************************************************)
LongForm(n) == B(n) >= 128
LengthBytes(n) == IF LongForm(n) THEN B(n) - 128 ELSE 0

HasLength(n, hi) ==
    /\ n < hi
    /\ LongForm(n) => LengthBytes(n) \in 1 .. 4 /\ n + 1 + LengthBytes(n) <= hi

BerLength(n) ==
    IF LongForm(n) THEN Number(Word32(n + 1 + LengthBytes(n), LengthBytes(n), 0)) ELSE B(n)

ContentAt(n) == n + 2 + LengthBytes(n + 1)

\* The TLV at n: its content, and the offset after it.
Content(n)  == Slice(ContentAt(n), ContentAt(n) + BerLength(n + 1))
AfterTLV(n) == Content(n).hi

(***************************************************************************)
(* Slips: definitions below, each with a mistake that would be easy to     *)
(* make in the code.  Nothing refers to them; put in the place of the      *)
(* definition they are named after, each makes a property fail.            *)
(***************************************************************************)

HasTLVOneOver(n, hi) == n < hi /\ HasLength(n + 1, hi) /\ AfterTLV(n) <= hi + 1

NextGuessedKeepsOffset ==
    /\ pc = "asdus" /\ i < asduCount /\ at < inner.hi /\ B(at) # 48
    /\ raw' = Slice(at, inner.hi) /\ cur' = at /\ asdu' = EmptyASDU
    /\ pc' = "asdu" /\ i' = i + 1
    /\ UNCHANGED <<frame, inner, at, asduCount, asdus, fallback>>

\* readTLV at offset n of a slice that ends at hi returns no error.
HasTLV(n, hi) == n < hi /\ HasLength(n + 1, hi) /\ AfterTLV(n) <= hi

\* A slice that starts with one of the tags, and with a whole TLV.
StartsWith(s, tags) == s.lo < s.hi /\ B(s.lo) \in tags /\ HasTLV(s.lo, s.hi)

IsInteger32(c) == Size(c) \in 1 .. 4
DecodeInteger32(c) == Word32(c.hi, Size(c), IF B(c.lo) >= 128 THEN 255 ELSE 0)

(***************************************************************************)
(* ParseEthernetHeader, with or without a VLAN tag, and ParseSVHeader.     *)
(***************************************************************************)
EtherType(n) == <<B(n), B(n + 1)>>
Tagged == EtherType(12) = <<129, 0>>
HeaderEnd == IF Tagged THEN 18 ELSE 14

HeadersOK ==
    /\ Len(frame) >= 14
    /\ Len(frame) >= HeaderEnd
    /\ EtherType(HeaderEnd - 2) \in {<<136, 186>>, <<136, 184>>}
    /\ Len(frame) - HeaderEnd >= 8

ParseHeaders ==
    /\ pc = "headers" /\ HeadersOK
    /\ at' = HeaderEnd + 8
    /\ pc' = "apdu"
    /\ UNCHANGED <<frame, inner, asduCount, i, raw, cur, asdu, asdus, fallback>>

Rejects ==
    \/ pc = "headers" /\ ~ HeadersOK
    \/ pc = "apdu" /\ ~ HasTLV(at, Len(frame))

Reject ==
    /\ Rejects
    /\ pc' = "rejected"
    /\ UNCHANGED <<frame, inner, at, asduCount, i, raw, cur, asdu, asdus, fallback>>

(***************************************************************************)
(* ParseAPDU up to its loop: the outer TLV, the number of ASDUs if it is   *)
(* there, the sequence around the ASDUs if it is there.                    *)
(***************************************************************************)
OpenAPDU ==
    /\ pc = "apdu" /\ HasTLV(at, Len(frame))
    /\ LET apdu    == Content(at)
           counted == StartsWith(apdu, {128})
           count   == Content(apdu.lo)
           rest    == IF counted THEN Slice(count.hi, apdu.hi) ELSE apdu
           boxed   == StartsWith(rest, {162, 48})
       IN  /\ asduCount' = IF counted /\ IsInteger32(count) THEN Number(DecodeInteger32(count)) ELSE 1
           /\ inner' = IF boxed THEN Content(rest.lo) ELSE apdu
           /\ at'    = IF boxed THEN Content(rest.lo).lo ELSE rest.lo
    /\ pc' = "asdus"
    /\ UNCHANGED <<frame, i, raw, cur, asdu, asdus, fallback>>

(***************************************************************************)
(* The loop of ParseAPDU: an ASDU is the content of a TLV, or, without a   *)
(* tag, an equal share of the bytes that remain.                           *)
(***************************************************************************)
MoreASDUs == i < asduCount /\ at < inner.hi

Guessed ==
    LET remaining == inner.hi - at
        guessLen  == remaining \div (IF asduCount - i > 1 THEN asduCount - i ELSE 1)
    IN  Slice(at, at + IF guessLen < 16 THEN remaining ELSE guessLen)

\* ParseSVASDU refuses an empty slice; the loop goes on after it.
StartASDU(s) ==
    /\ raw' = s /\ cur' = s.lo /\ asdu' = EmptyASDU
    /\ pc' = IF s.lo < s.hi THEN "asdu" ELSE "asdus"

NextTagged ==
    /\ pc = "asdus" /\ MoreASDUs /\ StartsWith(Slice(at, inner.hi), {48})
    /\ StartASDU(Content(at))
    /\ at' = AfterTLV(at) /\ i' = i + 1
    /\ UNCHANGED <<frame, inner, asduCount, asdus, fallback>>

NextGuessed ==
    /\ pc = "asdus" /\ MoreASDUs /\ B(at) # 48
    /\ StartASDU(Guessed)
    /\ at' = Guessed.hi /\ i' = i + 1
    /\ UNCHANGED <<frame, inner, asduCount, asdus, fallback>>

\* ... and ends early when the next TLV is broken.
LoopEnds == ~ (MoreASDUs /\ (B(at) = 48 => HasTLV(at, inner.hi)))

Return ==
    /\ pc = "asdus" /\ LoopEnds /\ asdus # <<>>
    /\ pc' = "done"
    /\ UNCHANGED <<frame, inner, at, asduCount, i, raw, cur, asdu, asdus, fallback>>

\* Without any ASDU all of innerData is parsed as one.
Fallback ==
    /\ pc = "asdus" /\ LoopEnds /\ asdus = <<>> /\ inner.lo < inner.hi
    /\ StartASDU(inner)
    /\ fallback' = TRUE
    /\ UNCHANGED <<frame, inner, at, asduCount, i, asdus>>

Unsupported ==
    /\ pc = "asdus" /\ LoopEnds /\ asdus = <<>> /\ inner.lo = inner.hi
    /\ pc' = "rejected"
    /\ UNCHANGED <<frame, inner, at, asduCount, i, raw, cur, asdu, asdus, fallback>>

(***************************************************************************)
(* ParseSVASDU.  The SvID that it looks for before its loop is read by the *)
(* first iteration of the loop in the same way.                            *)
(***************************************************************************)

\* The field an integer goes to: by its tag, or by what is still zero.
IntegerField(tag) ==
    IF tag = 130 THEN "SmpCnt"
    ELSE IF tag = 131 THEN "ConfRev"
    ELSE IF tag = 134 THEN "SmpRate"
    ELSE IF asdu.SmpCnt = Zero32 THEN "SmpCnt"
    ELSE IF asdu.ConfRev = Zero32 THEN "ConfRev"
    ELSE "SmpRate"

Absorbed(tag, c) ==
    CASE tag \in {2, 130, 131, 134} /\ IsInteger32(c) ->
            [asdu EXCEPT ![IntegerField(tag)] = DecodeInteger32(c)]
      [] tag \in {4, 135} -> [asdu EXCEPT !.SeqData = c]
      [] tag \in {26, 128, 129} /\ Size(asdu.SvID) = 0 -> [asdu EXCEPT !.SvID = c]
      [] tag \in {35, 132} -> [asdu EXCEPT !.RefrTm = IF Size(c) >= 8 THEN c ELSE NoBytes]
      [] tag \in {3, 133} /\ Size(c) > 0 -> [asdu EXCEPT !.SmpSynch = B(c.hi - 1)]
      [] OTHER -> asdu

\* A slip for ParseTLV: the offset is not kept.
ParseTLVFromStart ==
    /\ pc = "asdu" /\ HasTLV(cur, raw.hi)
    /\ asdu' = Absorbed(B(cur), Content(cur))
    /\ cur' = raw.lo
    /\ UNCHANGED <<frame, pc, inner, at, asduCount, i, raw, asdus, fallback>>

ParseTLV ==
    /\ pc = "asdu" /\ HasTLV(cur, raw.hi)
    /\ asdu' = Absorbed(B(cur), Content(cur))
    /\ cur' = AfterTLV(cur)
    /\ UNCHANGED <<frame, pc, inner, at, asduCount, i, raw, asdus, fallback>>

ASDUDone ==
    /\ pc = "asdu" /\ ~ HasTLV(cur, raw.hi) /\ ~ fallback
    /\ asdus' = Append(asdus, asdu)
    /\ pc' = "asdus"
    /\ UNCHANGED <<frame, inner, at, asduCount, i, raw, cur, asdu, fallback>>

\* The fallback counts only when it found samples.
NumSamples(a) == Size(a.SeqData) \div 8

FallbackDone ==
    /\ pc = "asdu" /\ ~ HasTLV(cur, raw.hi) /\ fallback
    /\ IF NumSamples(asdu) > 0
       THEN asdus' = <<asdu>> /\ asduCount' = 1 /\ pc' = "done"
       ELSE pc' = "rejected" /\ UNCHANGED <<asdus, asduCount>>
    /\ UNCHANGED <<frame, inner, at, i, raw, cur, asdu, fallback>>

Next ==
    \/ ParseHeaders \/ Reject \/ OpenAPDU
    \/ NextTagged \/ NextGuessed \/ Return \/ Fallback \/ Unsupported
    \/ ParseTLV \/ ASDUDone \/ FallbackDone

Spec == Init /\ [][Next]_vars

\* DecodeFull is sequential code: it runs until it returns.
FairSpec == Spec /\ WF_vars(Next)

(***************************************************************************)
(* ExtractSamples, of the first ASDU only.  The k-th sample is k - 1       *)
(* sampling intervals after the frame.                                     *)
(***************************************************************************)
Samples ==
    [k \in 1 .. NumSamples(asdus[1]) |->
        LET off == asdus[1].SeqData.lo + (k - 1) * 8
        IN  [Current |-> <<B(off), B(off + 1), B(off + 2), B(off + 3)>>,
             Voltage |-> <<B(off + 4), B(off + 5), B(off + 6), B(off + 7)>>,
             SeqNo   |-> Plus(asdus[1].SmpCnt, k - 1),
             intervals |-> k - 1]]

-----------------------------------------------------------------------------
Ended == pc \in {"done", "rejected"}

Slices == [lo : Nat, hi : Nat]

ASDUs == [SvID : Slices, SmpCnt : Word, ConfRev : Word, SmpRate : Word,
          SmpSynch : Byte, RefrTm : Slices, SeqData : Slices]

TypeOK ==
    /\ frame \in Seq(Byte)
    /\ pc \in {"headers", "apdu", "asdus", "asdu", "done", "rejected"}
    /\ inner \in Slices /\ raw \in Slices
    /\ at \in Nat /\ cur \in Nat
    /\ asduCount \in Nat /\ i \in Nat
    /\ asdu \in ASDUs /\ asdus \in Seq(ASDUs)
    /\ fallback \in BOOLEAN

\* The parts of an ASDU that are slices, within a slice or not there.
PartsWithin(a, s) == \A p \in {a.SvID, a.RefrTm, a.SeqData} : p = NoBytes \/ Within(p, s)

\* A slice lies in the slice that it was taken from: the APDU in the frame,
\* the ASDUs in the APDU, the parts of an ASDU in it.
InBounds ==
    /\ Within(inner, Payload)
    /\ pc = "asdus" => inner.lo <= at /\ at <= inner.hi
    /\ pc = "asdu" => /\ Within(raw, inner)
                      /\ raw.lo <= cur /\ cur <= raw.hi
                      /\ PartsWithin(asdu, raw)
    /\ \A k \in 1 .. Len(asdus) : PartsWithin(asdus[k], inner)

\* No byte of the frame is in the samples of two ASDUs, and the ASDUs are in
\* the order of the frame.
ASDUsDisjoint ==
    \A j, k \in 1 .. Len(asdus) :
        j < k /\ Size(asdus[j].SeqData) > 0 /\ Size(asdus[k].SeqData) > 0
            => asdus[j].SeqData.hi <= asdus[k].SeqData.lo

\* Whatever lengths and counts the bytes claim, no slice is taken and no
\* byte is read out of range, and the ASDUs, tagged or split by guess, share
\* no sample (ber.go:46, decoder.go:134-178).
SlicesOK == InBounds /\ ASDUsDisjoint

\* The loops move on: no iteration of either goes back or stays where it is.
OffsetsAdvance ==
    [][/\ pc = "asdus" /\ pc' = "asdu" /\ fallback' = fallback => at' > at
       /\ pc = "asdu" /\ pc' = "asdu" => cur' > cur]_vars

\* Every call returns, whatever the frame says of its lengths and counts.
Returns == <>Ended

-----------------------------------------------------------------------------
(***************************************************************************)
(* The decoder and the simulated capture.                                  *)
(***************************************************************************)
Simulated == [b \in Batches |-> SimulateBatch(b)]

\* The same frame with a VLAN tag in front of its type.
WithVlan(f) == SubSeq(f, 1, 12) \o <<129, 0, 0, 1>> \o SubSeq(f, 13, Len(f))

\* A frame of a simulated batch gives, with or without a VLAN tag, all its
\* samples and no other, in order, with consecutive numbers that go on from
\* frame to frame and wrap at 2^32.
RoundTrip ==
    Ended => \A b \in Batches : \A n \in 1 .. b.n :
        frame \in {Simulated[b][n], WithVlan(Simulated[b][n])} =>
            /\ pc = "done"
            /\ LET before == (n - 1) * PerFrame(b)
               IN  Samples = [k \in 1 .. PerFrame(b) |->
                                 [Current |-> Current(b.phase + before + k - 1),
                                  Voltage |-> Voltage(b.phase + before + k - 1),
                                  SeqNo   |-> Plus(b.base, before + k - 1),
                                  intervals |-> k - 1]]

\* A simulated frame that was cut short anywhere is rejected: it never
\* passes for a frame with fewer samples.
CutRejected ==
    pc = "done" => \A b \in Batches : \A n \in 1 .. b.n :
        LET f == Simulated[b][n]
        IN  Len(frame) < Len(f) => \E k \in 1 .. Len(frame) : frame[k] # f[k]
=============================================================================
