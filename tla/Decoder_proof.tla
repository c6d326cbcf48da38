--------------------------- MODULE Decoder_proof ---------------------------
(***************************************************************************)
(* Proofs about Decoder, for every set of frames: whatever bytes arrive,   *)
(* the decoder stays inside them.  And for every set of batches: what the  *)
(* simulated capture writes, the decoder reads, and nothing of a frame     *)
(* that was cut short.                                                     *)
(***************************************************************************)
EXTENDS Decoder, SequenceTheorems, TLAPS

(***************************************************************************)
(* Bytes, words and TLVs.                                                  *)
(***************************************************************************)

\* A byte of the frame is a byte.
LEMMA ByteAt ==
    ASSUME frame \in Seq(Byte), NEW n \in Nat, n < Len(frame)
    PROVE  B(n) \in Byte
<1>1. n + 1 \in 1 .. Len(frame)
  OBVIOUS
<1> QED
  BY <1>1, ElementOfSeq DEF B

\* Up to four bytes of the frame, extended, make a word.
LEMMA WordType ==
    ASSUME frame \in Seq(Byte), NEW hi \in Nat, hi <= Len(frame),
           NEW k \in 0 .. 4, k <= hi, NEW fill \in Byte
    PROVE  Word32(hi, k, fill) \in Word
<1>1. ASSUME NEW j \in 1 .. 4
      PROVE  (IF j <= 4 - k THEN fill ELSE B(hi - 5 + j)) \in Byte
  <2>1. CASE j <= 4 - k
    BY <2>1
  <2>2. CASE ~ (j <= 4 - k)
    <3>1. hi - 5 + j \in Nat /\ hi - 5 + j < Len(frame)
      BY <2>2
    <3> QED
      BY <2>2, <3>1, ByteAt
  <2> QED
    BY <2>1, <2>2
<1> QED
  BY <1>1 DEF Word32, Word

LEMMA NumberType ==
    ASSUME NEW w \in Word
    PROVE  Number(w) \in Nat
<1>1. w[1] \in Nat /\ w[2] \in Nat /\ w[3] \in Nat /\ w[4] \in Nat
  BY DEF Word, Byte
<1> QED
  BY <1>1 DEF Number, TooLong

LEMMA ZeroType == Zero32 \in Word
BY DEF Zero32, Word, Byte

\* A TLV that readTLV accepts: its content lies behind its tag and length and
\* before the end of the slice, so the offset after it is a larger one.
LEMMA TLVBounds ==
    ASSUME frame \in Seq(Byte), NEW n \in Nat, NEW hi \in Nat, hi <= Len(frame),
           HasTLV(n, hi)
    PROVE  /\ Content(n) \in Slices /\ AfterTLV(n) = Content(n).hi
           /\ n < Content(n).lo /\ Content(n).lo <= Content(n).hi /\ Content(n).hi <= hi
           /\ n < hi /\ B(n) \in Byte
<1> DEFINE m == n + 1
           lb == LengthBytes(m)
<1>1. n < hi /\ HasLength(m, hi) /\ AfterTLV(n) <= hi
  BY DEF HasTLV
<1>2. m \in Nat /\ m < hi /\ B(m) \in 0 .. 255 /\ B(n) \in Byte
  <2>1. m \in Nat /\ m < hi
    BY <1>1 DEF HasLength
  <2>2. B(m) \in Byte /\ B(n) \in Byte
    BY <1>1, <2>1, ByteAt
  <2> QED
    BY <2>1, <2>2 DEF Byte
<1>11. B(m) \in Nat
  <2>1. B(m) \in 0 .. 255
    BY <1>2
  <2>2. \A x \in 0 .. 255 : x \in Nat
    OBVIOUS
  <2> QED
    BY <2>1, <2>2, Zenon
<1>3. lb \in 0 .. 4 /\ m + 1 + lb <= hi
  BY <1>1, <1>2 DEF HasLength, LengthBytes
<1>4. BerLength(m) \in Nat
  <2>1. CASE LongForm(m)
    <3> HIDE DEF m, lb
    <3>1. m + 1 + lb \in Nat /\ m + 1 + lb <= Len(frame) /\ lb <= m + 1 + lb /\ 0 \in Byte
      BY <1>2, <1>3, LenProperties DEF Byte
    <3>2. Word32(m + 1 + lb, lb, 0) \in Word
      BY <1>3, <3>1, WordType
    <3>3. m + 1 + LengthBytes(m) = m + 1 + lb /\ LengthBytes(m) = lb
      BY DEF lb
    <3> QED
      BY <2>1, <3>2, <3>3, NumberType DEF BerLength
  <2>2. CASE ~ LongForm(m)
    <3> HIDE DEF m
    <3>1. BerLength(m) = B(m)
      BY <2>2 DEF BerLength
    <3> QED
      BY <1>11, <3>1
  <2> QED
    BY <2>1, <2>2
<1>5. ContentAt(n) = m + 1 + lb
  BY <1>3 DEF ContentAt
<1>6. Content(n) = [lo |-> ContentAt(n), hi |-> ContentAt(n) + BerLength(m)]
  BY DEF Content, Slice
<1>7. AfterTLV(n) = Content(n).hi
  BY DEF AfterTLV
<1> HIDE DEF m, lb
<1>8. m = n + 1
  BY DEF m
<1>9. Content(n).lo = ContentAt(n) /\ Content(n).hi = ContentAt(n) + BerLength(m)
  BY <1>6
<1>10. ContentAt(n) \in Nat /\ ContentAt(n) + BerLength(m) \in Nat
  BY <1>2, <1>3, <1>4, <1>5
<1> QED
  BY <1>1, <1>2, <1>3, <1>4, <1>5, <1>6, <1>7, <1>8, <1>9, <1>10 DEF Slices

\* decodeInteger32 of up to four bytes gives a word.
LEMMA IntegerType ==
    ASSUME frame \in Seq(Byte), NEW c \in Slices, c.lo <= c.hi, c.hi <= Len(frame),
           IsInteger32(c)
    PROVE  DecodeInteger32(c) \in Word
<1>1. Size(c) \in 1 .. 4 /\ Size(c) <= c.hi /\ c.hi \in Nat
  BY DEF IsInteger32, Size, Slices
<1>2. (IF B(c.lo) >= 128 THEN 255 ELSE 0) \in Byte
  BY DEF Byte
<1> QED
  BY <1>1, <1>2, WordType DEF DecodeInteger32

\* Dividing a number gives no larger number.
LEMMA QuotientBounds ==
    ASSUME NEW r \in Nat, NEW n \in Nat, n >= 1
    PROVE  r \div n \in Nat /\ r \div n <= r
<1> DEFINE q == r \div n
<1>1. q \in Int /\ r = (n * q) + (r % n) /\ r % n \in 0 .. n - 1
  OBVIOUS
<1> HIDE DEF q
<1>2. q >= 0
  <2>1. ASSUME q <= -1 PROVE FALSE
    <3>1. n * q <= - n
      BY <1>1, <2>1
    <3> QED
      BY <1>1, <3>1
  <2> QED
    BY <1>1, <2>1
<1>3. q <= n * q
  BY <1>1, <1>2
<1>4. q \in Nat /\ q <= r
  BY <1>1, <1>2, <1>3
<1> QED
  BY <1>4 DEF q

\* The share of the bytes that remain that is guessed to be an ASDU: at least
\* one byte, and no more than remain.
LEMMA GuessedBounds ==
    ASSUME inner \in Slices, at \in Nat, asduCount \in Nat, i \in Nat,
           i < asduCount, at < inner.hi
    PROVE  /\ Guessed \in Slices /\ Guessed.lo = at
           /\ at < Guessed.hi /\ Guessed.hi <= inner.hi
<1> DEFINE remaining == inner.hi - at
           share     == IF asduCount - i > 1 THEN asduCount - i ELSE 1
           guessLen  == remaining \div share
           len       == IF guessLen < 16 THEN remaining ELSE guessLen
<1>1. inner.hi \in Nat /\ remaining \in Nat /\ remaining > 0 /\ share \in Nat /\ share >= 1
  BY DEF Slices
<1>2. guessLen \in Nat /\ guessLen <= remaining
  <2> HIDE DEF remaining, share
  <2> QED
    BY <1>1, QuotientBounds
<1>3. Guessed = [lo |-> at, hi |-> at + len]
  BY DEF Guessed, Slice
<1>4. remaining = inner.hi - at
  OBVIOUS
<1>5. len \in Nat /\ len > 0 /\ len <= remaining
  <2> HIDE DEF remaining, guessLen
  <2> QED
    BY <1>1, <1>2
<1> HIDE DEF remaining, share, guessLen, len
<1> QED
  BY <1>1, <1>3, <1>4, <1>5 DEF Slices

\* What a TLV changes of an ASDU keeps it one, and takes a part of it only
\* from the slice of the TLV.
LEMMA AbsorbedType ==
    ASSUME TypeOK, NEW s, PartsWithin(asdu, s), NEW tag,
           NEW c \in Slices, Within(c, s), c.lo <= c.hi, c.hi <= Len(frame)
    PROVE  Absorbed(tag, c) \in ASDUs /\ PartsWithin(Absorbed(tag, c), s)
<1> DEFINE new == Absorbed(tag, c)
<1>1. asdu \in ASDUs /\ NoBytes \in Slices /\ frame \in Seq(Byte)
  BY DEF TypeOK, NoBytes, Slice, Slices
<1>2. CASE tag \in {2, 130, 131, 134} /\ IsInteger32(c)
  <2> DEFINE w == DecodeInteger32(c)
  <2>1. new = [asdu EXCEPT ![IntegerField(tag)] = w]
    BY <1>2 DEF Absorbed
  <2>2. w \in Word
    BY <1>1, <1>2, IntegerType
  <2>3. IntegerField(tag) \in {"SmpCnt", "ConfRev", "SmpRate"}
    BY DEF IntegerField
  <2> HIDE DEF w, new
  <2>4. CASE IntegerField(tag) = "SmpCnt"
    <3>1. new = [asdu EXCEPT !.SmpCnt = w]
      BY <2>1, <2>4
    <3> QED
      BY <1>1, <2>2, <3>1 DEF ASDUs, PartsWithin, new
  <2>5. CASE IntegerField(tag) = "ConfRev"
    <3>1. new = [asdu EXCEPT !.ConfRev = w]
      BY <2>1, <2>5
    <3> QED
      BY <1>1, <2>2, <3>1 DEF ASDUs, PartsWithin, new
  <2>6. CASE IntegerField(tag) = "SmpRate"
    <3>1. new = [asdu EXCEPT !.SmpRate = w]
      BY <2>1, <2>6
    <3> QED
      BY <1>1, <2>2, <3>1 DEF ASDUs, PartsWithin, new
  <2> QED
    BY <2>3, <2>4, <2>5, <2>6
<1>3. CASE tag \in {4, 135}
  <2>1. new = [asdu EXCEPT !.SeqData = c]
    BY <1>3 DEF Absorbed
  <2> QED
    BY <1>1, <2>1 DEF ASDUs, PartsWithin
<1>4. CASE tag \in {26, 128, 129} /\ Size(asdu.SvID) = 0
  <2>1. new = [asdu EXCEPT !.SvID = c]
    BY <1>4 DEF Absorbed
  <2> QED
    BY <1>1, <2>1 DEF ASDUs, PartsWithin
<1>5. CASE tag \in {35, 132}
  <2> DEFINE t == IF Size(c) >= 8 THEN c ELSE NoBytes
  <2>1. new = [asdu EXCEPT !.RefrTm = t]
    BY <1>5 DEF Absorbed
  <2>2. t \in Slices /\ (t = NoBytes \/ Within(t, s))
    BY <1>1
  <2> HIDE DEF t
  <2> QED
    BY <1>1, <2>1, <2>2 DEF ASDUs, PartsWithin
<1>6. CASE tag \in {3, 133} /\ Size(c) > 0
  <2>1. new = [asdu EXCEPT !.SmpSynch = B(c.hi - 1)]
    BY <1>6 DEF Absorbed
  <2>2. c.hi - 1 \in Nat /\ c.hi - 1 < Len(frame)
    BY <1>1, <1>6 DEF Size, Slices
  <2>3. B(c.hi - 1) \in Byte
    BY <1>1, <2>2, ByteAt
  <2> QED
    BY <1>1, <2>1, <2>3 DEF ASDUs, PartsWithin
<1>7. CASE /\ ~ (tag \in {2, 130, 131, 134} /\ IsInteger32(c))
           /\ tag \notin {4, 135}
           /\ ~ (tag \in {26, 128, 129} /\ Size(asdu.SvID) = 0)
           /\ tag \notin {35, 132}
           /\ ~ (tag \in {3, 133} /\ Size(c) > 0)
  <2>1. new = asdu
    BY <1>7 DEF Absorbed
  <2> QED
    BY <1>1, <2>1
<1> QED
  BY <1>2, <1>3, <1>4, <1>5, <1>6, <1>7

(***************************************************************************)
(* The inductive invariant.  SlicesOK alone is not inductive: that the     *)
(* samples of two ASDUs are apart follows from the offset of the loop,     *)
(* behind which all ASDUs lie that it has taken, and the fallback, which   *)
(* starts over at the front, only runs when there are none.                *)
(***************************************************************************)
OffsetInv ==
    /\ pc = "apdu" => at <= Len(frame)
    /\ pc \in {"asdus", "asdu"} => inner.lo <= at /\ at <= inner.hi

SamplesEndBy(n) ==
    \A k \in 1 .. Len(asdus) : Size(asdus[k].SeqData) > 0 => asdus[k].SeqData.hi <= n

OrderInv ==
    ~ fallback => /\ pc = "asdus" => SamplesEndBy(at)
                  /\ pc = "asdu" => raw.hi <= at /\ SamplesEndBy(raw.lo)

StageInv ==
    /\ pc \in {"headers", "apdu"} => asdus = <<>> /\ ~ fallback
    /\ fallback => /\ pc \in {"asdu", "done", "rejected"}
                   /\ pc = "asdu" => asdus = <<>>

IInv == TypeOK /\ SlicesOK /\ OffsetInv /\ OrderInv /\ StageInv

LEMMA InitIInv ==
    ASSUME Init
    PROVE  IInv
<1>1. frame \in Seq(Byte) /\ Len(frame) \in Nat
  BY FramesAssumption DEF Init
<1>2. Zero32 \in Word /\ NoBytes \in Slices /\ NoBytes.lo = 0 /\ NoBytes.hi = 0
  BY ZeroType DEF NoBytes, Slice, Slices
<1>3. asdu \in ASDUs
  BY <1>2 DEF Init, EmptyASDU, ASDUs, Byte
<1>4. asdus = <<>> /\ asdus \in Seq(ASDUs) /\ Len(asdus) = 0
  BY DEF Init
<1>5. TypeOK
  BY <1>1, <1>2, <1>3, <1>4 DEF Init, TypeOK
<1>6. SlicesOK
  BY <1>1, <1>2, <1>4 DEF Init, SlicesOK, InBounds, ASDUsDisjoint, Within, Payload, Slice
<1> QED
  BY <1>4, <1>5, <1>6 DEF Init, IInv, OffsetInv, OrderInv, StageInv

(***************************************************************************)
(* Steps that take no slice and leave what is parsed as it is: only pc, or *)
(* the offset before the APDU, changes.                                    *)
(***************************************************************************)
LEMMA SlicesKept ==
    ASSUME IInv, UNCHANGED <<frame, inner, asdus>>,
           pc' = "asdus" => inner.lo <= at' /\ at' <= inner.hi,
           pc' # "asdu"
    PROVE  SlicesOK'
BY DEF IInv, SlicesOK, InBounds, ASDUsDisjoint, Within, PartsWithin, Payload, Slice, Size,
       NoBytes

LEMMA HeadersStep ==
    ASSUME IInv, ParseHeaders
    PROVE  IInv'
<1>1. at' \in Nat /\ at' <= Len(frame)
  BY LenProperties DEF ParseHeaders, HeadersOK, HeaderEnd, IInv, TypeOK
<1>2. TypeOK'
  BY <1>1 DEF ParseHeaders, IInv, TypeOK
<1>3. SlicesOK'
  BY SlicesKept DEF ParseHeaders
<1> QED
  BY <1>1, <1>2, <1>3 DEF ParseHeaders, IInv, OffsetInv, OrderInv, StageInv

LEMMA EndStep ==
    ASSUME IInv, Reject \/ Return \/ Unsupported
    PROVE  IInv'
<1>1. /\ pc' \in {"done", "rejected"}
      /\ UNCHANGED <<frame, inner, at, asduCount, i, raw, cur, asdu, asdus, fallback>>
  BY DEF Reject, Return, Unsupported
<1>2. TypeOK'
  BY <1>1 DEF IInv, TypeOK
<1>3. SlicesOK'
  BY <1>1, SlicesKept
<1> QED
  BY <1>1, <1>2, <1>3 DEF IInv, OffsetInv, OrderInv, StageInv

\* The TLV that a slice starts with lies in it.
LEMMA StartsBounds ==
    ASSUME frame \in Seq(Byte), NEW s \in Slices, s.hi <= Len(frame), NEW tags,
           StartsWith(s, tags)
    PROVE  /\ Content(s.lo) \in Slices /\ AfterTLV(s.lo) = Content(s.lo).hi
           /\ s.lo < Content(s.lo).lo /\ Within(Content(s.lo), s)
<1>1. s.lo \in Nat /\ s.hi \in Nat /\ HasTLV(s.lo, s.hi)
  BY DEF StartsWith, Slices
<1>2. /\ Content(s.lo) \in Slices /\ AfterTLV(s.lo) = Content(s.lo).hi
      /\ s.lo < Content(s.lo).lo /\ Content(s.lo).lo <= Content(s.lo).hi
      /\ Content(s.lo).hi <= s.hi
  BY <1>1, TLVBounds
<1>3. Content(s.lo).lo \in Nat
  BY <1>2 DEF Slices
<1> QED
  BY <1>1, <1>2, <1>3 DEF Within

LEMMA OpenStep ==
    ASSUME IInv, OpenAPDU
    PROVE  IInv'
<1> DEFINE apdu    == Content(at)
           counted == StartsWith(apdu, {128})
           count   == Content(apdu.lo)
           rest    == IF counted THEN Slice(count.hi, apdu.hi) ELSE apdu
           boxed   == StartsWith(rest, {162, 48})
           box     == Content(rest.lo)
<1>1. frame \in Seq(Byte) /\ at \in Nat /\ Len(frame) \in Nat /\ at <= Len(frame)
  BY LenProperties DEF OpenAPDU, IInv, TypeOK, OffsetInv
<1>2. apdu \in Slices /\ apdu.lo <= apdu.hi /\ apdu.hi <= Len(frame)
  BY <1>1, TLVBounds DEF OpenAPDU
<1>3. counted => count \in Slices /\ apdu.lo < count.lo /\ Within(count, apdu)
  <2> HIDE DEF apdu
  <2> QED
    BY <1>1, <1>2, StartsBounds
<1>4. /\ asduCount' = IF counted /\ IsInteger32(count) THEN Number(DecodeInteger32(count)) ELSE 1
      /\ inner' = IF boxed THEN box ELSE apdu
      /\ at' = IF boxed THEN box.lo ELSE rest.lo
      /\ pc = "apdu" /\ pc' = "asdus"
      /\ UNCHANGED <<frame, i, raw, cur, asdu, asdus, fallback>>
  BY DEF OpenAPDU
<1>5. rest \in Slices /\ apdu.lo <= rest.lo /\ rest.lo <= rest.hi /\ rest.hi = apdu.hi
  <2>1. CASE counted
    <3>1. rest = [lo |-> count.hi, hi |-> apdu.hi]
      BY <2>1 DEF Slice
    <3> HIDE DEF apdu, counted, count, rest
    <3> QED
      BY <1>2, <1>3, <2>1, <3>1 DEF Slices, Within
  <2>2. CASE ~ counted
    <3>1. rest = apdu
      BY <2>2
    <3> HIDE DEF apdu, rest
    <3> QED
      BY <1>2, <3>1 DEF Slices
  <2> QED
    BY <2>1, <2>2
<1>6. boxed => box \in Slices /\ rest.lo < box.lo /\ Within(box, rest)
  <2> HIDE DEF apdu, rest
  <2> QED
    BY <1>1, <1>2, <1>5, StartsBounds
<1>7. asduCount' \in Nat
  <2>1. ASSUME counted, IsInteger32(count)
        PROVE  Number(DecodeInteger32(count)) \in Nat
    <3> HIDE DEF apdu, counted, count
    <3>1. count.lo <= count.hi /\ count.hi <= Len(frame)
      BY <1>1, <1>2, <1>3, <2>1 DEF Within, Slices
    <3>2. DecodeInteger32(count) \in Word
      BY <1>1, <1>3, <2>1, <3>1, IntegerType
    <3> QED
      BY <3>2, NumberType
  <2> HIDE DEF counted, count
  <2> QED
    BY <1>4, <2>1
<1> HIDE DEF apdu, counted, count, rest, boxed, box
<1>8. /\ inner' \in Slices /\ at' \in Nat /\ inner'.lo <= inner'.hi /\ inner'.hi <= Len(frame)
      /\ inner'.lo <= at' /\ at' <= inner'.hi
  <2>1. CASE boxed
    BY <1>1, <1>2, <1>4, <1>5, <1>6, <2>1 DEF Slices, Within
  <2>2. CASE ~ boxed
    BY <1>1, <1>2, <1>4, <1>5, <2>2 DEF Slices
  <2> QED
    BY <2>1, <2>2
<1>9. asdus = <<>> /\ ~ fallback /\ Len(asdus) = 0
  BY <1>4 DEF IInv, StageInv
<1>10. TypeOK'
  BY <1>4, <1>7, <1>8 DEF IInv, TypeOK
<1>11. SlicesOK'
  BY <1>1, <1>4, <1>8, <1>9 DEF SlicesOK, InBounds, ASDUsDisjoint, Within, Payload, Slice, Slices
<1> QED
  BY <1>4, <1>8, <1>9, <1>10, <1>11 DEF IInv, OffsetInv, OrderInv, StageInv, SamplesEndBy

(***************************************************************************)
(* An ASDU is started in a slice of innerData: by the loop, behind what it *)
(* took before, or by the fallback, when it took nothing.                  *)
(***************************************************************************)
LEMMA EmptyASDUType ==
    /\ EmptyASDU \in ASDUs
    /\ \A s : PartsWithin(EmptyASDU, s)
<1>1. Zero32 \in Word /\ NoBytes \in Slices
  BY ZeroType DEF NoBytes, Slice, Slices
<1> QED
  BY <1>1 DEF EmptyASDU, ASDUs, Byte, PartsWithin

LEMMA StartKeeps ==
    ASSUME IInv, NEW s \in Slices, Within(s, inner), StartASDU(s), pc = "asdus",
           UNCHANGED <<frame, inner, asduCount, asdus>>, at' \in Nat, i' \in Nat,
           fallback' \in BOOLEAN, inner.lo <= at', at' <= inner.hi
    PROVE  TypeOK' /\ SlicesOK' /\ OffsetInv'
<1>1. s.lo \in Nat /\ s.hi \in Nat /\ inner \in Slices /\ frame \in Seq(Byte)
  BY DEF Slices, IInv, TypeOK
<1>2. /\ raw' = s /\ cur' = s.lo /\ asdu' = EmptyASDU
      /\ pc' = IF s.lo < s.hi THEN "asdu" ELSE "asdus"
  BY DEF StartASDU
<1>3. TypeOK'
  BY <1>1, <1>2, EmptyASDUType DEF IInv, TypeOK
<1>4. SlicesOK'
  <2>1. Within(inner, Payload) /\ Payload' = Payload
    BY DEF IInv, SlicesOK, InBounds, Payload
  <2>2. pc' = "asdu" => Within(raw, inner)' /\ raw'.lo <= cur' /\ cur' <= raw'.hi
    BY <1>1, <1>2 DEF Within
  <2>3. PartsWithin(asdu, raw)'
    BY <1>2, EmptyASDUType DEF PartsWithin, Within
  <2>4. \A k \in 1 .. Len(asdus) : PartsWithin(asdus[k], inner)
    BY DEF IInv, SlicesOK, InBounds
  <2>5. InBounds'
    BY <2>1, <2>2, <2>3, <2>4 DEF InBounds, Within, PartsWithin
  <2>6. ASDUsDisjoint'
    BY DEF IInv, SlicesOK, ASDUsDisjoint, Size
  <2> QED
    BY <2>5, <2>6 DEF SlicesOK
<1>5. OffsetInv'
  BY <1>2 DEF OffsetInv
<1> QED
  BY <1>3, <1>4, <1>5

LEMMA LoopStep ==
    ASSUME IInv, pc = "asdus", NEW s \in Slices, StartASDU(s), at' = s.hi, i' = i + 1,
           UNCHANGED <<frame, inner, asduCount, asdus, fallback>>,
           at <= s.lo, s.lo <= s.hi, at < s.hi, s.hi <= inner.hi
    PROVE  IInv' /\ at' > at
<1>1. /\ at \in Nat /\ i \in Nat /\ fallback \in BOOLEAN
      /\ inner.lo \in Nat /\ inner.hi \in Nat /\ inner.lo <= at
      /\ s.lo \in Nat /\ s.hi \in Nat
  BY DEF IInv, TypeOK, OffsetInv, Slices
<1>2. at' \in Nat /\ at' > at /\ at' <= inner.hi /\ inner.lo <= at' /\ i' \in Nat
  BY <1>1
<1>3. Within(s, inner)
  BY <1>1 DEF Within
<1>4. TypeOK' /\ SlicesOK' /\ OffsetInv'
  BY <1>1, <1>2, <1>3, StartKeeps
<1>5. StageInv' /\ ~ fallback
  BY DEF StartASDU, IInv, StageInv
<1>6. SamplesEndBy(at)
  BY <1>5 DEF IInv, OrderInv
<1>7. raw' = s
  BY DEF StartASDU
<1>8. SamplesEndBy(at)' /\ SamplesEndBy(raw.lo)'
  <2> SUFFICES ASSUME NEW k \in 1 .. Len(asdus), Size(asdus[k].SeqData) > 0
               PROVE  asdus[k].SeqData.hi <= at' /\ asdus[k].SeqData.hi <= raw'.lo
    BY DEF SamplesEndBy, Size
  <2>1. asdus[k] \in ASDUs
    BY ElementOfSeq DEF IInv, TypeOK
  <2>2. asdus[k].SeqData.hi \in Nat
    BY <2>1 DEF ASDUs, Slices
  <2>3. asdus[k].SeqData.hi <= at
    BY <1>6 DEF SamplesEndBy
  <2> QED
    BY <1>1, <1>2, <1>7, <2>2, <2>3
<1>9. OrderInv'
  BY <1>1, <1>7, <1>8 DEF OrderInv
<1> QED
  BY <1>2, <1>4, <1>5, <1>9 DEF IInv

LEMMA TaggedStep ==
    ASSUME IInv, NextTagged
    PROVE  IInv' /\ at' > at
<1>1. /\ pc = "asdus" /\ StartsWith(Slice(at, inner.hi), {48})
      /\ StartASDU(Content(at)) /\ at' = AfterTLV(at) /\ i' = i + 1
      /\ UNCHANGED <<frame, inner, asduCount, asdus, fallback>>
  BY DEF NextTagged
<1>2. /\ frame \in Seq(Byte) /\ Len(frame) \in Nat /\ at \in Nat
      /\ inner.lo \in Nat /\ inner.hi \in Nat /\ inner.hi <= Len(frame)
  BY LenProperties DEF IInv, TypeOK, SlicesOK, InBounds, Within, Payload, Slice, Slices
<1>3. HasTLV(at, inner.hi)
  BY <1>1 DEF StartsWith, Slice
<1>4. /\ Content(at) \in Slices /\ AfterTLV(at) = Content(at).hi
      /\ at < Content(at).lo /\ Content(at).lo <= Content(at).hi /\ Content(at).hi <= inner.hi
  BY <1>2, <1>3, TLVBounds
<1>5. at <= Content(at).lo /\ at < Content(at).hi
  BY <1>2, <1>4 DEF Slices
<1> QED
  BY <1>1, <1>4, <1>5, LoopStep

LEMMA GuessedStep ==
    ASSUME IInv, NextGuessed
    PROVE  IInv' /\ at' > at
<1>1. /\ pc = "asdus" /\ i < asduCount /\ at < inner.hi
      /\ StartASDU(Guessed) /\ at' = Guessed.hi /\ i' = i + 1
      /\ UNCHANGED <<frame, inner, asduCount, asdus, fallback>>
  BY DEF NextGuessed, MoreASDUs
<1>2. inner \in Slices /\ at \in Nat /\ asduCount \in Nat /\ i \in Nat
  BY DEF IInv, TypeOK
<1>3. /\ Guessed \in Slices /\ Guessed.lo = at
      /\ at < Guessed.hi /\ Guessed.hi <= inner.hi
  BY <1>1, <1>2, GuessedBounds
<1>4. at <= Guessed.lo /\ Guessed.lo <= Guessed.hi
  BY <1>2, <1>3 DEF Slices
<1> QED
  BY <1>1, <1>3, <1>4, LoopStep

LEMMA FallbackStep ==
    ASSUME IInv, Fallback
    PROVE  IInv' /\ fallback' # fallback
<1>1. /\ pc = "asdus" /\ asdus = <<>> /\ inner.lo < inner.hi /\ StartASDU(inner)
      /\ fallback' = TRUE
      /\ UNCHANGED <<frame, inner, at, asduCount, i, asdus>>
  BY DEF Fallback
<1>2. /\ inner \in Slices /\ at \in Nat /\ i \in Nat /\ inner.lo \in Nat /\ inner.hi \in Nat
      /\ inner.lo <= at /\ at <= inner.hi /\ ~ fallback
  BY <1>1 DEF IInv, TypeOK, OffsetInv, StageInv, Slices
<1>3. Within(inner, inner)
  BY <1>1, <1>2 DEF Within
<1>4. at' \in Nat /\ i' \in Nat /\ fallback' \in BOOLEAN /\ inner.lo <= at' /\ at' <= inner.hi
  BY <1>1, <1>2
<1>5. TypeOK' /\ SlicesOK' /\ OffsetInv'
  BY <1>1, <1>2, <1>3, <1>4, StartKeeps
<1>6. StageInv' /\ OrderInv'
  BY <1>1 DEF StartASDU, StageInv, OrderInv
<1> QED
  BY <1>1, <1>2, <1>5, <1>6 DEF IInv

(***************************************************************************)
(* Inside an ASDU, and its end.                                            *)
(***************************************************************************)
LEMMA TLVStep ==
    ASSUME IInv, ParseTLV
    PROVE  IInv' /\ cur' > cur
<1> DEFINE c == Content(cur)
           new == Absorbed(B(cur), c)
<1>1. /\ pc = "asdu" /\ HasTLV(cur, raw.hi) /\ asdu' = new /\ cur' = AfterTLV(cur)
      /\ UNCHANGED <<frame, pc, inner, at, asduCount, i, raw, asdus, fallback>>
  BY DEF ParseTLV
<1>2. /\ frame \in Seq(Byte) /\ Len(frame) \in Nat /\ cur \in Nat
      /\ raw.lo \in Nat /\ raw.hi \in Nat /\ inner.hi \in Nat
      /\ inner.hi <= Len(frame)
  BY LenProperties DEF IInv, TypeOK, SlicesOK, InBounds, Within, Payload, Slice, Slices
<1>3. /\ Within(raw, inner) /\ raw.hi <= inner.hi /\ raw.lo <= cur /\ cur <= raw.hi
      /\ PartsWithin(asdu, raw)
  BY <1>1 DEF IInv, SlicesOK, InBounds, Within
<1>4. raw.hi <= Len(frame)
  BY <1>2, <1>3
<1>5. /\ c \in Slices /\ AfterTLV(cur) = c.hi
      /\ cur < c.lo /\ c.lo <= c.hi /\ c.hi <= raw.hi
  BY <1>1, <1>2, <1>4, TLVBounds
<1>6. c.lo \in Nat /\ c.hi \in Nat
  BY <1>5 DEF Slices
<1> HIDE DEF c
<1>7. Within(c, raw) /\ c.hi <= Len(frame) /\ cur' > cur /\ cur' <= raw.hi /\ cur' \in Nat
      /\ raw.lo <= cur'
  BY <1>1, <1>2, <1>3, <1>4, <1>5, <1>6 DEF Within
<1>8. new \in ASDUs /\ PartsWithin(new, raw)
  BY <1>3, <1>5, <1>7, AbsorbedType DEF IInv
<1> HIDE DEF new
<1>9. TypeOK'
  BY <1>1, <1>7, <1>8 DEF IInv, TypeOK
<1>10. SlicesOK'
  <2>1. PartsWithin(asdu, raw)'
    BY <1>1, <1>8 DEF PartsWithin, Within
  <2>2. Within(inner, Payload)' /\ Within(raw, inner)'
    BY <1>1, <1>3 DEF IInv, SlicesOK, InBounds, Within, Payload
  <2>3. (\A k \in 1 .. Len(asdus) : PartsWithin(asdus[k], inner))'
    BY <1>1 DEF IInv, SlicesOK, InBounds, PartsWithin, Within
  <2>4. InBounds'
    BY <1>1, <1>7, <2>1, <2>2, <2>3 DEF InBounds
  <2>5. ASDUsDisjoint'
    BY <1>1 DEF IInv, SlicesOK, ASDUsDisjoint, Size
  <2> QED
    BY <2>4, <2>5 DEF SlicesOK
<1>11. OffsetInv' /\ OrderInv' /\ StageInv'
  BY <1>1 DEF IInv, OffsetInv, OrderInv, StageInv, SamplesEndBy, Size
<1> QED
  BY <1>7, <1>9, <1>10, <1>11 DEF IInv

LEMMA ASDUStep ==
    ASSUME IInv, ASDUDone
    PROVE  IInv'
<1>1. /\ pc = "asdu" /\ ~ fallback /\ asdus' = Append(asdus, asdu) /\ pc' = "asdus"
      /\ UNCHANGED <<frame, inner, at, asduCount, i, raw, cur, asdu, fallback>>
  BY DEF ASDUDone
<1>2. /\ asdu \in ASDUs /\ asdus \in Seq(ASDUs) /\ inner \in Slices /\ raw \in Slices
      /\ at \in Nat
  BY DEF IInv, TypeOK
<1>3. /\ asdus' \in Seq(ASDUs)
      /\ Len(asdus') = Len(asdus) + 1 /\ Len(asdus) \in Nat
      /\ \A k \in 1 .. Len(asdus) : asdus'[k] = asdus[k]
      /\ asdus'[Len(asdus) + 1] = asdu
  BY <1>1, <1>2, AppendProperties
<1>4. Within(raw, inner) /\ PartsWithin(asdu, raw) /\ raw.hi <= at /\ SamplesEndBy(raw.lo)
  BY <1>1 DEF IInv, SlicesOK, InBounds, OrderInv
<1>5. raw.lo \in Nat /\ raw.hi \in Nat /\ inner.lo \in Nat /\ inner.hi \in Nat
  BY <1>2 DEF Slices
<1>6. asdu.SvID \in Slices /\ asdu.RefrTm \in Slices /\ asdu.SeqData \in Slices
  BY <1>2 DEF ASDUs
<1>7. PartsWithin(asdu, inner)
  <2>1. ASSUME NEW p \in Slices, Within(p, raw)
        PROVE  Within(p, inner)
    BY <1>4, <1>5, <2>1 DEF Within, Slices
  <2> QED
    BY <1>4, <1>6, <2>1 DEF PartsWithin
<1>8. Size(asdu.SeqData) > 0 => raw.lo <= asdu.SeqData.lo /\ asdu.SeqData.hi <= raw.hi
  <2>1. asdu.SeqData = NoBytes \/ Within(asdu.SeqData, raw)
    BY <1>4 DEF PartsWithin
  <2> QED
    BY <2>1 DEF Within, NoBytes, Slice, Size
<1>9. \A k \in 1 .. Len(asdus) :
          /\ asdus[k].SeqData.lo \in Nat /\ asdus[k].SeqData.hi \in Nat
          /\ Size(asdus[k].SeqData) > 0 => asdus[k].SeqData.hi <= raw.lo
  <2> SUFFICES ASSUME NEW k \in 1 .. Len(asdus)
               PROVE  /\ asdus[k].SeqData.lo \in Nat /\ asdus[k].SeqData.hi \in Nat
                      /\ Size(asdus[k].SeqData) > 0 => asdus[k].SeqData.hi <= raw.lo
    OBVIOUS
  <2>1. asdus[k] \in ASDUs
    BY <1>2, ElementOfSeq
  <2>2. asdus[k].SeqData.lo \in Nat /\ asdus[k].SeqData.hi \in Nat
    BY <2>1 DEF ASDUs, Slices
  <2> QED
    BY <1>4, <2>2 DEF SamplesEndBy
<1>10. asdu.SeqData.lo \in Nat /\ asdu.SeqData.hi \in Nat
  BY <1>6 DEF Slices
<1>11. TypeOK'
  BY <1>1, <1>3 DEF IInv, TypeOK
<1>12. InBounds'
  <2>1. Within(inner, Payload)' /\ inner'.lo <= at' /\ at' <= inner'.hi
    BY <1>1 DEF IInv, SlicesOK, InBounds, OffsetInv, Within, Payload
  <2>2. ASSUME NEW k \in 1 .. Len(asdus')
        PROVE  PartsWithin(asdus'[k], inner)
    <3>1. CASE k \in 1 .. Len(asdus)
      BY <1>3, <3>1 DEF IInv, SlicesOK, InBounds
    <3>2. CASE k = Len(asdus) + 1
      BY <1>3, <1>7, <3>2
    <3> QED
      BY <1>3, <2>2, <3>1, <3>2
  <2>3. (\A k \in 1 .. Len(asdus) : PartsWithin(asdus[k], inner))'
    BY <1>1, <2>2 DEF PartsWithin, Within
  <2> QED
    BY <1>1, <2>1, <2>3 DEF InBounds
<1>13. ASDUsDisjoint'
  <2> SUFFICES ASSUME NEW j \in 1 .. Len(asdus'), NEW k \in 1 .. Len(asdus'), j < k,
                      Size(asdus'[j].SeqData) > 0, Size(asdus'[k].SeqData) > 0
               PROVE  asdus'[j].SeqData.hi <= asdus'[k].SeqData.lo
    BY DEF ASDUsDisjoint, Size
  <2>1. j \in 1 .. Len(asdus) /\ asdus'[j] = asdus[j]
    BY <1>3
  <2>2. CASE k \in 1 .. Len(asdus)
    <3>1. asdus'[k] = asdus[k]
      BY <1>3, <2>2
    <3> QED
      BY <2>1, <2>2, <3>1 DEF IInv, SlicesOK, ASDUsDisjoint
  <2>3. CASE k = Len(asdus) + 1
    <3>1. asdus'[k] = asdu
      BY <1>3, <2>3
    <3>2. asdus[j].SeqData.hi <= raw.lo
      BY <1>9, <2>1
    <3>3. raw.lo <= asdu.SeqData.lo
      BY <1>8, <3>1
    <3>4. asdus[j].SeqData.hi \in Nat
      BY <1>9, <2>1
    <3>5. asdus[j].SeqData.hi <= asdu.SeqData.lo
      BY <1>5, <1>10, <3>2, <3>3, <3>4
    <3> QED
      BY <2>1, <3>1, <3>5
  <2> QED
    BY <1>3, <2>2, <2>3
<1>14. OrderInv'
  <2>1. ASSUME NEW k \in 1 .. Len(asdus'), Size(asdus'[k].SeqData) > 0
        PROVE  asdus'[k].SeqData.hi <= at
    <3>1. CASE k \in 1 .. Len(asdus)
      <4>1. asdus'[k] = asdus[k] /\ asdus[k].SeqData.hi <= raw.lo
        BY <1>3, <1>9, <2>1, <3>1
      <4>2. raw.lo <= raw.hi
        BY <1>4 DEF Within
      <4> QED
        BY <1>2, <1>4, <1>5, <1>9, <3>1, <4>1, <4>2
    <3>2. CASE k = Len(asdus) + 1
      BY <1>2, <1>3, <1>4, <1>5, <1>8, <1>10, <2>1, <3>2
    <3> QED
      BY <1>3, <2>1, <3>1, <3>2
  <2> QED
    BY <1>1, <2>1 DEF OrderInv, SamplesEndBy, Size
<1>15. OffsetInv' /\ StageInv'
  BY <1>1 DEF IInv, OffsetInv, StageInv
<1> QED
  BY <1>11, <1>12, <1>13, <1>14, <1>15 DEF IInv, SlicesOK

LEMMA FallbackEndStep ==
    ASSUME IInv, FallbackDone
    PROVE  IInv'
<1>1. /\ pc = "asdu" /\ fallback /\ pc' \in {"done", "rejected"}
      /\ asdus' = <<asdu>> \/ asdus' = asdus
      /\ asduCount' = 1 \/ asduCount' = asduCount
      /\ UNCHANGED <<frame, inner, at, i, raw, cur, asdu, fallback>>
  BY DEF FallbackDone
<1>2. /\ asdu \in ASDUs /\ asdus = <<>> /\ inner \in Slices /\ raw \in Slices
      /\ Within(raw, inner) /\ PartsWithin(asdu, raw)
  BY <1>1 DEF IInv, TypeOK, SlicesOK, InBounds, StageInv
<1>3. asdus' \in Seq(ASDUs) /\ Len(asdus') <= 1 /\ Len(asdus') \in Nat
  <2>1. CASE asdus' = <<asdu>>
    BY <1>2, <2>1
  <2>2. CASE asdus' = asdus
    BY <1>2, <2>2
  <2> QED
    BY <1>1, <2>1, <2>2
<1>4. \A k \in 1 .. Len(asdus') : asdus'[k] = asdu
  BY <1>1, <1>2
<1>5. PartsWithin(asdu, inner)
  <2>1. raw.lo \in Nat /\ raw.hi \in Nat /\ inner.lo \in Nat /\ inner.hi \in Nat
    BY <1>2 DEF Slices
  <2>2. ASSUME NEW p \in Slices, Within(p, raw)
        PROVE  Within(p, inner)
    BY <1>2, <2>1, <2>2 DEF Within, Slices
  <2>3. asdu.SvID \in Slices /\ asdu.RefrTm \in Slices /\ asdu.SeqData \in Slices
    BY <1>2 DEF ASDUs
  <2> QED
    BY <1>2, <2>2, <2>3 DEF PartsWithin
<1>6. TypeOK'
  BY <1>1, <1>3 DEF IInv, TypeOK
<1>7. InBounds'
  <2>1. Within(inner, Payload)'
    BY <1>1 DEF IInv, SlicesOK, InBounds, Within, Payload
  <2>2. (\A k \in 1 .. Len(asdus) : PartsWithin(asdus[k], inner))'
    BY <1>1, <1>4, <1>5 DEF PartsWithin, Within
  <2> QED
    BY <1>1, <2>1, <2>2 DEF InBounds
<1>8. ASDUsDisjoint'
  <2>1. \A j, k \in 1 .. Len(asdus') : ~ (j < k)
    BY <1>3
  <2> QED
    BY <2>1 DEF ASDUsDisjoint
<1>9. OffsetInv' /\ OrderInv' /\ StageInv'
  BY <1>1 DEF OffsetInv, OrderInv, StageInv
<1> QED
  BY <1>6, <1>7, <1>8, <1>9 DEF IInv, SlicesOK

LEMMA NextIInv ==
    ASSUME IInv, [Next]_vars
    PROVE  IInv'
<1>1. CASE UNCHANGED vars
  BY <1>1 DEF vars, IInv, TypeOK, SlicesOK, InBounds, ASDUsDisjoint, OffsetInv, OrderInv,
              StageInv, SamplesEndBy, PartsWithin, Within, Payload, Size
<1> QED
  BY <1>1, HeadersStep, EndStep, OpenStep, TaggedStep, GuessedStep, FallbackStep, TLVStep,
     ASDUStep, FallbackEndStep DEF Next

THEOREM IInvAlways == Spec => []IInv
<1>1. Init => IInv
  BY InitIInv
<1>2. IInv /\ [Next]_vars => IInv'
  BY NextIInv
<1> QED
  BY <1>1, <1>2, PTL DEF Spec

\* The decoder's variables have their types, whatever frame arrives.
THEOREM TypeCorrect == Spec => []TypeOK
<1>1. IInv => TypeOK
  BY DEF IInv
<1> QED
  BY <1>1, IInvAlways, PTL

\* Whatever bytes arrive, every slice that readTLV and the guessed split of
\* decoder.go:160-170 take lies in the slice it was taken from, and no two
\* ASDUs share a sample.
THEOREM SlicesCorrect == Spec => []SlicesOK
<1>1. IInv => SlicesOK
  BY DEF IInv
<1> QED
  BY <1>1, IInvAlways, PTL

\* Each iteration of the loops of ParseAPDU and ParseSVASDU moves its offset
\* on, so that neither can go on for ever in a frame that ends.
THEOREM OffsetsMove == Spec => OffsetsAdvance
<1> DEFINE Moves ==
        /\ pc = "asdus" /\ pc' = "asdu" /\ fallback' = fallback => at' > at
        /\ pc = "asdu" /\ pc' = "asdu" => cur' > cur
<1>1. ASSUME IInv, Next
      PROVE  Moves
  <2>1. CASE NextTagged \/ NextGuessed
    <3>1. at' > at /\ pc = "asdus"
      BY <1>1, <2>1, TaggedStep, GuessedStep DEF NextTagged, NextGuessed
    <3> QED
      BY <3>1
  <2>2. CASE Fallback
    <3>1. fallback' # fallback /\ pc = "asdus"
      BY <1>1, <2>2, FallbackStep DEF Fallback
    <3> QED
      BY <3>1
  <2>3. CASE ParseTLV
    <3>1. cur' > cur /\ pc = "asdu"
      BY <1>1, <2>3, TLVStep DEF ParseTLV
    <3> QED
      BY <3>1
  <2>4. CASE \/ ParseHeaders \/ Reject \/ OpenAPDU \/ Return \/ Unsupported
             \/ ASDUDone \/ FallbackDone
    <3>1. pc' # "asdu"
      BY <2>4 DEF ParseHeaders, Reject, OpenAPDU, Return, Unsupported, ASDUDone, FallbackDone
    <3> QED
      BY <3>1
  <2> QED
    BY <1>1, <2>1, <2>2, <2>3, <2>4 DEF Next
<1>2. IInv /\ [Next]_vars => [Moves]_vars
  BY <1>1
<1> QED
  BY <1>2, IInvAlways, PTL DEF Spec, OffsetsAdvance

(***************************************************************************)
(* Reading what was written: TLVs.                                         *)
(***************************************************************************)

\* The bytes of s are in the frame from offset n on, as far as a slice goes
\* that ends at hi.
Reads(n, s, hi) == \A k \in 1 .. Len(s) : n + k - 1 < hi => B(n + k - 1) = s[k]

\* The number of bytes of a TLV before its content.
Lead(c) == 1 + Len(BerLen(Len(c)))

LEMMA ReadsParts ==
    ASSUME NEW n \in Nat, NEW s \in Seq(Byte), NEW t \in Seq(Byte), NEW hi \in Nat,
           Reads(n, s \o t, hi)
    PROVE  Reads(n, s, hi) /\ Reads(n + Len(s), t, hi)
<1>1. /\ Len(s) \in Nat /\ Len(t) \in Nat /\ Len(s \o t) = Len(s) + Len(t)
      /\ \A j \in 1 .. Len(s) + Len(t) :
             (s \o t)[j] = IF j <= Len(s) THEN s[j] ELSE t[j - Len(s)]
  BY ConcatProperties
<1>2. ASSUME NEW k \in 1 .. Len(s), n + k - 1 < hi
      PROVE  B(n + k - 1) = s[k]
  <2>1. k \in 1 .. Len(s \o t) /\ (s \o t)[k] = s[k]
    BY <1>1
  <2> QED
    BY <1>2, <2>1 DEF Reads
<1>3. ASSUME NEW k \in 1 .. Len(t), (n + Len(s)) + k - 1 < hi
      PROVE  B((n + Len(s)) + k - 1) = t[k]
  <2> DEFINE j == Len(s) + k
  <2>1. j \in 1 .. Len(s \o t) /\ ~ (j <= Len(s)) /\ j - Len(s) = k
    BY <1>1
  <2>2. n + j - 1 = (n + Len(s)) + k - 1
    BY <1>1
  <2> HIDE DEF j
  <2>3. (s \o t)[j] = t[k]
    BY <1>1, <2>1
  <2> QED
    BY <1>3, <2>1, <2>2, <2>3 DEF Reads
<1> QED
  BY <1>2, <1>3 DEF Reads

LEMMA ReadsShorter ==
    ASSUME NEW n \in Nat, NEW s \in Seq(Byte), NEW hi \in Nat, NEW lo \in Nat, lo <= hi,
           Reads(n, s, hi)
    PROVE  Reads(n, s, lo)
BY DEF Reads

\* The length of a content in one, two or three bytes.
LEMMA BerLenIs ==
    ASSUME NEW L \in Nat, L <= MaxLength
    PROVE  /\ BerLen(L) \in Seq(Byte)
           /\ Len(BerLen(L)) = IF L < 128 THEN 1 ELSE IF L < 256 THEN 2 ELSE 3
           /\ L < 128 => BerLen(L)[1] = L
           /\ L >= 128 /\ L < 256 => BerLen(L)[1] = 129 /\ BerLen(L)[2] = L
           /\ L >= 256 => /\ BerLen(L)[1] = 130
                          /\ BerLen(L)[2] \in Byte /\ BerLen(L)[3] \in Byte
                          /\ 256 * BerLen(L)[2] + BerLen(L)[3] = L
<1>1. CASE L < 128
  <2>1. BerLen(L) = <<L>> /\ L \in Byte
    BY <1>1 DEF BerLen, Byte
  <2> QED
    BY <1>1, <2>1
<1>2. CASE L >= 128 /\ L < 256
  <2>1. BerLen(L) = <<129, L>> /\ L \in Byte /\ 129 \in Byte
    BY <1>2 DEF BerLen, Byte
  <2> QED
    BY <1>2, <2>1
<1>3. CASE L >= 256
  <2> DEFINE h == L \div 256
             l == L % 256
  <2>1. h \in Nat /\ h < 256 /\ l \in Nat /\ l < 256 /\ 256 * h + l = L
    BY <1>3 DEF MaxLength
  <2>2. h % 256 = h
    BY <2>1
  <2> HIDE DEF h, l
  <2>3. BerLen(L) = <<130, h, l>>
    BY <1>3, <2>2 DEF BerLen, h, l
  <2>4. 130 \in Byte /\ h \in Byte /\ l \in Byte
    BY <2>1 DEF Byte
  <2> QED
    BY <1>3, <2>1, <2>3, <2>4
<1> QED
  BY <1>1, <1>2, <1>3

\* What was written as the length is read as the length, if all of it is there.
LEMMA LengthRead ==
    ASSUME NEW n \in Nat, NEW hi \in Nat, NEW L \in Nat, L <= MaxLength,
           Reads(n, BerLen(L), hi)
    PROVE  /\ HasLength(n, hi) <=> n + Len(BerLen(L)) <= hi
           /\ HasLength(n, hi) => /\ LengthBytes(n) = Len(BerLen(L)) - 1
                                  /\ BerLength(n) = L
<1>1. /\ n < hi => B(n) = BerLen(L)[1]
      /\ L >= 128 /\ n + 1 < hi => B(n + 1) = BerLen(L)[2]
      /\ L >= 256 /\ n + 2 < hi => B(n + 2) = BerLen(L)[3]
  <2>1. /\ 1 \in 1 .. Len(BerLen(L)) /\ n + 1 - 1 = n
        /\ n + 2 - 1 = n + 1 /\ n + 3 - 1 = n + 2
        /\ L >= 128 => 2 \in 1 .. Len(BerLen(L))
        /\ L >= 256 => 3 \in 1 .. Len(BerLen(L))
    BY BerLenIs
  <2> QED
    BY <2>1 DEF Reads
<1>2. CASE L < 128
  <2>1. Len(BerLen(L)) = 1 /\ (n < hi => ~ LongForm(n) /\ B(n) = L)
    BY <1>1, <1>2, BerLenIs DEF LongForm
  <2> QED
    BY <2>1 DEF HasLength, LengthBytes, BerLength
<1>3. CASE L >= 128 /\ L < 256
  <2>1. Len(BerLen(L)) = 2 /\ (n < hi => LongForm(n) /\ LengthBytes(n) = 1)
    BY <1>1, <1>3, BerLenIs DEF LongForm, LengthBytes
  <2>2. HasLength(n, hi) <=> n + 2 <= hi
    BY <2>1 DEF HasLength
  <2>3. ASSUME n + 2 <= hi PROVE BerLength(n) = L
    <3> DEFINE w == Word32(n + 2, 1, 0)
    <3>1. w = [j \in 1 .. 4 |-> IF j <= 3 THEN 0 ELSE B((n + 2) - 5 + j)]
      BY DEF Word32
    <3>2. w[1] = 0 /\ w[2] = 0 /\ w[3] = 0 /\ w[4] = B((n + 2) - 5 + 4)
      BY <3>1
    <3>5. (n + 2) - 5 + 4 = n + 1
      OBVIOUS
    <3>3. B(n + 1) = L
      BY <1>1, <1>3, <2>3, BerLenIs
    <3>4. BerLength(n) = Number(w)
      BY <2>1, <2>3 DEF BerLength
    <3> HIDE DEF w
    <3> QED
      BY <3>2, <3>3, <3>4, <3>5 DEF Number
  <2> QED
    BY <2>1, <2>2, <2>3
<1>4. CASE L >= 256
  <2>1. Len(BerLen(L)) = 3 /\ (n < hi => LongForm(n) /\ LengthBytes(n) = 2)
    BY <1>1, <1>4, BerLenIs DEF LongForm, LengthBytes
  <2>2. HasLength(n, hi) <=> n + 3 <= hi
    BY <2>1 DEF HasLength
  <2>3. ASSUME n + 3 <= hi PROVE BerLength(n) = L
    <3> DEFINE w == Word32(n + 3, 2, 0)
    <3>1. w = [j \in 1 .. 4 |-> IF j <= 2 THEN 0 ELSE B((n + 3) - 5 + j)]
      BY DEF Word32
    <3>2. w[1] = 0 /\ w[2] = 0 /\ w[3] = B((n + 3) - 5 + 3) /\ w[4] = B((n + 3) - 5 + 4)
      BY <3>1
    <3>5. (n + 3) - 5 + 3 = n + 1 /\ (n + 3) - 5 + 4 = n + 2
      OBVIOUS
    <3>3. B(n + 1) \in Byte /\ B(n + 2) \in Byte /\ 256 * B(n + 1) + B(n + 2) = L
      BY <1>1, <1>4, <2>3, BerLenIs
    <3>4. BerLength(n) = Number(w)
      BY <2>1, <2>3 DEF BerLength
    <3> HIDE DEF w
    <3> QED
      BY <3>2, <3>3, <3>4, <3>5 DEF Number, Byte
  <2> QED
    BY <2>1, <2>2, <2>3
<1> QED
  BY <1>2, <1>3, <1>4

LEMMA TLVIs ==
    ASSUME NEW tag \in Byte, NEW c \in Seq(Byte), Len(c) <= MaxLength
    PROVE  /\ TLV(tag, c) \in Seq(Byte)
           /\ Lead(c) \in 2 .. 4 /\ Len(c) \in Nat
           /\ Len(TLV(tag, c)) = Lead(c) + Len(c)
<1> DEFINE l == BerLen(Len(c))
<1>1. l \in Seq(Byte) /\ Len(l) \in 1 .. 3 /\ Len(c) \in Nat
  BY BerLenIs
<1> HIDE DEF l
<1>2. <<tag>> \in Seq(Byte) /\ Len(<<tag>>) = 1
  OBVIOUS
<1>3. <<tag>> \o l \in Seq(Byte) /\ Len(<<tag>> \o l) = 1 + Len(l)
  BY <1>1, <1>2, ConcatProperties
<1>4. (<<tag>> \o l) \o c \in Seq(Byte) /\ Len((<<tag>> \o l) \o c) = 1 + Len(l) + Len(c)
  BY <1>1, <1>3, ConcatProperties
<1>5. Lead(c) = 1 + Len(l)
  BY DEF Lead, l
<1>6. TLV(tag, c) = (<<tag>> \o l) \o c
  BY DEF TLV, l
<1>7. TLV(tag, c) \in Seq(Byte) /\ Len(TLV(tag, c)) = 1 + Len(l) + Len(c)
  BY <1>4, <1>6, Zenon
<1>8. Lead(c) \in 2 .. 4
  <2> DEFINE k == Len(l)
  <2>1. k \in 1 .. 3 /\ Lead(c) = 1 + k
    BY <1>1, <1>5
  <2> HIDE DEF k
  <2> QED
    BY <2>1
<1>9. 1 + Len(l) + Len(c) = Lead(c) + Len(c)
  BY <1>5
<1> QED
  BY <1>1, <1>7, <1>8, <1>9

\* A TLV is read if and only if all of it is there, and then as it was
\* written.
LEMMA TLVRead ==
    ASSUME NEW n \in Nat, NEW hi \in Nat, NEW tag \in Byte,
           NEW c \in Seq(Byte), Len(c) <= MaxLength, Reads(n, TLV(tag, c), hi)
    PROVE  /\ HasTLV(n, hi) <=> n + Len(TLV(tag, c)) <= hi
           /\ HasTLV(n, hi) => /\ B(n) = tag
                               /\ Content(n) = Slice(n + Lead(c), n + Len(TLV(tag, c)))
                               /\ AfterTLV(n) = n + Len(TLV(tag, c))
                               /\ Reads(n + Lead(c), c, hi)
<1> DEFINE l == BerLen(Len(c))
           m == n + 1
<1>1. l \in Seq(Byte) /\ Len(l) \in 1 .. 3 /\ Len(c) \in Nat
  BY BerLenIs
<1>2. /\ Lead(c) = 1 + Len(l) /\ Lead(c) \in 2 .. 4
      /\ Len(TLV(tag, c)) = Lead(c) + Len(c)
  BY TLVIs DEF Lead
<1>3. TLV(tag, c) = (<<tag>> \o l) \o c
  BY DEF TLV
<1> HIDE DEF l
<1>4. <<tag>> \in Seq(Byte) /\ Len(<<tag>>) = 1 /\ <<tag>>[1] = tag
  OBVIOUS
<1>5. <<tag>> \o l \in Seq(Byte) /\ Len(<<tag>> \o l) = 1 + Len(l)
  BY <1>1, <1>4, ConcatProperties
<1>6. Reads(n, <<tag>> \o l, hi) /\ Reads(n + (1 + Len(l)), c, hi)
  <2> DEFINE g == <<tag>> \o l
  <2>1. g \in Seq(Byte) /\ Reads(n, g \o c, hi)
    BY <1>3, <1>5
  <2> HIDE DEF g
  <2>2. Reads(n, g, hi) /\ Reads(n + Len(g), c, hi)
    BY <2>1, ReadsParts
  <2> QED
    BY <1>5, <2>2 DEF g
<1>7. Reads(n, <<tag>>, hi) /\ Reads(m, l, hi)
  BY <1>1, <1>4, <1>6, ReadsParts
<1>8. n < hi => B(n) = tag
  <2>1. 1 \in 1 .. Len(<<tag>>) /\ n + 1 - 1 = n
    BY <1>4
  <2> QED
    BY <1>4, <1>7, <2>1 DEF Reads
<1>9. /\ HasLength(m, hi) <=> m + Len(l) <= hi
      /\ HasLength(m, hi) => LengthBytes(m) = Len(l) - 1 /\ BerLength(m) = Len(c)
  BY <1>1, <1>7, LengthRead DEF l
<1>10. Content(n) = Slice(n + 2 + LengthBytes(m), n + 2 + LengthBytes(m) + BerLength(m))
  BY DEF Content, ContentAt
<1>11. AfterTLV(n) = Content(n).hi /\ \A x, y : Slice(x, y).hi = y
  BY DEF AfterTLV, Slice
<1>12. HasLength(m, hi) => /\ n + 2 + LengthBytes(m) = n + Lead(c)
                           /\ n + 2 + LengthBytes(m) + BerLength(m) = n + Len(TLV(tag, c))
  BY <1>1, <1>2, <1>9
<1>13. HasLength(m, hi) => /\ Content(n) = Slice(n + Lead(c), n + Len(TLV(tag, c)))
                           /\ AfterTLV(n) = n + Len(TLV(tag, c))
  BY <1>10, <1>11, <1>12
<1>14. HasTLV(n, hi) <=> n < hi /\ HasLength(m, hi) /\ AfterTLV(n) <= hi
  BY DEF HasTLV
<1>15. n + Len(TLV(tag, c)) <= hi => HasLength(m, hi) /\ n < hi
  BY <1>1, <1>2, <1>9
<1>16. Reads(n + Lead(c), c, hi)
  BY <1>2, <1>6
<1> QED
  BY <1>8, <1>13, <1>14, <1>15, <1>16

(***************************************************************************)
(* The bytes of a simulated frame.  A simulation is the number of the      *)
(* first sample of the frame, the number of its samples and the phase.     *)
(***************************************************************************)
Simulation(s) ==
    /\ s.cnt \in Word /\ s.n \in Nat \ {0} /\ s.phase \in Nat
    /\ 8 * s.n + 40 <= MaxLength

DataOf(s)   == SeqData(s.n, s.phase)
ASDUOf(s)   == ASDU(s.cnt, s.n, s.phase)
BoxOf(s)    == TLV(48, ASDUOf(s))
GroupOf(s)  == TLV(162, BoxOf(s))
InsideOf(s) == TLV(128, <<1>>) \o GroupOf(s)
APDUOf(s)   == TLV(96, InsideOf(s))
FrameOf(s)  == EthernetHeader \o SVHeader(APDUOf(s)) \o APDUOf(s)

\* Where its parts are when the APDU is at offset a.
GroupAt(s, a) == a + Lead(InsideOf(s)) + 3
GroupLo(s, a) == GroupAt(s, a) + Lead(BoxOf(s))
BoxLo(s, a)   == GroupLo(s, a) + Lead(ASDUOf(s))
DataLo(s, a)  == BoxLo(s, a) + 25 + Lead(DataOf(s))
EndOf(s, a)   == a + Len(APDUOf(s))

LEMMA BytesAre ==
    /\ 1 \in Byte /\ 48 \in Byte /\ 96 \in Byte /\ 128 \in Byte /\ 130 \in Byte
    /\ 131 \in Byte /\ 133 \in Byte /\ 135 \in Byte /\ 162 \in Byte
BY DEF Byte

LEMMA FunctionIsSeq ==
    ASSUME NEW N \in Nat, NEW D \in [1 .. N -> Byte]
    PROVE  D \in Seq(Byte) /\ Len(D) = N
OBVIOUS

\* What the length bytes of a simulated frame can say the length of.
Contents == {c \in Seq(Byte) : Len(c) <= MaxLength}
ShortContents == {c \in Seq(Byte) : Len(c) < 128}

LEMMA LeadIs ==
    ASSUME NEW c \in Seq(Byte), Len(c) <= MaxLength
    PROVE  Lead(c) \in 2 .. 4 /\ Len(c) \in Nat
BY BytesAre, TLVIs

\* A TLV with a length of one byte.
LEMMA ShortTLV ==
    ASSUME NEW tag \in Byte, NEW c \in ShortContents
    PROVE  TLV(tag, c) \in Seq(Byte) /\ Len(TLV(tag, c)) = 2 + Len(c)
           /\ c \in Contents /\ Lead(c) = 2
<1>0. c \in Seq(Byte) /\ Len(c) < 128
  BY DEF ShortContents
<1>1. Len(c) \in Nat /\ Len(c) <= MaxLength
  BY <1>0 DEF MaxLength
<1>2. Len(BerLen(Len(c))) = 1
  BY <1>0, <1>1, BerLenIs
<1>3. Lead(c) = 2
  BY <1>2 DEF Lead
<1>4. TLV(tag, c) \in Seq(Byte) /\ Len(TLV(tag, c)) = Lead(c) + Len(c)
  BY <1>0, <1>1, TLVIs
<1> QED
  BY <1>0, <1>1, <1>3, <1>4 DEF Contents

LEMMA SmallContents ==
    /\ SvID \in Seq(Byte) /\ Len(SvID) = 8 /\ SvID \in ShortContents
    /\ <<0, 0, 0, 1>> \in Seq(Byte) /\ Len(<<0, 0, 0, 1>>) = 4
    /\ <<0, 0, 0, 1>> \in ShortContents
    /\ <<1>> \in Seq(Byte) /\ Len(<<1>>) = 1 /\ <<1>> \in ShortContents
<1>1. SvID \in Seq(Byte) /\ Len(SvID) = 8
  BY DEF SvID, Byte
<1>2. <<0, 0, 0, 1>> \in Seq(Byte) /\ Len(<<0, 0, 0, 1>>) = 4
  BY DEF Byte
<1>3. <<1>> \in Seq(Byte) /\ Len(<<1>>) = 1
  BY DEF Byte
<1>4. Len(SvID) < 128 /\ Len(<<0, 0, 0, 1>>) < 128 /\ Len(<<1>>) < 128
  BY <1>1, <1>2, <1>3
<1>5. ASSUME NEW c \in Seq(Byte), Len(c) < 128 PROVE c \in ShortContents
  BY <1>5 DEF ShortContents
<1>6. SvID \in ShortContents
  <2>1. SvID \in Seq(Byte)
    BY <1>1
  <2>2. Len(SvID) < 128
    BY <1>4
  <2> QED
    BY <2>1, <2>2, <1>5
<1>7. <<0, 0, 0, 1>> \in ShortContents /\ <<1>> \in ShortContents
  BY <1>2, <1>3, <1>4, <1>5
<1> QED
  BY <1>1, <1>2, <1>3, <1>6, <1>7

LEMMA WordIsSeq ==
    ASSUME NEW w \in Word
    PROVE  w \in Seq(Byte) /\ Len(w) = 4 /\ w \in ShortContents
<1>1. w \in [1 .. 4 -> Byte] /\ 4 \in Nat
  BY DEF Word
<1>2. w \in Seq(Byte) /\ Len(w) = 4
  BY <1>1, FunctionIsSeq
<1>3. Len(w) < 128 /\ w \in Seq(Byte)
  BY <1>2
<1>4. w \in ShortContents
  BY ONLY <1>3 DEF ShortContents
<1> QED
  BY <1>2, <1>4

LEMMA Joined ==
    ASSUME NEW s \in Seq(Byte), NEW t \in Seq(Byte)
    PROVE  s \o t \in Seq(Byte) /\ Len(s \o t) = Len(s) + Len(t)
BY ConcatProperties

\* The bytes of a sample.
LEMMA WaveIs ==
    ASSUME NEW ph \in Nat
    PROVE  Current(ph) \in Word /\ Voltage(ph) \in Word
<1>1. /\ (ph % 2) * 255 \in Byte /\ ((ph + 1) % 2) * 255 \in Byte
      /\ (ph \div 256) % 256 \in Byte /\ ph % 256 \in Byte /\ 255 \in Byte /\ 0 \in Byte
  BY DEF Byte
<1> QED
  BY <1>1 DEF Current, Voltage, Word

LEMMA DataIs ==
    ASSUME NEW m \in Nat, NEW ph \in Nat
    PROVE  /\ SeqData(m, ph) \in Seq(Byte) /\ Len(SeqData(m, ph)) = 8 * m
           /\ \A k \in 1 .. m : \A j \in 1 .. 4 :
                  /\ SeqData(m, ph)[8 * (k - 1) + j] = Current(ph + (k - 1))[j]
                  /\ SeqData(m, ph)[8 * (k - 1) + 4 + j] = Voltage(ph + (k - 1))[j]
<1> DEFINE e(b) == IF (b - 1) % 8 < 4
                   THEN Current(ph + (b - 1) \div 8)[((b - 1) % 8) + 1]
                   ELSE Voltage(ph + (b - 1) \div 8)[((b - 1) % 8) - 3]
           D == SeqData(m, ph)
<1>1. D = [b \in 1 .. 8 * m |-> e(b)]
  BY DEF SeqData
<1>2. ASSUME NEW b \in 1 .. 8 * m PROVE e(b) \in Byte
  <2>1. (b - 1) \div 8 \in Nat /\ (b - 1) % 8 \in 0 .. 7
    BY <1>2
  <2>2. ph + (b - 1) \div 8 \in Nat
    BY <2>1
  <2>3. Current(ph + (b - 1) \div 8) \in Word /\ Voltage(ph + (b - 1) \div 8) \in Word
    BY <2>2, WaveIs
  <2>4. /\ (b - 1) % 8 < 4 => ((b - 1) % 8) + 1 \in 1 .. 4
        /\ ~ ((b - 1) % 8 < 4) => ((b - 1) % 8) - 3 \in 1 .. 4
    BY <2>1
  <2> QED
    BY <2>3, <2>4 DEF Word
<1>3. D \in [1 .. 8 * m -> Byte] /\ 8 * m \in Nat
  <2> HIDE DEF e, D
  <2> QED
    BY <1>1, <1>2
<1>4. D \in Seq(Byte) /\ Len(D) = 8 * m
  <2> HIDE DEF D
  <2> QED
    BY <1>3
<1>5. ASSUME NEW k \in 1 .. m, NEW j \in 1 .. 4
      PROVE  /\ D[8 * (k - 1) + j] = Current(ph + (k - 1))[j]
             /\ D[8 * (k - 1) + 4 + j] = Voltage(ph + (k - 1))[j]
  <2> DEFINE x == 8 * (k - 1) + j
             y == 8 * (k - 1) + 4 + j
  <2>1. /\ x \in 1 .. 8 * m /\ y \in 1 .. 8 * m
        /\ (x - 1) \div 8 = k - 1 /\ (x - 1) % 8 = j - 1
        /\ (y - 1) \div 8 = k - 1 /\ (y - 1) % 8 = j + 3
    OBVIOUS
  <2>2. D[x] = e(x) /\ D[y] = e(y)
    <3> HIDE DEF e, x, y, D
    <3> QED
      BY <1>1, <2>1
  <2> HIDE DEF x, y
  <2>3. e(x) = Current(ph + (k - 1))[(j - 1) + 1] /\ e(y) = Voltage(ph + (k - 1))[(j + 3) - 3]
    BY <2>1
  <2>4. (j - 1) + 1 = j /\ (j + 3) - 3 = j
    OBVIOUS
  <2> QED
    BY <2>2, <2>3, <2>4 DEF x, y
<1> QED
  BY <1>4, <1>5

\* The lengths of a simulated frame's parts.
Fields(w, d) ==
    TLV(128, SvID) \o TLV(130, w) \o TLV(131, <<0, 0, 0, 1>>) \o TLV(133, <<1>>) \o TLV(135, d)

LEMMA FieldsIs ==
    ASSUME NEW w \in Word, NEW d \in Seq(Byte), Len(d) <= MaxLength
    PROVE  /\ Fields(w, d) \in Seq(Byte) /\ Len(Fields(w, d)) = 25 + Lead(d) + Len(d)
           /\ \A n, hi \in Nat : Reads(n, Fields(w, d), hi) =>
                  /\ Reads(n, TLV(128, SvID), hi) /\ Reads(n + 10, TLV(130, w), hi)
                  /\ Reads(n + 16, TLV(131, <<0, 0, 0, 1>>), hi)
                  /\ Reads(n + 22, TLV(133, <<1>>), hi)
                  /\ Reads(n + 25, TLV(135, d), hi)
<1> DEFINE t1 == TLV(128, SvID)
           t2 == TLV(130, w)
           t3 == TLV(131, <<0, 0, 0, 1>>)
           t4 == TLV(133, <<1>>)
           t5 == TLV(135, d)
           u2 == t1 \o t2
           u3 == u2 \o t3
           u4 == u3 \o t4
           u5 == u4 \o t5
<1>1. t1 \in Seq(Byte) /\ Len(t1) = 10
  <2>1. SvID \in Seq(Byte) /\ Len(SvID) = 8 /\ 128 \in Byte
    BY SmallContents, BytesAre
  <2>0. SvID \in ShortContents
    BY SmallContents, WordIsSeq
  <2>2. t1 \in Seq(Byte) /\ Len(t1) = 2 + Len(SvID)
    BY <2>0, <2>1, ShortTLV
  <2> QED
    BY <2>1, <2>2
<1>2. t2 \in Seq(Byte) /\ Len(t2) = 6
  <2>1. w \in Seq(Byte) /\ Len(w) = 4 /\ 130 \in Byte
    BY WordIsSeq, BytesAre
  <2>0. w \in ShortContents
    BY SmallContents, WordIsSeq
  <2>2. t2 \in Seq(Byte) /\ Len(t2) = 2 + Len(w)
    BY <2>0, <2>1, ShortTLV
  <2> QED
    BY <2>1, <2>2
<1>3. t3 \in Seq(Byte) /\ Len(t3) = 6
  <2>1. <<0, 0, 0, 1>> \in Seq(Byte) /\ Len(<<0, 0, 0, 1>>) = 4 /\ 131 \in Byte
    BY SmallContents, BytesAre
  <2>0. <<0, 0, 0, 1>> \in ShortContents
    BY SmallContents, WordIsSeq
  <2>2. t3 \in Seq(Byte) /\ Len(t3) = 2 + Len(<<0, 0, 0, 1>>)
    BY <2>0, <2>1, ShortTLV
  <2> QED
    BY <2>1, <2>2
<1>4. t4 \in Seq(Byte) /\ Len(t4) = 3
  <2>1. <<1>> \in Seq(Byte) /\ Len(<<1>>) = 1 /\ 133 \in Byte
    BY SmallContents, BytesAre
  <2>0. <<1>> \in ShortContents
    BY SmallContents, WordIsSeq
  <2>2. t4 \in Seq(Byte) /\ Len(t4) = 2 + Len(<<1>>)
    BY <2>0, <2>1, ShortTLV
  <2> QED
    BY <2>1, <2>2
<1>5. t5 \in Seq(Byte) /\ Len(t5) = Lead(d) + Len(d)
  BY BytesAre, TLVIs
<1>0. Lead(d) \in Nat /\ Len(d) \in Nat
  BY LeadIs
<1> HIDE DEF t1, t2, t3, t4, t5, u2, u3, u4, u5
<1>6. u2 \in Seq(Byte) /\ Len(u2) = 16
  <2>1. u2 \in Seq(Byte) /\ Len(u2) = Len(t1) + Len(t2)
    BY <1>1, <1>2, Joined DEF u2
  <2> QED
    BY <2>1, <1>1, <1>2
<1>7. u3 \in Seq(Byte) /\ Len(u3) = 22
  <2>1. u3 \in Seq(Byte) /\ Len(u3) = Len(u2) + Len(t3)
    BY <1>6, <1>3, Joined DEF u3
  <2> QED
    BY <2>1, <1>6, <1>3
<1>8. u4 \in Seq(Byte) /\ Len(u4) = 25
  <2>1. u4 \in Seq(Byte) /\ Len(u4) = Len(u3) + Len(t4)
    BY <1>7, <1>4, Joined DEF u4
  <2> QED
    BY <2>1, <1>7, <1>4
<1>9. u5 \in Seq(Byte) /\ Len(u5) = 25 + Lead(d) + Len(d)
  <2>1. u5 \in Seq(Byte) /\ Len(u5) = Len(u4) + Len(t5)
    BY <1>8, <1>5, Joined DEF u5
  <2> QED
    BY <2>1, <1>0, <1>5, <1>8
<1>10. ASSUME NEW n \in Nat, NEW hi \in Nat, Reads(n, u5, hi)
       PROVE  /\ Reads(n, t1, hi) /\ Reads(n + 10, t2, hi) /\ Reads(n + 16, t3, hi)
              /\ Reads(n + 22, t4, hi) /\ Reads(n + 25, t5, hi)
  <2>1. Reads(n, u4, hi) /\ Reads(n + 25, t5, hi)
    BY <1>10, <1>8, <1>5, ReadsParts DEF u5
  <2>2. Reads(n, u3, hi) /\ Reads(n + 22, t4, hi)
    BY <2>1, <1>7, <1>4, ReadsParts DEF u4
  <2>3. Reads(n, u2, hi) /\ Reads(n + 16, t3, hi)
    BY <2>2, <1>6, <1>3, ReadsParts DEF u3
  <2>4. Reads(n, t1, hi) /\ Reads(n + 10, t2, hi)
    BY <2>3, <1>1, <1>2, ReadsParts DEF u2
  <2> QED
    BY <2>1, <2>2, <2>3, <2>4
<1> QED
  BY <1>9, <1>10 DEF Fields, u5, u4, u3, u2, t1, t2, t3, t4, t5

LEMMA SizesIs ==
    ASSUME NEW s, Simulation(s)
    PROVE  /\ DataOf(s) \in Seq(Byte) /\ ASDUOf(s) \in Seq(Byte) /\ BoxOf(s) \in Seq(Byte)
           /\ GroupOf(s) \in Seq(Byte) /\ InsideOf(s) \in Seq(Byte) /\ APDUOf(s) \in Seq(Byte)
           /\ TLV(128, <<1>>) \in Seq(Byte) /\ Len(TLV(128, <<1>>)) = 3
           /\ Lead(DataOf(s)) \in 2 .. 4 /\ Lead(ASDUOf(s)) \in 2 .. 4
           /\ Lead(BoxOf(s)) \in 2 .. 4 /\ Lead(InsideOf(s)) \in 2 .. 4
           /\ s.n \in Nat \ {0}
           /\ Len(DataOf(s)) = 8 * s.n
           /\ Len(ASDUOf(s)) = 25 + Lead(DataOf(s)) + 8 * s.n
           /\ Len(BoxOf(s)) = Lead(ASDUOf(s)) + Len(ASDUOf(s))
           /\ Len(GroupOf(s)) = Lead(BoxOf(s)) + Len(BoxOf(s))
           /\ Len(InsideOf(s)) = 3 + Len(GroupOf(s))
           /\ Len(APDUOf(s)) = Lead(InsideOf(s)) + Len(InsideOf(s))
           /\ Len(DataOf(s)) <= MaxLength /\ Len(ASDUOf(s)) <= MaxLength
           /\ Len(BoxOf(s)) <= MaxLength /\ Len(InsideOf(s)) <= MaxLength
<1>1. /\ s.cnt \in Word /\ s.n \in Nat \ {0} /\ s.phase \in Nat
      /\ 8 * s.n + 40 <= MaxLength /\ MaxLength \in Nat /\ 1 <= MaxLength
  BY DEF Simulation, MaxLength
<1> DEFINE d == DataOf(s)
           A == ASDUOf(s)
           x == BoxOf(s)
           g == GroupOf(s)
           o == TLV(128, <<1>>)
           y == InsideOf(s)
<1>2. d \in Seq(Byte) /\ Len(d) = 8 * s.n
  BY <1>1, DataIs DEF DataOf
<1>3. Len(d) <= MaxLength /\ Lead(d) \in 2 .. 4
  <2>1. Len(d) <= MaxLength
    <3> HIDE DEF d
    <3> QED
      BY <1>1, <1>2
  <2> QED
    BY <1>2, <2>1, LeadIs
<1>4. A \in Seq(Byte) /\ Len(A) = 25 + Lead(d) + 8 * s.n
  <2>1. A = Fields(s.cnt, d)
    BY DEF ASDUOf, ASDU, DataOf, Fields
  <2> HIDE DEF A, d
  <2>2. A \in Seq(Byte) /\ Len(A) = 25 + Lead(d) + Len(d)
    BY <1>1, <1>2, <1>3, <2>1, FieldsIs
  <2> QED
    BY <1>2, <2>2
<1>5. x = TLV(48, A) /\ g = TLV(162, x) /\ y = o \o g /\ APDUOf(s) = TLV(96, y)
  BY DEF BoxOf, GroupOf, InsideOf, APDUOf
<1>6. o \in Seq(Byte) /\ Len(o) = 3
  <2>1. <<1>> \in Seq(Byte) /\ Len(<<1>>) = 1 /\ 128 \in Byte
    BY SmallContents, BytesAre
  <2>0. <<1>> \in ShortContents
    BY SmallContents, WordIsSeq
  <2>2. o \in Seq(Byte) /\ Len(o) = 2 + Len(<<1>>)
    BY <2>0, <2>1, ShortTLV
  <2> QED
    BY <2>1, <2>2
<1> HIDE DEF d, A, x, g, o, y
<1>7. Len(A) <= MaxLength /\ Lead(A) \in 2 .. 4
  <2>1. Len(A) <= MaxLength
    <3> DEFINE m == s.n
               M == MaxLength
               p == Lead(d)
    <3>1. /\ m \in Nat /\ M \in Nat /\ 8 * m + 40 <= M /\ p \in 2 .. 4
          /\ Len(A) = 25 + p + 8 * m
      BY <1>1, <1>3, <1>4
    <3> HIDE DEF m, M, p
    <3>2. Len(A) <= M
      BY <3>1
    <3> QED
      BY <3>2 DEF M
  <2> QED
    BY <1>4, <2>1, LeadIs
<1>8. x \in Seq(Byte) /\ Len(x) = Lead(A) + Len(A)
  BY <1>4, <1>5, <1>7, BytesAre, TLVIs
<1>9. Len(x) <= MaxLength /\ Lead(x) \in 2 .. 4
  <2>1. Len(x) <= MaxLength
    <3> DEFINE m == s.n
               M == MaxLength
               p == Lead(d)
               q == Lead(A)
    <3>1. /\ m \in Nat /\ M \in Nat /\ 8 * m + 40 <= M /\ p \in 2 .. 4 /\ q \in 2 .. 4
          /\ Len(x) = q + (25 + p + 8 * m)
      BY <1>1, <1>3, <1>4, <1>7, <1>8
    <3> HIDE DEF m, M, p, q
    <3>2. Len(x) <= M
      BY <3>1
    <3> QED
      BY <3>2 DEF M
  <2> QED
    BY <1>8, <2>1, LeadIs
<1>10. g \in Seq(Byte) /\ Len(g) = Lead(x) + Len(x)
  BY <1>8, <1>5, <1>9, BytesAre, TLVIs
<1>11. y \in Seq(Byte) /\ Len(y) = 3 + Len(g)
  <2>1. o \o g \in Seq(Byte) /\ Len(o \o g) = Len(o) + Len(g)
    BY <1>6, <1>10, Joined
  <2> QED
    BY <2>1, <1>5, <1>6
<1>12. Len(y) <= MaxLength /\ Lead(y) \in 2 .. 4
  <2>1. Len(y) <= MaxLength
    <3> DEFINE m == s.n
               M == MaxLength
               p == Lead(d)
               q == Lead(A)
               r == Lead(x)
    <3>1. /\ m \in Nat /\ M \in Nat /\ 8 * m + 40 <= M
          /\ p \in 2 .. 4 /\ q \in 2 .. 4 /\ r \in 2 .. 4
          /\ Len(y) = 3 + (r + (q + (25 + p + 8 * m)))
      BY <1>1, <1>3, <1>4, <1>7, <1>8, <1>9, <1>10, <1>11
    <3> HIDE DEF m, M, p, q, r
    <3>2. Len(y) <= M
      BY <3>1
    <3> QED
      BY <3>2 DEF M
  <2> QED
    BY <1>11, <2>1, LeadIs
<1>13. APDUOf(s) \in Seq(Byte) /\ Len(APDUOf(s)) = Lead(y) + Len(y)
  <2>1. TLV(96, y) \in Seq(Byte) /\ Len(TLV(96, y)) = Lead(y) + Len(y)
    BY <1>11, <1>12, BytesAre, TLVIs
  <2> QED
    BY <1>5, <2>1
<1> QED
  BY <1>1, <1>2, <1>3, <1>4, <1>6, <1>7, <1>8, <1>9, <1>10, <1>11, <1>12, <1>13
     DEF d, A, x, g, o, y

\* A TLV that fills a slice up to its end.
LEMMA LastTLV ==
    ASSUME NEW n \in Nat, NEW hi \in Nat, NEW tag \in Byte, NEW c \in Seq(Byte),
           Len(c) <= MaxLength, Reads(n, TLV(tag, c), hi), hi = n + Len(TLV(tag, c))
    PROVE  /\ n < hi /\ HasTLV(n, hi) /\ B(n) = tag /\ AfterTLV(n) = hi
           /\ Content(n) = Slice(n + Lead(c), hi)
           /\ n + Lead(c) \in Nat /\ hi = n + Lead(c) + Len(c)
           /\ Reads(n + Lead(c), c, hi)
<1>1. HasTLV(n, hi)
  BY TLVRead
<1>2. /\ B(n) = tag /\ Content(n) = Slice(n + Lead(c), n + Len(TLV(tag, c)))
      /\ AfterTLV(n) = n + Len(TLV(tag, c)) /\ Reads(n + Lead(c), c, hi)
  BY <1>1, TLVRead
<1>3. Lead(c) \in 2 .. 4 /\ Len(c) \in Nat /\ Len(TLV(tag, c)) = Lead(c) + Len(c)
  BY TLVIs
<1> QED
  BY <1>1, <1>2, <1>3

\* A TLV with others after it.
LEMMA FieldTLV ==
    ASSUME NEW n \in Nat, NEW hi \in Nat, NEW tag \in Byte, NEW c \in Contents,
           Reads(n, TLV(tag, c), hi), n + Len(TLV(tag, c)) <= hi
    PROVE  /\ n < hi /\ HasTLV(n, hi) /\ B(n) = tag /\ AfterTLV(n) = n + Len(TLV(tag, c))
           /\ Content(n) = Slice(n + Lead(c), n + Len(TLV(tag, c)))
           /\ Reads(n + Lead(c), c, hi)
<1>0. c \in Seq(Byte) /\ Len(c) <= MaxLength
  BY DEF Contents
<1>1. Lead(c) \in 2 .. 4 /\ Len(c) \in Nat /\ Len(TLV(tag, c)) = Lead(c) + Len(c)
  BY <1>0, TLVIs
<1>2. n < hi
  BY <1>1
<1>3. HasTLV(n, hi)
  BY <1>0, TLVRead
<1>4. /\ B(n) = tag /\ Content(n) = Slice(n + Lead(c), n + Len(TLV(tag, c)))
      /\ AfterTLV(n) = n + Len(TLV(tag, c)) /\ Reads(n + Lead(c), c, hi)
  BY <1>0, <1>3, TLVRead
<1> QED
  BY <1>2, <1>3, <1>4

\* A number of four bytes, and the number 1 in one.
LEMMA WordRead ==
    ASSUME NEW n \in Nat, NEW hi \in Nat, NEW w \in Word, Reads(n, w, hi), n + 4 <= hi
    PROVE  /\ IsInteger32(Slice(n, n + 4))
           /\ DecodeInteger32(Slice(n, n + 4)) = w
<1> DEFINE c == Slice(n, n + 4)
<1>1. c.lo = n /\ c.hi = n + 4
  BY DEF Slice
<1> HIDE DEF c
<1>2. Size(c) = 4
  BY <1>1 DEF Size
<1>3. IsInteger32(c)
  BY <1>2 DEF IsInteger32
<1>4. Len(w) = 4 /\ w \in [1 .. 4 -> Byte]
  BY WordIsSeq DEF Word
<1>5. ASSUME NEW fill PROVE Word32(n + 4, 4, fill) = w
  <2> DEFINE W == Word32(n + 4, 4, fill)
  <2>1. W = [j \in 1 .. 4 |-> IF j <= 4 - 4 THEN fill ELSE B((n + 4) - 5 + j)]
    BY DEF Word32
  <2>2. ASSUME NEW j \in 1 .. 4 PROVE W[j] = w[j]
    <3>1. W[j] = B((n + 4) - 5 + j)
      BY <2>1
    <3>2. (n + 4) - 5 + j = n + j - 1 /\ n + j - 1 < hi /\ j \in 1 .. Len(w)
      BY <1>4
    <3> HIDE DEF W
    <3>3. B(n + j - 1) = w[j]
      BY <3>2 DEF Reads
    <3> QED
      BY <3>1, <3>2, <3>3
  <2>3. W = [j \in 1 .. 4 |-> W[j]]
    BY <2>1
  <2> HIDE DEF W
  <2>4. w = [j \in 1 .. 4 |-> w[j]]
    BY <1>4
  <2> QED
    BY <2>2, <2>3, <2>4 DEF W
<1>6. DecodeInteger32(c) = w
  BY <1>1, <1>2, <1>5 DEF DecodeInteger32
<1> QED
  BY <1>3, <1>6 DEF c

LEMMA OneRead ==
    ASSUME NEW n \in Nat, NEW hi \in Nat, Reads(n, << 1 >>, hi), n + 1 <= hi
    PROVE  /\ IsInteger32(Slice(n, n + 1))
           /\ Number(DecodeInteger32(Slice(n, n + 1))) = 1
<1> DEFINE c == Slice(n, n + 1)
<1>1. c.lo = n /\ c.hi = n + 1
  BY DEF Slice
<1> HIDE DEF c
<1>2. Size(c) = 1
  BY <1>1 DEF Size
<1>3. IsInteger32(c)
  BY <1>2 DEF IsInteger32
<1>4. B(n) = 1
  <2>1. 1 \in 1 .. Len(<<1>>) /\ <<1>>[1] = 1 /\ n + 1 - 1 = n /\ n < hi
    OBVIOUS
  <2> QED
    BY <2>1 DEF Reads
<1>5. DecodeInteger32(c) = Word32(n + 1, 1, 0)
  BY <1>1, <1>2, <1>4 DEF DecodeInteger32
<1> DEFINE W == Word32(n + 1, 1, 0)
<1>6. W = [j \in 1 .. 4 |-> IF j <= 4 - 1 THEN 0 ELSE B((n + 1) - 5 + j)]
  BY DEF Word32
<1>7. W[1] = 0 /\ W[2] = 0 /\ W[3] = 0 /\ W[4] = B((n + 1) - 5 + 4)
  BY <1>6
<1>8. (n + 1) - 5 + 4 = n
  OBVIOUS
<1> HIDE DEF W
<1>9. Number(W) = 1
  BY <1>4, <1>7, <1>8 DEF Number
<1> QED
  BY <1>3, <1>5, <1>9 DEF W, c

(***************************************************************************)
(* How the decoder reads a simulated APDU at offset a.                     *)
(***************************************************************************)
InsideAt(s, a) == a + Lead(InsideOf(s))

OuterLayout(s, a) ==
    /\ HasTLV(a, EndOf(s, a)) /\ Content(a) = Slice(InsideAt(s, a), EndOf(s, a))
    /\ StartsWith(Slice(InsideAt(s, a), EndOf(s, a)), {128})
    /\ Content(InsideAt(s, a)) = Slice(InsideAt(s, a) + 2, GroupAt(s, a))
    /\ IsInteger32(Slice(InsideAt(s, a) + 2, GroupAt(s, a)))
    /\ Number(DecodeInteger32(Slice(InsideAt(s, a) + 2, GroupAt(s, a)))) = 1
    /\ StartsWith(Slice(GroupAt(s, a), EndOf(s, a)), {162, 48})
    /\ Content(GroupAt(s, a)) = Slice(GroupLo(s, a), EndOf(s, a))
    /\ B(GroupLo(s, a)) = 48
    /\ StartsWith(Slice(GroupLo(s, a), EndOf(s, a)), {48})
    /\ Content(GroupLo(s, a)) = Slice(BoxLo(s, a), EndOf(s, a))
    /\ AfterTLV(GroupLo(s, a)) = EndOf(s, a)

FieldLayout(s, a) ==
    LET b == BoxLo(s, a)
        e == EndOf(s, a)
    IN  /\ HasTLV(b, e) /\ B(b) = 128 /\ AfterTLV(b) = b + 10
        /\ HasTLV(b + 10, e) /\ B(b + 10) = 130 /\ AfterTLV(b + 10) = b + 16
        /\ IsInteger32(Content(b + 10)) /\ DecodeInteger32(Content(b + 10)) = s.cnt
        /\ HasTLV(b + 16, e) /\ B(b + 16) = 131 /\ AfterTLV(b + 16) = b + 22
        /\ HasTLV(b + 22, e) /\ B(b + 22) = 133 /\ AfterTLV(b + 22) = b + 25
        /\ HasTLV(b + 25, e) /\ B(b + 25) = 135 /\ AfterTLV(b + 25) = e
        /\ Content(b + 25) = Slice(DataLo(s, a), e)
        /\ Reads(DataLo(s, a), DataOf(s), e)

OffsetLayout(s, a) ==
    /\ EndOf(s, a) \in Nat /\ GroupLo(s, a) \in Nat /\ BoxLo(s, a) \in Nat /\ DataLo(s, a) \in Nat
    /\ a < GroupLo(s, a) /\ GroupLo(s, a) < BoxLo(s, a) /\ BoxLo(s, a) + 25 < DataLo(s, a)
    /\ s.n \in Nat \ {0} /\ EndOf(s, a) = DataLo(s, a) + 8 * s.n

Layout(s, a) == OuterLayout(s, a) /\ FieldLayout(s, a) /\ OffsetLayout(s, a)

\* The number of ASDUs, and the fields of the one ASDU before its samples.
LEMMA CountRead ==
    ASSUME NEW p \in Nat, NEW e \in Nat, Reads(p, TLV(128, << 1 >>), e), p + 3 <= e
    PROVE  /\ p < e /\ HasTLV(p, e) /\ B(p) = 128 /\ Content(p) = Slice(p + 2, p + 3)
           /\ IsInteger32(Slice(p + 2, p + 3))
           /\ Number(DecodeInteger32(Slice(p + 2, p + 3))) = 1
<1> DEFINE one == <<1>>
<1>1. one \in Seq(Byte) /\ Len(one) = 1
  BY SmallContents
<1>2. Reads(p, TLV(128, one), e)
  OBVIOUS
<1> HIDE DEF one
<1>0. one \in ShortContents
  BY SmallContents DEF one
<1>3. p + (2 + Len(one)) = p + 3
  BY <1>1
<1>4. /\ p < e /\ HasTLV(p, e) /\ B(p) = 128 /\ Content(p) = Slice(p + 2, p + 3)
      /\ Reads(p + 2, one, e)
  <2> DEFINE T == TLV(128, one)
  <2>1. Len(T) = 2 + Len(one) /\ Lead(one) = 2 /\ one \in Contents
    BY <1>0, BytesAre, ShortTLV
  <2>2. p + Len(T) = p + 3 /\ p + Len(T) <= e
    BY <1>3, <2>1
  <2>3. /\ p < e /\ HasTLV(p, e) /\ B(p) = 128
        /\ Content(p) = Slice(p + Lead(one), p + Len(T)) /\ Reads(p + Lead(one), one, e)
    BY <1>1, <1>2, <2>1, <2>2, BytesAre, FieldTLV
  <2> QED
    BY <2>1, <2>2, <2>3
<1> DEFINE n == p + 2
<1>5. n \in Nat /\ n + 1 = p + 3 /\ n + 1 <= e /\ Reads(n, <<1>>, e)
  BY <1>4 DEF one
<1> HIDE DEF n
<1>6. IsInteger32(Slice(n, n + 1)) /\ Number(DecodeInteger32(Slice(n, n + 1))) = 1
  BY <1>5, OneRead
<1> QED
  BY <1>4, <1>5, <1>6 DEF n

LEMMA FieldsRead ==
    ASSUME NEW b \in Nat, NEW e \in Nat, NEW w \in Word, b + 25 <= e,
           Reads(b, TLV(128, SvID), e), Reads(b + 10, TLV(130, w), e),
           Reads(b + 16, TLV(131, <<0, 0, 0, 1>>), e), Reads(b + 22, TLV(133, << 1 >>), e)
    PROVE  /\ HasTLV(b, e) /\ B(b) = 128 /\ AfterTLV(b) = b + 10
           /\ HasTLV(b + 10, e) /\ B(b + 10) = 130 /\ AfterTLV(b + 10) = b + 16
           /\ IsInteger32(Content(b + 10)) /\ DecodeInteger32(Content(b + 10)) = w
           /\ HasTLV(b + 16, e) /\ B(b + 16) = 131 /\ AfterTLV(b + 16) = b + 22
           /\ HasTLV(b + 22, e) /\ B(b + 22) = 133 /\ AfterTLV(b + 22) = b + 25
<1> DEFINE one == <<1>>
           rev == <<0, 0, 0, 1>>
           n2  == b + 10
           n3  == b + 16
           n4  == b + 22
           m   == n2 + 2
<1>1. /\ SvID \in Seq(Byte) /\ Len(SvID) = 8 /\ rev \in Seq(Byte) /\ Len(rev) = 4
      /\ one \in Seq(Byte) /\ Len(one) = 1
  BY SmallContents
<1>2. w \in Seq(Byte) /\ Len(w) = 4
  BY WordIsSeq
<1>0. /\ SvID \in ShortContents /\ w \in ShortContents /\ rev \in ShortContents
      /\ one \in ShortContents
  BY SmallContents, WordIsSeq
<1>3. n2 \in Nat /\ n3 \in Nat /\ n4 \in Nat /\ m \in Nat
  OBVIOUS
<1>4. Reads(n2, TLV(130, w), e) /\ Reads(n3, TLV(131, rev), e) /\ Reads(n4, TLV(133, one), e)
  OBVIOUS
<1> HIDE DEF one, rev
<1>5. /\ b + (2 + Len(SvID)) = n2 /\ n2 + (2 + Len(w)) = n3 /\ n3 + (2 + Len(rev)) = n4
      /\ n4 + (2 + Len(one)) = b + 25
  BY <1>1, <1>2
<1>6. /\ n2 <= e /\ n3 <= e /\ n4 <= e
      /\ m + 4 <= e /\ n3 = m + 4
  BY <1>1, <1>2
<1> HIDE DEF n2, n3, n4
<1>7. /\ HasTLV(b, e) /\ B(b) = 128 /\ AfterTLV(b) = n2
      /\ Content(b) = Slice(b + 2, n2) /\ Reads(b + 2, SvID, e)
  <2> DEFINE T == TLV(128, SvID)
  <2>1. Len(T) = 2 + Len(SvID) /\ Lead(SvID) = 2 /\ SvID \in Contents
    BY <1>0, BytesAre, ShortTLV
  <2>2. b + Len(T) = n2 /\ b + Len(T) <= e /\ Reads(b, T, e)
    BY <1>5, <1>6, <2>1
  <2>3. /\ 128 \in Byte /\ SvID \in Contents /\ b \in Nat
        /\ b + Len(T) <= e /\ Reads(b, T, e)
    BY <2>1, <2>2, BytesAre
  <2>4. /\ HasTLV(b, e) /\ B(b) = 128 /\ AfterTLV(b) = b + Len(T)
        /\ Content(b) = Slice(b + Lead(SvID), b + Len(T)) /\ Reads(b + Lead(SvID), SvID, e)
    BY <2>3, FieldTLV
  <2> QED
    BY <2>1, <2>2, <2>4
<1>8. /\ HasTLV(n2, e) /\ B(n2) = 130 /\ AfterTLV(n2) = n3
      /\ Content(n2) = Slice(n2 + 2, n3) /\ Reads(n2 + 2, w, e)
  <2> DEFINE T == TLV(130, w)
  <2>1. Len(T) = 2 + Len(w) /\ Lead(w) = 2 /\ w \in Contents
    BY <1>0, BytesAre, ShortTLV
  <2>2. n2 + Len(T) = n3 /\ n2 + Len(T) <= e /\ Reads(n2, T, e)
    BY <1>4, <1>5, <1>6, <2>1
  <2>3. /\ 130 \in Byte /\ w \in Contents /\ n2 \in Nat
        /\ n2 + Len(T) <= e /\ Reads(n2, T, e)
    BY <1>3, <2>1, <2>2, BytesAre
  <2>4. /\ HasTLV(n2, e) /\ B(n2) = 130 /\ AfterTLV(n2) = n2 + Len(T)
        /\ Content(n2) = Slice(n2 + Lead(w), n2 + Len(T)) /\ Reads(n2 + Lead(w), w, e)
    BY <2>3, FieldTLV
  <2> QED
    BY <2>1, <2>2, <2>4
<1>9. /\ HasTLV(n3, e) /\ B(n3) = 131 /\ AfterTLV(n3) = n4
      /\ Content(n3) = Slice(n3 + 2, n4) /\ Reads(n3 + 2, rev, e)
  <2> DEFINE T == TLV(131, rev)
  <2>1. Len(T) = 2 + Len(rev) /\ Lead(rev) = 2 /\ rev \in Contents
    BY <1>0, BytesAre, ShortTLV
  <2>2. n3 + Len(T) = n4 /\ n3 + Len(T) <= e /\ Reads(n3, T, e)
    BY <1>4, <1>5, <1>6, <2>1
  <2>3. /\ 131 \in Byte /\ rev \in Contents /\ n3 \in Nat
        /\ n3 + Len(T) <= e /\ Reads(n3, T, e)
    BY <1>3, <2>1, <2>2, BytesAre
  <2>4. /\ HasTLV(n3, e) /\ B(n3) = 131 /\ AfterTLV(n3) = n3 + Len(T)
        /\ Content(n3) = Slice(n3 + Lead(rev), n3 + Len(T)) /\ Reads(n3 + Lead(rev), rev, e)
    BY <2>3, FieldTLV
  <2> QED
    BY <2>1, <2>2, <2>4
<1>10. /\ HasTLV(n4, e) /\ B(n4) = 133 /\ AfterTLV(n4) = b + 25
      /\ Content(n4) = Slice(n4 + 2, b + 25) /\ Reads(n4 + 2, one, e)
  <2> DEFINE T == TLV(133, one)
  <2>1. Len(T) = 2 + Len(one) /\ Lead(one) = 2 /\ one \in Contents
    BY <1>0, BytesAre, ShortTLV
  <2>2. n4 + Len(T) = b + 25 /\ n4 + Len(T) <= e /\ Reads(n4, T, e)
    BY <1>4, <1>5, <1>6, <2>1
  <2>3. /\ 133 \in Byte /\ one \in Contents /\ n4 \in Nat
        /\ n4 + Len(T) <= e /\ Reads(n4, T, e)
    BY <1>3, <2>1, <2>2, BytesAre
  <2>4. /\ HasTLV(n4, e) /\ B(n4) = 133 /\ AfterTLV(n4) = n4 + Len(T)
        /\ Content(n4) = Slice(n4 + Lead(one), n4 + Len(T)) /\ Reads(n4 + Lead(one), one, e)
    BY <2>3, FieldTLV
  <2> QED
    BY <2>1, <2>2, <2>4
<1>11. Content(n2) = Slice(m, m + 4) /\ Reads(m, w, e)
  BY <1>6, <1>8
<1> HIDE DEF m
<1>12. IsInteger32(Slice(m, m + 4)) /\ DecodeInteger32(Slice(m, m + 4)) = w
  BY <1>3, <1>6, <1>11, WordRead
<1>13. IsInteger32(Content(n2)) /\ DecodeInteger32(Content(n2)) = w
  BY <1>11, <1>12
<1> QED
  BY <1>7, <1>8, <1>9, <1>10, <1>13 DEF n2, n3, n4

LEMMA StartsIs ==
    ASSUME NEW lo, NEW hi, NEW tags, lo < hi, B(lo) \in tags, HasTLV(lo, hi)
    PROVE  StartsWith(Slice(lo, hi), tags)
BY DEF StartsWith, Slice

LEMMA LayoutHolds ==
    ASSUME NEW s, Simulation(s), NEW a \in Nat, Reads(a, APDUOf(s), EndOf(s, a))
    PROVE  Layout(s, a)
<1> DEFINE d == DataOf(s)
           A == ASDUOf(s)
           x == BoxOf(s)
           g == GroupOf(s)
           o == TLV(128, <<1>>)
           y == InsideOf(s)
           e == EndOf(s, a)
           p == InsideAt(s, a)
           q == GroupAt(s, a)
           r == GroupLo(s, a)
           b == BoxLo(s, a)
           t == DataLo(s, a)
           apdu == APDUOf(s)
<1>1. /\ d \in Seq(Byte) /\ A \in Seq(Byte) /\ x \in Seq(Byte) /\ g \in Seq(Byte)
      /\ o \in Seq(Byte) /\ y \in Seq(Byte) /\ apdu \in Seq(Byte)
      /\ Len(d) <= MaxLength /\ Len(A) <= MaxLength /\ Len(x) <= MaxLength
      /\ Len(y) <= MaxLength
  BY SizesIs
<1>2. /\ Lead(d) \in 2 .. 4 /\ Lead(A) \in 2 .. 4 /\ Lead(x) \in 2 .. 4 /\ Lead(y) \in 2 .. 4
      /\ s.n \in Nat \ {0} /\ Len(o) = 3
      /\ Len(d) = 8 * s.n /\ Len(A) = 25 + Lead(d) + 8 * s.n
      /\ Len(x) = Lead(A) + Len(A) /\ Len(g) = Lead(x) + Len(x) /\ Len(y) = 3 + Len(g)
      /\ Len(apdu) = Lead(y) + Len(y)
  BY SizesIs
<1>3. /\ e = a + Len(apdu) /\ p = a + Lead(y) /\ q = p + 3 /\ r = q + Lead(x)
      /\ b = r + Lead(A) /\ t = b + 25 + Lead(d)
  BY DEF EndOf, InsideAt, GroupAt, GroupLo, BoxLo, DataLo
<1>4. apdu = TLV(96, y) /\ y = o \o g /\ g = TLV(162, x) /\ x = TLV(48, A)
  BY DEF APDUOf, InsideOf, GroupOf, BoxOf
<1>5. A = Fields(s.cnt, d) /\ s.cnt \in Word
  BY DEF ASDUOf, ASDU, DataOf, Fields, Simulation
<1>6. Reads(a, apdu, e)
  OBVIOUS
<1> HIDE DEF d, A, x, g, o, y, e, p, q, r, b, t, apdu
<1>7. /\ e \in Nat /\ p \in Nat /\ q \in Nat /\ r \in Nat /\ b \in Nat /\ t \in Nat
      /\ a < p /\ p < q /\ q < r /\ r < b /\ b + 25 < t /\ b + 25 <= e
      /\ e = p + Len(y) /\ e = q + Len(g) /\ e = r + Len(x) /\ e = b + Len(A)
      /\ e = b + 25 + (Lead(d) + Len(d)) /\ e = t + Len(d) /\ e = t + 8 * s.n
  <2> DEFINE ld == Lead(d)
             la == Lead(A)
             lx == Lead(x)
             ly == Lead(y)
             m  == s.n
  <2>1. ld \in 2 .. 4 /\ la \in 2 .. 4 /\ lx \in 2 .. 4 /\ ly \in 2 .. 4 /\ m \in Nat
    BY <1>2
  <2>2. /\ Len(d) = 8 * m /\ Len(A) = 25 + ld + 8 * m /\ Len(x) = la + (25 + ld + 8 * m)
        /\ Len(g) = lx + (la + (25 + ld + 8 * m))
        /\ Len(y) = 3 + (lx + (la + (25 + ld + 8 * m)))
        /\ Len(apdu) = ly + (3 + (lx + (la + (25 + ld + 8 * m))))
    BY <1>2
  <2>3. /\ p = a + ly /\ q = (a + ly) + 3 /\ r = ((a + ly) + 3) + lx
        /\ b = (((a + ly) + 3) + lx) + la /\ t = ((((a + ly) + 3) + lx) + la) + 25 + ld
        /\ e = a + (ly + (3 + (lx + (la + (25 + ld + 8 * m)))))
    BY <1>3, <2>2
  <2> HIDE DEF ld, la, lx, ly, m
  <2>4. /\ e \in Nat /\ p \in Nat /\ q \in Nat /\ r \in Nat /\ b \in Nat /\ t \in Nat
    BY <2>1, <2>3
  <2>5. a < p /\ p < q /\ q < r /\ r < b /\ b + 25 < t /\ b + 25 <= e
    BY <2>1, <2>3
  <2>6. e = p + Len(y) /\ e = q + Len(g)
    BY <2>1, <2>2, <2>3
  <2>7. e = r + Len(x) /\ e = b + Len(A)
    BY <2>1, <2>2, <2>3
  <2>8. e = b + 25 + (ld + Len(d)) /\ e = t + Len(d) /\ e = t + 8 * m
    BY <2>1, <2>2, <2>3
  <2> QED
    BY <2>4, <2>5, <2>6, <2>7, <2>8 DEF ld, m
<1>8. /\ HasTLV(a, e) /\ Content(a) = Slice(p, e) /\ Reads(p, y, e)
  <2>1. /\ e \in Nat /\ y \in Seq(Byte) /\ Len(y) <= MaxLength
        /\ Reads(a, TLV(96, y), e) /\ e = a + Len(TLV(96, y))
    BY <1>1, <1>3, <1>4, <1>6, <1>7
  <2>2. /\ HasTLV(a, e) /\ Content(a) = Slice(a + Lead(y), e) /\ Reads(a + Lead(y), y, e)
    BY <2>1, BytesAre, LastTLV
  <2> QED
    BY <1>3, <2>2
<1>9. Reads(p, o, e) /\ Reads(q, g, e)
  <2>1. /\ Reads(p, o \o g, e) /\ p \in Nat /\ e \in Nat
        /\ o \in Seq(Byte) /\ g \in Seq(Byte)
    BY <1>1, <1>4, <1>7, <1>8
  <2>2. Reads(p, o, e) /\ Reads(p + Len(o), g, e)
    BY <2>1, ReadsParts
  <2> QED
    BY <1>2, <1>3, <2>2
<1>10. /\ p < e /\ HasTLV(p, e) /\ B(p) = 128 /\ Content(p) = Slice(p + 2, q)
       /\ IsInteger32(Slice(p + 2, q)) /\ Number(DecodeInteger32(Slice(p + 2, q))) = 1
  <2>1. p \in Nat /\ e \in Nat /\ Reads(p, TLV(128, <<1>>), e)
    BY <1>7, <1>9 DEF o
  <2>2. q = p + 3 /\ p + 3 <= e
    <3>1. q \in Nat /\ q < r /\ r \in Nat /\ r < b /\ b \in Nat /\ b + 25 <= e /\ q = p + 3
      BY <1>3, <1>7
    <3> QED
      BY <2>1, <3>1
  <2> QED
    BY <2>1, <2>2, CountRead
<1>12. /\ q < e /\ HasTLV(q, e) /\ B(q) = 162 /\ Content(q) = Slice(r, e) /\ Reads(r, x, e)
  <2>1. /\ q \in Nat /\ e \in Nat /\ x \in Seq(Byte) /\ Len(x) <= MaxLength
        /\ e = q + Len(TLV(162, x)) /\ Reads(q, TLV(162, x), e)
    BY <1>1, <1>4, <1>7, <1>9
  <2>2. /\ q < e /\ HasTLV(q, e) /\ B(q) = 162 /\ Content(q) = Slice(q + Lead(x), e)
        /\ Reads(q + Lead(x), x, e)
    BY <2>1, BytesAre, LastTLV
  <2> QED
    BY <1>3, <2>2
<1>13. /\ r < e /\ HasTLV(r, e) /\ B(r) = 48 /\ AfterTLV(r) = e
       /\ Content(r) = Slice(b, e) /\ Reads(b, A, e)
  <2>1. /\ r \in Nat /\ e \in Nat /\ A \in Seq(Byte) /\ Len(A) <= MaxLength
        /\ e = r + Len(TLV(48, A)) /\ Reads(r, TLV(48, A), e)
    BY <1>1, <1>4, <1>7, <1>12
  <2>2. /\ r < e /\ HasTLV(r, e) /\ B(r) = 48 /\ AfterTLV(r) = e
        /\ Content(r) = Slice(r + Lead(A), e) /\ Reads(r + Lead(A), A, e)
    BY <2>1, BytesAre, LastTLV
  <2> QED
    BY <1>3, <2>2
<1>14. OuterLayout(s, a)
  <2>1. /\ StartsWith(Slice(p, e), {128}) /\ StartsWith(Slice(q, e), {162, 48})
        /\ StartsWith(Slice(r, e), {48})
    BY <1>10, <1>12, <1>13, StartsIs
  <2> QED
    BY <1>8, <1>10, <1>12, <1>13, <2>1 DEF OuterLayout, e, p, q, r, b
<1>15. /\ Reads(b, TLV(128, SvID), e) /\ Reads(b + 10, TLV(130, s.cnt), e)
       /\ Reads(b + 16, TLV(131, <<0, 0, 0, 1>>), e) /\ Reads(b + 22, TLV(133, <<1>>), e)
       /\ Reads(b + 25, TLV(135, d), e)
  <2>1. /\ Reads(b, Fields(s.cnt, d), e) /\ b \in Nat /\ e \in Nat
        /\ s.cnt \in Word /\ d \in Seq(Byte) /\ Len(d) <= MaxLength
    BY <1>1, <1>5, <1>7, <1>13
  <2> QED
    BY <2>1, FieldsIs
<1>16. /\ HasTLV(b, e) /\ B(b) = 128 /\ AfterTLV(b) = b + 10
       /\ HasTLV(b + 10, e) /\ B(b + 10) = 130 /\ AfterTLV(b + 10) = b + 16
       /\ IsInteger32(Content(b + 10)) /\ DecodeInteger32(Content(b + 10)) = s.cnt
       /\ HasTLV(b + 16, e) /\ B(b + 16) = 131 /\ AfterTLV(b + 16) = b + 22
       /\ HasTLV(b + 22, e) /\ B(b + 22) = 133 /\ AfterTLV(b + 22) = b + 25
  <2>1. b \in Nat /\ e \in Nat /\ b + 25 <= e /\ s.cnt \in Word
    BY <1>5, <1>7
  <2> QED
    BY <1>15, <2>1, FieldsRead
<1>21. /\ HasTLV(b + 25, e) /\ B(b + 25) = 135 /\ AfterTLV(b + 25) = e
       /\ Content(b + 25) = Slice(t, e) /\ Reads(t, d, e)
  <2>1. b + 25 \in Nat /\ (b + 25) + Lead(d) = t /\ e = (b + 25) + Len(TLV(135, d))
    <3>1. Len(TLV(135, d)) = Lead(d) + Len(d)
      BY <1>1, BytesAre, TLVIs
    <3>2. b \in Nat /\ t = b + 25 + Lead(d) /\ e = b + 25 + (Lead(d) + Len(d))
      BY <1>3, <1>7
    <3> QED
      BY <3>1, <3>2
  <2>2. /\ HasTLV(b + 25, e) /\ B(b + 25) = 135 /\ AfterTLV(b + 25) = e
        /\ Content(b + 25) = Slice((b + 25) + Lead(d), e) /\ Reads((b + 25) + Lead(d), d, e)
    <3> DEFINE n == b + 25
    <3>1. /\ d \in Seq(Byte) /\ Len(d) <= MaxLength /\ e \in Nat /\ n \in Nat
          /\ Reads(n, TLV(135, d), e) /\ e = n + Len(TLV(135, d)) /\ 135 \in Byte
      BY <1>1, <1>7, <1>15, <2>1, BytesAre
    <3> HIDE DEF n
    <3>2. /\ HasTLV(n, e) /\ B(n) = 135 /\ AfterTLV(n) = e
          /\ Content(n) = Slice(n + Lead(d), e) /\ Reads(n + Lead(d), d, e)
      BY <3>1, LastTLV
    <3> QED
      BY <3>2 DEF n
  <2> QED
    BY <2>1, <2>2
<1>22. FieldLayout(s, a)
  BY <1>16, <1>21 DEF FieldLayout, b, e, t, d
<1>23. OffsetLayout(s, a)
  <2>1. a < r /\ s.n \in Nat \ {0}
    BY <1>2, <1>7
  <2> QED
    BY <1>7, <2>1 DEF OffsetLayout, e, r, b, t
<1> QED
  BY <1>14, <1>22, <1>23 DEF Layout

(***************************************************************************)
(* The headers of a simulated frame.                                       *)
(***************************************************************************)
LEMMA FrameIs ==
    ASSUME NEW s, Simulation(s)
    PROVE  /\ APDUOf(s) \in Seq(Byte) /\ Len(APDUOf(s)) \in Nat
           /\ FrameOf(s) \in Seq(Byte) /\ Len(FrameOf(s)) = 22 + Len(APDUOf(s))
           /\ FrameOf(s)[13] = 136 /\ FrameOf(s)[14] = 186
           /\ \A k \in 1 .. Len(APDUOf(s)) : FrameOf(s)[22 + k] = APDUOf(s)[k]
<1> DEFINE E == EthernetHeader
           P == APDUOf(s)
           H == SVHeader(P)
           u == E \o H
           F == u \o P
<1>1. P \in Seq(Byte) /\ Len(P) \in Nat
  <2>1. P \in Seq(Byte)
    BY SizesIs
  <2> HIDE DEF P
  <2> QED
    BY <2>1
<1>2. E \in Seq(Byte) /\ Len(E) = 14 /\ E[13] = 136 /\ E[14] = 186
  BY DEF EthernetHeader, Byte
<1>3. FrameOf(s) = F
  BY DEF FrameOf
<1> HIDE DEF P, E
<1>4. H \in Seq(Byte) /\ Len(H) = 8
  <2> DEFINE p == Len(P)
             h == (p \div 256) % 256
             l == p % 256
  <2>1. p \in Nat
    BY <1>1
  <2>2. H = <<0, 1, h, l, 0, 0, 0, 0>>
    BY DEF SVHeader
  <2> HIDE DEF p
  <2>3. h \in Byte /\ l \in Byte /\ 0 \in Byte /\ 1 \in Byte
    BY <2>1 DEF Byte
  <2> HIDE DEF h, l
  <2> QED
    BY <2>2, <2>3
<1> HIDE DEF H
<1>5. /\ u \in Seq(Byte) /\ Len(u) = Len(E) + Len(H)
      /\ \A j \in 1 .. Len(E) + Len(H) : u[j] = IF j <= Len(E) THEN E[j] ELSE H[j - Len(E)]
  <2>1. E \in Seq(Byte) /\ H \in Seq(Byte)
    BY <1>2, <1>4
  <2> QED
    BY <2>1, ConcatProperties
<1>6. Len(u) = 22 /\ u[13] = 136 /\ u[14] = 186
  <2>1. Len(E) + Len(H) = 22 /\ 13 <= Len(E) /\ 14 <= Len(E)
    BY <1>2, <1>4
  <2>2. 13 \in 1 .. Len(E) + Len(H) /\ 14 \in 1 .. Len(E) + Len(H)
    BY <2>1
  <2> QED
    BY <1>2, <1>5, <2>1, <2>2
<1>7. /\ F \in Seq(Byte) /\ Len(F) = Len(u) + Len(P)
      /\ \A j \in 1 .. Len(u) + Len(P) : F[j] = IF j <= Len(u) THEN u[j] ELSE P[j - Len(u)]
  <2>1. u \in Seq(Byte)
    BY <1>5
  <2> HIDE DEF u
  <2> QED
    BY <1>1, <2>1, ConcatProperties
<1> HIDE DEF F, u
<1>8. F[13] = 136 /\ F[14] = 186
  <2>1. 13 \in 1 .. Len(u) + Len(P) /\ 14 \in 1 .. Len(u) + Len(P)
    BY <1>1, <1>6
  <2>2. 13 <= Len(u) /\ 14 <= Len(u)
    BY <1>6
  <2> QED
    BY <1>6, <1>7, <2>1, <2>2
<1>9. ASSUME NEW k \in 1 .. Len(P) PROVE F[22 + k] = P[k]
  <2> DEFINE j == 22 + k
  <2>1. j \in 1 .. Len(u) + Len(P) /\ ~ (j <= Len(u)) /\ j - Len(u) = k
    BY <1>1, <1>6
  <2> HIDE DEF j
  <2>2. F[j] = P[k]
    BY <1>7, <2>1
  <2> QED
    BY <2>2 DEF j
<1>10. Len(F) = 22 + Len(P)
  BY <1>6, <1>7
<1> QED
  BY <1>1, <1>3, <1>7, <1>8, <1>9, <1>10 DEF P

\* A simulated frame, or the beginning of one.
LEMMA PlainHeaders ==
    ASSUME NEW s, Simulation(s), frame \in Seq(Byte), Reads(0, FrameOf(s), Len(frame))
    PROVE  /\ Reads(22, APDUOf(s), Len(frame))
           /\ Len(frame) >= 14 => HeaderEnd = 14
           /\ Len(frame) >= 22 => HeadersOK
           /\ Len(FrameOf(s)) = EndOf(s, 22)
<1> DEFINE F == FrameOf(s)
           P == APDUOf(s)
           L == Len(frame)
<1>1. /\ P \in Seq(Byte) /\ Len(P) \in Nat /\ F \in Seq(Byte) /\ Len(F) = 22 + Len(P)
      /\ F[13] = 136 /\ F[14] = 186 /\ \A k \in 1 .. Len(P) : F[22 + k] = P[k]
  BY FrameIs
<1>2. L \in Nat /\ Reads(0, F, L)
  BY LenProperties
<1>3. EndOf(s, 22) = Len(F)
  BY <1>1 DEF EndOf
<1> HIDE DEF F, P, L
<1>4. ASSUME NEW k \in 1 .. Len(F), k <= L PROVE B(k - 1) = F[k]
  <2>1. 0 + k - 1 = k - 1 /\ 0 + k - 1 < L
    BY <1>1, <1>2, <1>4
  <2> QED
    BY <1>2, <1>4, <2>1 DEF Reads
<1>5. ASSUME NEW k \in 1 .. Len(P), 22 + k - 1 < L PROVE B(22 + k - 1) = P[k]
  <2> DEFINE j == 22 + k
  <2>1. j \in 1 .. Len(F) /\ j <= L /\ j - 1 = 22 + k - 1
    BY <1>1, <1>2, <1>5
  <2>2. F[j] = P[k]
    BY <1>1
  <2> HIDE DEF j
  <2>3. B(j - 1) = F[j]
    BY <1>4, <2>1
  <2> QED
    BY <2>1, <2>2, <2>3
<1>6. L >= 14 => B(12) = 136 /\ B(13) = 186
  <2>1. 13 \in 1 .. Len(F) /\ 14 \in 1 .. Len(F) /\ 13 - 1 = 12 /\ 14 - 1 = 13
    BY <1>1
  <2>2. L >= 14 => 13 <= L /\ 14 <= L
    BY <1>2
  <2> QED
    BY <1>1, <1>4, <2>1, <2>2
<1>7. L >= 14 => HeaderEnd = 14
  BY <1>6 DEF HeaderEnd, Tagged, EtherType
<1>8. L >= 22 => HeadersOK
  <2>1. L >= 22 => L >= 14 /\ L - 14 >= 8
    BY <1>2
  <2>2. EtherType(14 - 2) = <<B(12), B(13)>>
    BY DEF EtherType
  <2> QED
    BY <1>6, <1>7, <2>1, <2>2 DEF HeadersOK, L
<1>9. Reads(22, P, L)
  BY <1>5 DEF Reads
<1> QED
  BY <1>3, <1>7, <1>8, <1>9 DEF P, F, L

LEMMA VlanHeaders ==
    ASSUME NEW s, Simulation(s), frame = WithVlan(FrameOf(s))
    PROVE  /\ Reads(26, APDUOf(s), Len(frame))
           /\ HeaderEnd = 18 /\ HeadersOK
           /\ Len(frame) = EndOf(s, 26)
<1> DEFINE F == FrameOf(s)
           P == APDUOf(s)
           L == Len(frame)
           h == SubSeq(F, 1, 12)
           v == <<129, 0, 0, 1>>
           t == SubSeq(F, 13, Len(F))
           m == Len(F)
<1>1. /\ P \in Seq(Byte) /\ Len(P) \in Nat /\ F \in Seq(Byte) /\ m = 22 + Len(P)
      /\ F[13] = 136 /\ F[14] = 186 /\ \A k \in 1 .. Len(P) : F[22 + k] = P[k]
  BY FrameIs
<1>2. EndOf(s, 26) = 26 + Len(P)
  BY DEF EndOf
<1>3. frame = (h \o v) \o t
  BY DEF WithVlan
<1> HIDE DEF F, P
<1>4. h \in Seq(Byte) /\ Len(h) = 12
  <2>1. 12 <= m /\ m \in Nat
    BY <1>1
  <2> QED
    BY <1>1, <2>1, SubSeqProperties
<1>5. v \in Seq(Byte) /\ Len(v) = 4 /\ v[1] = 129 /\ v[2] = 0
  BY DEF Byte
<1>6. t \in Seq(Byte) /\ Len(t) = 10 + Len(P) /\ \A j \in 1 .. 10 + Len(P) : t[j] = F[12 + j]
  <2>1. m \in Nat /\ 13 <= m /\ m - 13 + 1 = 10 + Len(P)
    BY <1>1
  <2>2. /\ t \in Seq(Byte) /\ Len(t) = IF 13 <= m THEN m - 13 + 1 ELSE 0
        /\ \A j \in 1 .. m - 13 + 1 : t[j] = F[13 + j - 1]
    BY <1>1, <2>1, SubSeqProperties
  <2>3. \A j \in 1 .. 10 + Len(P) : 13 + j - 1 = 12 + j
    OBVIOUS
  <2> QED
    BY <2>1, <2>2, <2>3
<1> HIDE DEF h, v, t, m
<1>7. h \o v \in Seq(Byte) /\ Len(h \o v) = 16
  <2>1. h \in Seq(Byte) /\ v \in Seq(Byte)
    BY <1>4, <1>5
  <2>2. h \o v \in Seq(Byte) /\ Len(h \o v) = Len(h) + Len(v)
    BY <2>1, Joined
  <2> QED
    BY <1>4, <1>5, <2>2
<1>8. frame \in Seq(Byte) /\ L = 26 + Len(P) /\ L \in Nat
  <2>1. (h \o v) \o t \in Seq(Byte) /\ Len((h \o v) \o t) = Len(h \o v) + Len(t)
    BY <1>6, <1>7, Joined
  <2> QED
    BY <1>1, <1>3, <1>6, <1>7, <2>1
<1>9. Reads(0, (h \o v) \o t, L)
  <2>1. ASSUME NEW k \in 1 .. Len(frame) PROVE B(0 + k - 1) = frame[k]
    BY DEF B
  <2> QED
    BY <1>3, <2>1 DEF Reads
<1> HIDE DEF L
<1>10. Reads(0, h \o v, L) /\ Reads(16, t, L)
  <2>1. Reads(0, h \o v, L) /\ Reads(0 + Len(h \o v), t, L)
    BY <1>6, <1>7, <1>8, <1>9, ReadsParts
  <2> QED
    BY <1>7, <2>1
<1>11. Reads(12, v, L)
  <2>1. h \in Seq(Byte) /\ v \in Seq(Byte) /\ L \in Nat /\ 0 \in Nat
    BY <1>4, <1>5, <1>8
  <2>2. Reads(0 + Len(h), v, L)
    BY <1>10, <2>1, ReadsParts
  <2> QED
    BY <1>4, <2>2
<1>12. B(12) = 129 /\ B(13) = 0
  <2>1. /\ 1 \in 1 .. Len(v) /\ 2 \in 1 .. Len(v) /\ 12 + 1 - 1 = 12 /\ 12 + 2 - 1 = 13
        /\ 12 + 1 - 1 < L /\ 12 + 2 - 1 < L
    BY <1>1, <1>5, <1>8
  <2> QED
    BY <1>5, <1>11, <2>1 DEF Reads
<1>13. ASSUME NEW j \in 1 .. 10 + Len(P) PROVE B(16 + j - 1) = F[12 + j]
  <2>1. j \in 1 .. Len(t) /\ 16 + j - 1 < L
    BY <1>1, <1>6, <1>8
  <2> QED
    BY <1>6, <1>10, <2>1 DEF Reads
<1>14. B(16) = 136 /\ B(17) = 186
  <2>1. /\ 1 \in 1 .. 10 + Len(P) /\ 2 \in 1 .. 10 + Len(P)
        /\ 16 + 1 - 1 = 16 /\ 16 + 2 - 1 = 17 /\ 12 + 1 = 13 /\ 12 + 2 = 14
    BY <1>1
  <2> QED
    BY <1>1, <1>13, <2>1
<1>15. HeaderEnd = 18
  <2>1. Tagged
    BY <1>12 DEF Tagged, EtherType
  <2> QED
    BY <2>1 DEF HeaderEnd
<1>16. HeadersOK
  <2>1. L >= 14 /\ L >= 18 /\ L - 18 >= 8
    BY <1>1, <1>8
  <2>2. EtherType(18 - 2) = <<B(16), B(17)>>
    BY DEF EtherType
  <2> QED
    BY <1>14, <1>15, <2>1, <2>2 DEF HeadersOK, L
<1>17. Reads(26, P, L)
  <2>1. ASSUME NEW k \in 1 .. Len(P) PROVE B(26 + k - 1) = P[k]
    <3> DEFINE j == 10 + k
    <3>1. j \in 1 .. 10 + Len(P) /\ 16 + j - 1 = 26 + k - 1 /\ 12 + j = 22 + k
      BY <1>1
    <3> HIDE DEF j
    <3>2. B(16 + j - 1) = F[12 + j]
      BY <1>13, <3>1
    <3> QED
      BY <1>1, <3>1, <3>2
  <2> QED
    BY <2>1 DEF Reads
<1> QED
  BY <1>2, <1>8, <1>15, <1>16, <1>17 DEF P, L

(***************************************************************************)
(* Sample numbers.                                                         *)
(***************************************************************************)
LEMMA Carry ==
    ASSUME NEW x \in Nat, NEW k \in Nat
    PROVE  /\ ((x % 256) + k) % 256 = (x + k) % 256
           /\ x \div 256 + ((x % 256) + k) \div 256 = (x + k) \div 256
           /\ ((x % 256) + k) \div 256 \in Nat /\ x \div 256 \in Nat
<1> DEFINE q == x \div 256
           r == x % 256
<1>1. q \in Nat /\ r \in Nat /\ r < 256 /\ x = 256 * q + r
  OBVIOUS
<1>2. (r + k) \div 256 \in Nat
  BY <1>1
<1> HIDE DEF q, r
<1>3. (256 * q + r + k) % 256 = (r + k) % 256
  BY <1>1
<1>4. (256 * q + r + k) \div 256 = q + (r + k) \div 256
  BY <1>1
<1>5. x + k = 256 * q + r + k
  BY <1>1
<1> QED
  BY <1>1, <1>2, <1>3, <1>4, <1>5 DEF q, r

\* The sums of the bytes of Plus before the remainder is taken.
Sum4(w, k) == w[4] + k
Sum3(w, k) == w[3] + Sum4(w, k) \div 256
Sum2(w, k) == w[2] + Sum3(w, k) \div 256
Sum1(w, k) == w[1] + Sum2(w, k) \div 256

LEMMA PlusIs ==
    ASSUME NEW w \in Word, NEW k \in Nat
    PROVE  /\ Plus(w, k) \in Word
           /\ \A j \in 1 .. 4 : w[j] \in Nat
           /\ Plus(w, k)[4] = Sum4(w, k) % 256 /\ Plus(w, k)[3] = Sum3(w, k) % 256
           /\ Plus(w, k)[2] = Sum2(w, k) % 256 /\ Plus(w, k)[1] = Sum1(w, k) % 256
<1> DEFINE d == w[4] + k
           c == w[3] + d \div 256
           b == w[2] + c \div 256
           a == w[1] + b \div 256
<1>1. \A j \in 1 .. 4 : w[j] \in Nat
  BY DEF Word, Byte
<1>2. d \in Nat
  BY <1>1
<1> HIDE DEF d
<1>3. c \in Nat
  BY <1>1, <1>2
<1> HIDE DEF c
<1>4. b \in Nat
  BY <1>1, <1>3
<1> HIDE DEF b
<1>5. a \in Nat
  BY <1>1, <1>4
<1> HIDE DEF a
<1>6. Plus(w, k) = <<a % 256, b % 256, c % 256, d % 256>>
  BY DEF Plus, a, b, c, d
<1>7. a % 256 \in Byte /\ b % 256 \in Byte /\ c % 256 \in Byte /\ d % 256 \in Byte
  BY <1>2, <1>3, <1>4, <1>5 DEF Byte
<1> DEFINE a1 == a % 256
           b1 == b % 256
           c1 == c % 256
           d1 == d % 256
<1>8. Plus(w, k) = <<a1, b1, c1, d1>> /\ a1 \in Byte /\ b1 \in Byte /\ c1 \in Byte /\ d1 \in Byte
  BY <1>6, <1>7
<1> HIDE DEF a1, b1, c1, d1
<1>9. /\ Plus(w, k) \in Word /\ Plus(w, k)[1] = a1 /\ Plus(w, k)[2] = b1
      /\ Plus(w, k)[3] = c1 /\ Plus(w, k)[4] = d1
  BY <1>8 DEF Word
<1> QED
  BY <1>1, <1>9 DEF a1, b1, c1, d1, a, b, c, d, Sum1, Sum2, Sum3, Sum4

\* Two words with the same bytes.
LEMMA SameWord ==
    ASSUME NEW v \in Word, NEW w \in Word,
           v[1] = w[1], v[2] = w[2], v[3] = w[3], v[4] = w[4]
    PROVE  v = w
<1>1. v \in [1 .. 4 -> Byte] /\ w \in [1 .. 4 -> Byte]
  BY DEF Word
<1>2. \A j \in 1 .. 4 : v[j] = w[j]
  <2>1. \A j \in 1 .. 4 : j = 1 \/ j = 2 \/ j = 3 \/ j = 4
    OBVIOUS
  <2> QED
    BY <2>1
<1> QED
  BY <1>1, <1>2

LEMMA PlusPlus ==
    ASSUME NEW w \in Word, NEW m \in Nat, NEW k \in Nat
    PROVE  Plus(Plus(w, m), k) = Plus(w, m + k)
<1> DEFINE v  == Plus(w, m)
           d  == w[4] + m
           c  == w[3] + d \div 256
           b  == w[2] + c \div 256
           a  == w[1] + b \div 256
           k3 == ((d % 256) + k) \div 256
           k2 == ((c % 256) + k3) \div 256
           k1 == ((b % 256) + k2) \div 256
<1>1. v \in Word /\ \A j \in 1 .. 4 : w[j] \in Nat
  BY PlusIs
<1>2. v[4] = d % 256 /\ v[3] = c % 256 /\ v[2] = b % 256 /\ v[1] = a % 256
  <2>1. /\ v[4] = Sum4(w, m) % 256 /\ v[3] = Sum3(w, m) % 256
        /\ v[2] = Sum2(w, m) % 256 /\ v[1] = Sum1(w, m) % 256
    BY PlusIs
  <2> QED
    BY <2>1 DEF Sum1, Sum2, Sum3, Sum4
<1>3. /\ Plus(v, k) \in Word
      /\ Plus(v, k)[4] = Sum4(v, k) % 256 /\ Plus(v, k)[3] = Sum3(v, k) % 256
      /\ Plus(v, k)[2] = Sum2(v, k) % 256 /\ Plus(v, k)[1] = Sum1(v, k) % 256
  <2>1. v \in Word
    BY <1>1
  <2> HIDE DEF v
  <2> QED
    BY <2>1, PlusIs
<1> HIDE DEF v
<1>4. /\ Plus(v, k)[4] = ((d % 256) + k) % 256 /\ Plus(v, k)[3] = ((c % 256) + k3) % 256
      /\ Plus(v, k)[2] = ((b % 256) + k2) % 256 /\ Plus(v, k)[1] = ((a % 256) + k1) % 256
  <2>1. Sum4(v, k) = (d % 256) + k
    BY <1>2 DEF Sum4
  <2>2. Sum3(v, k) = (c % 256) + k3
    BY <1>2, <2>1 DEF Sum3
  <2>3. Sum2(v, k) = (b % 256) + k2
    BY <1>2, <2>2 DEF Sum2
  <2>4. Sum1(v, k) = (a % 256) + k1
    BY <1>2, <2>3 DEF Sum1
  <2> QED
    BY <1>3, <2>1, <2>2, <2>3, <2>4
<1>5. d \in Nat /\ w[1] \in Nat /\ w[2] \in Nat /\ w[3] \in Nat
  BY <1>1
<1> HIDE DEF d
<1>6. c \in Nat /\ k3 \in Nat
  BY <1>5, Carry
<1> HIDE DEF c, k3
<1>7. b \in Nat /\ k2 \in Nat
  BY <1>5, <1>6, Carry
<1> HIDE DEF b, k2
<1>8. a \in Nat /\ k1 \in Nat
  BY <1>5, <1>7, Carry
<1> HIDE DEF a, k1
<1>9. /\ ((d % 256) + k) % 256 = (d + k) % 256 /\ d \div 256 + k3 = (d + k) \div 256
  BY <1>5, Carry DEF k3
<1>10. ((c % 256) + k3) % 256 = (c + k3) % 256 /\ c \div 256 + k2 = (c + k3) \div 256
  BY <1>6, Carry DEF k2
<1>11. ((b % 256) + k2) % 256 = (b + k2) % 256 /\ b \div 256 + k1 = (b + k2) \div 256
  BY <1>7, Carry DEF k1
<1>12. ((a % 256) + k1) % 256 = (a + k1) % 256
  BY <1>8, Carry
<1>13. d + k = w[4] + (m + k)
  BY <1>1 DEF d
<1>14. c + k3 = w[3] + (d + k) \div 256
  <2>1. d \div 256 \in Nat
    BY <1>5
  <2> QED
    BY <1>5, <1>6, <1>9, <2>1 DEF c
<1>15. b + k2 = w[2] + (c + k3) \div 256
  <2>1. c \div 256 \in Nat
    BY <1>6
  <2> QED
    BY <1>5, <1>7, <1>10, <2>1 DEF b
<1>16. a + k1 = w[1] + (b + k2) \div 256
  <2>1. b \div 256 \in Nat
    BY <1>7
  <2> QED
    BY <1>5, <1>8, <1>11, <2>1 DEF a
<1> DEFINE u == Plus(w, m + k)
<1>18. /\ u \in Word
       /\ u[4] = Sum4(w, m + k) % 256 /\ u[3] = Sum3(w, m + k) % 256
       /\ u[2] = Sum2(w, m + k) % 256 /\ u[1] = Sum1(w, m + k) % 256
  <2> DEFINE l == m + k
  <2>1. l \in Nat
    OBVIOUS
  <2> HIDE DEF l
  <2>2. /\ Plus(w, l) \in Word
        /\ Plus(w, l)[4] = Sum4(w, l) % 256 /\ Plus(w, l)[3] = Sum3(w, l) % 256
        /\ Plus(w, l)[2] = Sum2(w, l) % 256 /\ Plus(w, l)[1] = Sum1(w, l) % 256
    BY <2>1, PlusIs
  <2> QED
    BY <2>2 DEF l
<1> HIDE DEF u
<1>19. /\ u[4] = (d + k) % 256 /\ u[3] = (c + k3) % 256 /\ u[2] = (b + k2) % 256
       /\ u[1] = (a + k1) % 256
  <2>1. Sum4(w, m + k) = d + k
    BY <1>13 DEF Sum4
  <2>2. Sum3(w, m + k) = c + k3
    BY <1>14, <2>1 DEF Sum3
  <2>3. Sum2(w, m + k) = b + k2
    BY <1>15, <2>2 DEF Sum2
  <2>4. Sum1(w, m + k) = a + k1
    BY <1>16, <2>3 DEF Sum1
  <2> QED
    BY <1>18, <2>1, <2>2, <2>3, <2>4
<1>20. /\ Plus(v, k)[4] = u[4] /\ Plus(v, k)[3] = u[3] /\ Plus(v, k)[2] = u[2]
       /\ Plus(v, k)[1] = u[1]
  BY <1>4, <1>9, <1>10, <1>11, <1>12, <1>19
<1> QED
  BY <1>3, <1>18, <1>20, SameWord DEF u, v

(***************************************************************************)
(* The frames of the batches.                                              *)
(***************************************************************************)
Before(b, n) == (n - 1) * PerFrame(b)

SimulationOf(b, n) ==
    [cnt |-> Plus(b.base, Before(b, n)), n |-> PerFrame(b), phase |-> b.phase + Before(b, n)]

Simulations == UNION {{SimulationOf(b, n) : n \in 1 .. b.n} : b \in Batches}

LEMMA BatchFrame ==
    ASSUME NEW b \in Batches, NEW n \in 1 .. b.n
    PROVE  /\ SimulationOf(b, n) \in Simulations
           /\ Simulated[b][n] = FrameOf(SimulationOf(b, n))
           /\ Before(b, n) \in Nat /\ PerFrame(b) \in Nat /\ b.base \in Word /\ b.phase \in Nat
           /\ Simulation(SimulationOf(b, n))
<1> DEFINE s == SimulationOf(b, n)
<1>1. /\ b.base \in Word /\ b.phase \in Nat /\ b.n \in Nat /\ b.samplesPerFrame \in Int
      /\ 8 * PerFrame(b) + 40 <= MaxLength
  BY BatchesAssumption
<1>2. PerFrame(b) \in Nat \ {0}
  BY <1>1 DEF PerFrame
<1>3. Before(b, n) \in Nat
  <2> DEFINE p == PerFrame(b)
             k == n - 1
  <2>1. p \in Nat /\ k \in Nat
    BY <1>1, <1>2
  <2> HIDE DEF p, k
  <2>2. k * p \in Nat
    BY <2>1
  <2> QED
    BY <2>2 DEF Before, p, k
<1>4. s \in Simulations
  BY DEF Simulations
<1>5. s.cnt = Plus(b.base, Before(b, n)) /\ s.n = PerFrame(b) /\ s.phase = b.phase + Before(b, n)
  BY DEF SimulationOf
<1>6. Simulation(s)
  <2>1. s.cnt \in Word
    BY <1>1, <1>3, <1>5, PlusIs
  <2>2. s.phase \in Nat
    BY <1>1, <1>3, <1>5
  <2> HIDE DEF s
  <2> QED
    BY <1>1, <1>2, <1>5, <2>1, <2>2 DEF Simulation
<1>7. Simulated[b] = SimulateBatch(b)
  BY DEF Simulated
<1>8. SimulateBatch(b)[n] = buildSVFramePureGo(s.cnt, s.n, s.phase)
  <2>1. n \in 1 .. b.n /\ (n - 1) * PerFrame(b) = Before(b, n)
    BY DEF Before
  <2>2. SimulateBatch(b)[n] = buildSVFramePureGo(Plus(b.base, (n - 1) * PerFrame(b)),
                                  PerFrame(b), b.phase + (n - 1) * PerFrame(b))
    BY <2>1 DEF SimulateBatch
  <2> QED
    BY <1>5, <2>1, <2>2
<1> HIDE DEF s
<1>9. buildSVFramePureGo(s.cnt, s.n, s.phase) = FrameOf(s)
  BY DEF buildSVFramePureGo, FrameOf, APDUOf, InsideOf, GroupOf, BoxOf, ASDUOf
<1> QED
  BY <1>1, <1>2, <1>3, <1>4, <1>6, <1>7, <1>8, <1>9 DEF s

(***************************************************************************)
(* A frame that was cut short.  Until it is rejected, only its headers     *)
(* have been parsed, because the outermost TLV is not all there.           *)
(***************************************************************************)
CutShort(s) == Len(frame) < Len(FrameOf(s)) /\ Reads(0, FrameOf(s), Len(frame))

CutInv ==
    \A s \in Simulations :
        CutShort(s) => pc \in {"headers", "rejected"} \/ (pc = "apdu" /\ at = 22)

LEMMA SimulationsAre ==
    ASSUME NEW s \in Simulations
    PROVE  Simulation(s)
<1>1. PICK b \in Batches : s \in {SimulationOf(b, n) : n \in 1 .. b.n}
  BY DEF Simulations
<1>2. PICK n \in 1 .. b.n : s = SimulationOf(b, n)
  BY <1>1
<1> QED
  BY <1>2, BatchFrame

LEMMA CutStep ==
    ASSUME IInv, CutInv, [Next]_vars
    PROVE  CutInv'
<1> SUFFICES ASSUME NEW s \in Simulations, CutShort(s)'
             PROVE  pc' \in {"headers", "rejected"} \/ (pc' = "apdu" /\ at' = 22)
  BY DEF CutInv
<1>1. frame' = frame
  BY DEF Next, vars, ParseHeaders, Reject, OpenAPDU, NextTagged, NextGuessed, Return, Fallback,
         Unsupported, ParseTLV, ASDUDone, FallbackDone
<1>2. CutShort(s)
  BY <1>1 DEF CutShort, Reads, B
<1>3. frame \in Seq(Byte) /\ Len(frame) \in Nat
  BY LenProperties DEF IInv, TypeOK
<1>4. Simulation(s)
  BY SimulationsAre
<1>5. /\ Reads(22, APDUOf(s), Len(frame)) /\ Len(FrameOf(s)) = EndOf(s, 22)
      /\ Len(frame) >= 14 => HeaderEnd = 14
  BY <1>2, <1>3, <1>4, PlainHeaders DEF CutShort
<1>6. ~ HasTLV(22, Len(frame))
  <2> DEFINE y == InsideOf(s)
  <2>1. y \in Seq(Byte) /\ Len(y) <= MaxLength
    BY <1>4, SizesIs
  <2>2. APDUOf(s) = TLV(96, y) /\ EndOf(s, 22) = 22 + Len(APDUOf(s))
    BY DEF APDUOf, EndOf
  <2> HIDE DEF y
  <2>3. HasTLV(22, Len(frame)) <=> 22 + Len(TLV(96, y)) <= Len(frame)
    <3>1. Reads(22, TLV(96, y), Len(frame)) /\ 22 \in Nat
      BY <1>5, <2>2
    <3> QED
      BY <1>3, <2>1, <3>1, BytesAre, TLVRead
  <2>4. Len(frame) < 22 + Len(TLV(96, y)) /\ 22 + Len(TLV(96, y)) \in Nat
    <3>1. FrameOf(s) \in Seq(Byte) /\ Len(FrameOf(s)) \in Nat
      BY <1>4, FrameIs, LenProperties
    <3> QED
      BY <1>2, <1>5, <2>2, <3>1 DEF CutShort
  <2> QED
    BY <1>3, <2>3, <2>4
<1>7. pc \in {"headers", "rejected"} \/ (pc = "apdu" /\ at = 22)
  BY <1>2 DEF CutInv
<1>8. CASE ParseHeaders
  <2>1. at' = HeaderEnd + 8 /\ pc' = "apdu" /\ Len(frame) >= 14
    BY <1>8 DEF ParseHeaders, HeadersOK
  <2> QED
    BY <1>5, <2>1
<1>9. CASE Reject
  BY <1>9 DEF Reject
<1>10. CASE OpenAPDU
  BY <1>6, <1>7, <1>10 DEF OpenAPDU
<1>11. CASE \/ NextTagged \/ NextGuessed \/ Return \/ Fallback \/ Unsupported
            \/ ParseTLV \/ ASDUDone \/ FallbackDone
  BY <1>7, <1>11 DEF NextTagged, NextGuessed, Return, Fallback, Unsupported, ParseTLV, ASDUDone,
                     FallbackDone
<1>12. CASE UNCHANGED vars
  BY <1>7, <1>12 DEF vars
<1> QED
  BY <1>8, <1>9, <1>10, <1>11, <1>12 DEF Next

\* No frame of the simulated capture that was cut short passes for a frame
\* with fewer samples, whatever the batches are (readTLV, ber.go:46).
THEOREM CutCorrect == Spec => []CutRejected
<1>1. Init => CutInv
  BY DEF Init, CutInv
<1>2. IInv /\ CutInv /\ [Next]_vars => CutInv'
  BY CutStep
<1>3. IInv /\ CutInv => CutRejected
  <2> SUFFICES ASSUME IInv, CutInv, pc = "done", NEW b \in Batches, NEW n \in 1 .. b.n,
                      Len(frame) < Len(Simulated[b][n]),
                      \A k \in 1 .. Len(frame) : frame[k] = Simulated[b][n][k]
               PROVE  FALSE
    BY DEF CutRejected
  <2> DEFINE s == SimulationOf(b, n)
             f == FrameOf(s)
  <2>1. s \in Simulations /\ Simulated[b][n] = f /\ Simulation(s)
    BY BatchFrame
  <2>2. frame \in Seq(Byte) /\ Len(frame) \in Nat
    BY LenProperties DEF IInv, TypeOK
  <2>3. f \in Seq(Byte) /\ Len(f) \in Nat
    BY <2>1, FrameIs, LenProperties
  <2> HIDE DEF f
  <2>4. ASSUME NEW k \in 1 .. Len(f), 0 + k - 1 < Len(frame)
        PROVE  B(0 + k - 1) = f[k]
    <3>1. k \in 1 .. Len(frame) /\ (0 + k - 1) + 1 = k
      BY <2>2, <2>3, <2>4
    <3>2. frame[k] = f[k]
      BY <2>1, <3>1
    <3> QED
      BY <3>1, <3>2 DEF B
  <2>5. Reads(0, f, Len(frame))
    BY <2>4 DEF Reads
  <2>6. CutShort(s)
    BY <2>1, <2>5 DEF CutShort, f
  <2> QED
    BY <2>1, <2>6 DEF CutInv
<1> QED
  BY <1>1, <1>2, <1>3, IInvAlways, PTL DEF Spec

(***************************************************************************)
(* The parse of a simulated frame whose APDU is at offset a: one ASDU,     *)
(* whose five TLVs are read one after the other, and then its end.         *)
(***************************************************************************)
FieldsParsed(s, a) ==
    \/ cur \in {BoxLo(s, a), BoxLo(s, a) + 10}
    \/ cur \in {BoxLo(s, a) + 16, BoxLo(s, a) + 22, BoxLo(s, a) + 25} /\ asdu.SmpCnt = s.cnt
    \/ /\ cur = EndOf(s, a) /\ asdu.SmpCnt = s.cnt
       /\ asdu.SeqData = Slice(DataLo(s, a), EndOf(s, a))

ASDUParsed(s, a) ==
    /\ i = 1 /\ Len(asdus) = 1
    /\ asdus[1].SmpCnt = s.cnt /\ asdus[1].SeqData = Slice(DataLo(s, a), EndOf(s, a))

Parse(s, a) ==
    /\ ~ fallback
    /\ pc \in {"headers", "apdu", "asdus", "asdu", "done"}
    /\ pc = "headers" => i = 0
    /\ pc = "apdu" => i = 0 /\ at = a
    /\ pc \in {"asdus", "asdu"} => asduCount = 1
    /\ pc = "asdus" => \/ /\ i = 0 /\ asdus = <<>> /\ at = GroupLo(s, a)
                          /\ inner = Slice(GroupLo(s, a), EndOf(s, a))
                       \/ ASDUParsed(s, a)
    /\ pc = "asdu" => /\ i = 1 /\ asdus = <<>> /\ raw = Slice(BoxLo(s, a), EndOf(s, a))
                      /\ FieldsParsed(s, a)
    /\ pc = "done" => ASDUParsed(s, a)

\* What a TLV changes of the number of the first sample, and of the samples.
LEMMA AbsorbedIs ==
    ASSUME asdu \in ASDUs, NEW tag, NEW c
    PROVE  /\ tag = 130 /\ IsInteger32(c) => Absorbed(tag, c).SmpCnt = DecodeInteger32(c)
           /\ tag \in {128, 131, 133, 135} => Absorbed(tag, c).SmpCnt = asdu.SmpCnt
           /\ tag = 135 => Absorbed(tag, c).SeqData = c
<1> DEFINE new == Absorbed(tag, c)
<1>1. ASSUME tag = 130, IsInteger32(c) PROVE new.SmpCnt = DecodeInteger32(c)
  <2> DEFINE w == DecodeInteger32(c)
  <2>1. IntegerField(tag) = "SmpCnt"
    BY <1>1 DEF IntegerField
  <2>2. new = [asdu EXCEPT ![IntegerField(tag)] = w]
    BY <1>1 DEF Absorbed
  <2> HIDE DEF w, new
  <2>3. new = [asdu EXCEPT !.SmpCnt = w]
    BY <2>1, <2>2
  <2> QED
    BY <2>3 DEF ASDUs, w
<1>2. ASSUME tag = 128 PROVE new.SmpCnt = asdu.SmpCnt
  <2>1. CASE Size(asdu.SvID) = 0
    <3>1. new = [asdu EXCEPT !.SvID = c]
      BY <1>2, <2>1 DEF Absorbed
    <3> HIDE DEF new
    <3> QED
      BY <3>1 DEF ASDUs
  <2>2. CASE Size(asdu.SvID) # 0
    <3>1. new = asdu
      BY <1>2, <2>2 DEF Absorbed
    <3> QED
      BY <3>1
  <2> QED
    BY <2>1, <2>2
<1>3. ASSUME tag = 131 PROVE new.SmpCnt = asdu.SmpCnt
  <2>1. CASE IsInteger32(c)
    <3> DEFINE w == DecodeInteger32(c)
    <3>1. IntegerField(tag) = "ConfRev"
      BY <1>3 DEF IntegerField
    <3>2. new = [asdu EXCEPT ![IntegerField(tag)] = w]
      BY <1>3, <2>1 DEF Absorbed
    <3> HIDE DEF w, new
    <3>3. new = [asdu EXCEPT !.ConfRev = w]
      BY <3>1, <3>2
    <3> QED
      BY <3>3 DEF ASDUs
  <2>2. CASE ~ IsInteger32(c)
    <3>1. new = asdu
      BY <1>3, <2>2 DEF Absorbed
    <3> QED
      BY <3>1
  <2> QED
    BY <2>1, <2>2
<1>4. ASSUME tag = 133 PROVE new.SmpCnt = asdu.SmpCnt
  <2>1. CASE Size(c) > 0
    <3>1. new = [asdu EXCEPT !.SmpSynch = B(c.hi - 1)]
      BY <1>4, <2>1 DEF Absorbed
    <3> HIDE DEF new
    <3> QED
      BY <3>1 DEF ASDUs
  <2>2. CASE ~ (Size(c) > 0)
    <3>1. new = asdu
      BY <1>4, <2>2 DEF Absorbed
    <3> QED
      BY <3>1
  <2> QED
    BY <2>1, <2>2
<1>5. ASSUME tag = 135 PROVE new.SmpCnt = asdu.SmpCnt /\ new.SeqData = c
  <2>1. new = [asdu EXCEPT !.SeqData = c]
    BY <1>5 DEF Absorbed
  <2> HIDE DEF new
  <2> QED
    BY <2>1 DEF ASDUs
<1> QED
  BY <1>1, <1>2, <1>3, <1>4, <1>5

LEMMA OpenParse ==
    ASSUME NEW s, NEW a \in Nat, Layout(s, a), Len(frame) = EndOf(s, a), IInv, Parse(s, a),
           OpenAPDU
    PROVE  Parse(s, a)'
<1> DEFINE e == EndOf(s, a)
           p == InsideAt(s, a)
           q == GroupAt(s, a)
           r == GroupLo(s, a)
<1>1. /\ Content(a) = Slice(p, e) /\ StartsWith(Slice(p, e), {128})
      /\ Content(p) = Slice(p + 2, q)
      /\ IsInteger32(Slice(p + 2, q)) /\ Number(DecodeInteger32(Slice(p + 2, q))) = 1
      /\ StartsWith(Slice(q, e), {162, 48}) /\ Content(q) = Slice(r, e)
  BY DEF Layout, OuterLayout
<1>2. pc = "apdu" /\ at = a /\ i = 0 /\ ~ fallback /\ asdus = <<>>
  BY DEF OpenAPDU, Parse, IInv, StageInv
<1> DEFINE apdu    == Content(at)
           counted == StartsWith(apdu, {128})
           count   == Content(apdu.lo)
           rest    == IF counted THEN Slice(count.hi, apdu.hi) ELSE apdu
           boxed   == StartsWith(rest, {162, 48})
<1>3. /\ asduCount' = IF counted /\ IsInteger32(count) THEN Number(DecodeInteger32(count)) ELSE 1
      /\ inner' = IF boxed THEN Content(rest.lo) ELSE apdu
      /\ at' = IF boxed THEN Content(rest.lo).lo ELSE rest.lo
      /\ pc' = "asdus" /\ UNCHANGED <<frame, i, raw, cur, asdu, asdus, fallback>>
  BY DEF OpenAPDU
<1>4. apdu = Slice(p, e) /\ apdu.lo = p /\ apdu.hi = e
  <2>1. apdu = Slice(p, e)
    BY <1>1, <1>2
  <2> HIDE DEF apdu, p, e
  <2> QED
    BY <2>1 DEF Slice
<1> HIDE DEF apdu, p, q, r, e
<1>5. counted /\ count = Slice(p + 2, q) /\ count.hi = q
  <2>1. counted /\ count = Slice(p + 2, q)
    BY <1>1, <1>4
  <2> HIDE DEF count, counted
  <2> QED
    BY <2>1 DEF Slice
<1> HIDE DEF count, counted
<1>6. rest = Slice(q, e) /\ rest.lo = q
  <2>1. rest = Slice(q, e)
    BY <1>4, <1>5
  <2> HIDE DEF rest
  <2> QED
    BY <2>1 DEF Slice
<1> HIDE DEF rest
<1>7. boxed /\ Content(rest.lo) = Slice(r, e) /\ Content(rest.lo).lo = r
  <2>1. boxed /\ Content(rest.lo) = Slice(r, e)
    BY <1>1, <1>6
  <2>2. Slice(r, e).lo = r
    BY DEF Slice
  <2> QED
    BY <2>1, <2>2
<1> HIDE DEF boxed
<1>8. asduCount' = 1 /\ inner' = Slice(r, e) /\ at' = r
  BY <1>1, <1>3, <1>5, <1>7
<1> QED
  BY <1>2, <1>3, <1>8 DEF Parse, r, e

LEMMA LoopParse ==
    ASSUME NEW s, NEW a \in Nat, Layout(s, a), IInv, Parse(s, a), pc = "asdus",
           \/ NextTagged \/ NextGuessed \/ Return \/ Fallback \/ Unsupported
    PROVE  Parse(s, a)'
<1> DEFINE e == EndOf(s, a)
           r == GroupLo(s, a)
           b == BoxLo(s, a)
<1>1. /\ B(r) = 48 /\ StartsWith(Slice(r, e), {48}) /\ Content(r) = Slice(b, e)
      /\ e \in Nat /\ r \in Nat /\ b \in Nat /\ r < b /\ b < e
  <2>1. /\ e \in Nat /\ r \in Nat /\ b \in Nat /\ DataLo(s, a) \in Nat /\ s.n \in Nat
        /\ b + 25 < DataLo(s, a) /\ e = DataLo(s, a) + 8 * s.n /\ r < b
    BY DEF Layout, OffsetLayout
  <2>2. b < e
    <3> DEFINE t == DataLo(s, a)
               m == s.n
    <3>1. t \in Nat /\ m \in Nat /\ b + 25 < t /\ e = t + 8 * m
      BY <2>1
    <3> HIDE DEF t, m, b, e
    <3> QED
      BY <2>1, <3>1
  <2> QED
    BY <2>1, <2>2 DEF Layout, OuterLayout
<1>2. ~ fallback /\ asduCount = 1
  BY DEF Parse
<1>3. CASE /\ i = 0 /\ asdus = <<>> /\ at = r /\ inner = Slice(r, e)
  <2>1. inner.hi = e /\ inner.lo = r
    BY <1>3 DEF Slice
  <2> HIDE DEF e, r, b
  <2>2. MoreASDUs /\ B(at) = 48 /\ HasTLV(at, inner.hi)
    <3>1. HasTLV(r, e)
      BY <1>1 DEF StartsWith, Slice
    <3> QED
      BY <1>1, <1>2, <1>3, <2>1, <3>1 DEF MoreASDUs
  <2>3. ~ LoopEnds
    BY <2>2 DEF LoopEnds
  <2>4. NextTagged
    BY <2>2, <2>3 DEF NextGuessed, Return, Fallback, Unsupported
  <2>5. /\ raw' = Slice(b, e) /\ cur' = Slice(b, e).lo /\ i' = i + 1
        /\ pc' = IF Slice(b, e).lo < Slice(b, e).hi THEN "asdu" ELSE "asdus"
        /\ UNCHANGED <<asduCount, asdus, fallback>>
    BY <1>1, <1>3, <2>4 DEF NextTagged, StartASDU
  <2>6. Slice(b, e).lo = b /\ Slice(b, e).hi = e
    BY DEF Slice
  <2>7. raw' = Slice(b, e) /\ cur' = b /\ i' = 1 /\ pc' = "asdu"
    BY <1>1, <1>3, <2>5, <2>6
  <2>8. FieldsParsed(s, a)'
    BY <2>7 DEF FieldsParsed, b
  <2> QED
    BY <1>2, <1>3, <2>5, <2>7, <2>8 DEF Parse, b, e
<1>4. CASE ASDUParsed(s, a)
  <2>1. ~ MoreASDUs /\ asdus # <<>>
    BY <1>2, <1>4 DEF MoreASDUs, ASDUParsed
  <2>2. Return
    BY <2>1 DEF NextTagged, NextGuessed, Fallback, Unsupported
  <2>3. pc' = "done" /\ UNCHANGED <<i, asdus, fallback>>
    BY <2>2 DEF Return
  <2>4. ASDUParsed(s, a)'
    BY <1>4, <2>3 DEF ASDUParsed
  <2> QED
    BY <1>2, <2>3, <2>4 DEF Parse
<1> QED
  BY <1>3, <1>4 DEF Parse

LEMMA FieldParse ==
    ASSUME NEW s, NEW a \in Nat, Layout(s, a), IInv, Parse(s, a), ParseTLV
    PROVE  Parse(s, a)'
<1> DEFINE e == EndOf(s, a)
           b == BoxLo(s, a)
           c == Content(cur)
           new == Absorbed(B(cur), c)
<1>1. /\ pc = "asdu" /\ HasTLV(cur, raw.hi) /\ asdu' = new /\ cur' = AfterTLV(cur)
      /\ UNCHANGED <<frame, pc, inner, at, asduCount, i, raw, asdus, fallback>>
  BY DEF ParseTLV
<1>2. asdu \in ASDUs /\ raw = Slice(b, e) /\ FieldsParsed(s, a)
  BY <1>1 DEF Parse, IInv, TypeOK
<1>3. raw.hi = e
  <2> HIDE DEF b, e
  <2> QED
    BY <1>2 DEF Slice
<1>4. b \in Nat /\ e \in Nat
  BY DEF Layout, OffsetLayout
<1>5. /\ B(b) = 128 /\ AfterTLV(b) = b + 10
      /\ B(b + 10) = 130 /\ AfterTLV(b + 10) = b + 16
      /\ IsInteger32(Content(b + 10)) /\ DecodeInteger32(Content(b + 10)) = s.cnt
      /\ B(b + 16) = 131 /\ AfterTLV(b + 16) = b + 22
      /\ B(b + 22) = 133 /\ AfterTLV(b + 22) = b + 25
      /\ B(b + 25) = 135 /\ AfterTLV(b + 25) = e
      /\ Content(b + 25) = Slice(DataLo(s, a), e)
  BY DEF Layout, FieldLayout
<1>6. cur # e
  BY <1>1, <1>3, <1>4 DEF HasTLV
<1> HIDE DEF c, new
<1>7. ASSUME cur = b PROVE FieldsParsed(s, a)'
  BY <1>1, <1>5, <1>7 DEF FieldsParsed
<1>8. ASSUME cur = b + 10 PROVE FieldsParsed(s, a)'
  <2>1. B(cur) = 130 /\ IsInteger32(c) /\ DecodeInteger32(c) = s.cnt /\ cur' = b + 16
    BY <1>1, <1>5, <1>8 DEF c
  <2>2. asdu'.SmpCnt = s.cnt
    BY <1>1, <1>2, <2>1, AbsorbedIs DEF new
  <2> QED
    BY <2>1, <2>2 DEF FieldsParsed
<1>9. ASSUME cur \in {b + 16, b + 22}, asdu.SmpCnt = s.cnt PROVE FieldsParsed(s, a)'
  <2>1. B(cur) \in {131, 133} /\ cur' \in {b + 22, b + 25}
    BY <1>1, <1>5, <1>9
  <2>2. asdu'.SmpCnt = s.cnt
    BY <1>1, <1>2, <1>9, <2>1, AbsorbedIs DEF new
  <2> QED
    BY <2>1, <2>2 DEF FieldsParsed
<1>10. ASSUME cur = b + 25, asdu.SmpCnt = s.cnt PROVE FieldsParsed(s, a)'
  <2>1. B(cur) = 135 /\ c = Slice(DataLo(s, a), e) /\ cur' = e
    BY <1>1, <1>5, <1>10 DEF c
  <2>2. asdu'.SmpCnt = s.cnt /\ asdu'.SeqData = c
    BY <1>1, <1>2, <1>10, <2>1, AbsorbedIs DEF new
  <2> QED
    BY <2>1, <2>2 DEF FieldsParsed
<1>11. FieldsParsed(s, a)'
  <2>1. \/ cur = b \/ cur = b + 10
        \/ cur \in {b + 16, b + 22} /\ asdu.SmpCnt = s.cnt
        \/ cur = b + 25 /\ asdu.SmpCnt = s.cnt
    BY <1>2, <1>6 DEF FieldsParsed
  <2> QED
    BY <1>7, <1>8, <1>9, <1>10, <2>1
<1> QED
  BY <1>1, <1>11 DEF Parse

LEMMA ASDUParse ==
    ASSUME NEW s, NEW a \in Nat, Layout(s, a), IInv, Parse(s, a), ASDUDone \/ FallbackDone
    PROVE  Parse(s, a)'
<1> DEFINE e == EndOf(s, a)
           b == BoxLo(s, a)
<1>1. pc = "asdu" /\ ~ HasTLV(cur, raw.hi) /\ ~ fallback /\ ASDUDone
  BY DEF Parse, ASDUDone, FallbackDone
<1>2. raw = Slice(b, e) /\ FieldsParsed(s, a) /\ asdus = <<>> /\ i = 1 /\ asduCount = 1
  BY <1>1 DEF Parse
<1>3. raw.hi = e
  <2> HIDE DEF b, e
  <2> QED
    BY <1>2 DEF Slice
<1>4. /\ HasTLV(b, e) /\ HasTLV(b + 10, e) /\ HasTLV(b + 16, e) /\ HasTLV(b + 22, e)
      /\ HasTLV(b + 25, e)
  BY DEF Layout, FieldLayout
<1>5. asdu.SmpCnt = s.cnt /\ asdu.SeqData = Slice(DataLo(s, a), e)
  BY <1>1, <1>2, <1>3, <1>4 DEF FieldsParsed
<1>6. /\ asdus' = Append(asdus, asdu) /\ pc' = "asdus"
      /\ UNCHANGED <<asduCount, i, fallback>>
  BY <1>1 DEF ASDUDone
<1>7. asdus' = <<asdu>> /\ Len(asdus') = 1 /\ asdus'[1] = asdu
  BY <1>2, <1>6
<1>8. ASDUParsed(s, a)'
  BY <1>2, <1>5, <1>6, <1>7 DEF ASDUParsed
<1> QED
  BY <1>1, <1>2, <1>6, <1>8 DEF Parse

LEMMA ParseStep ==
    ASSUME NEW s, NEW a \in Nat, Layout(s, a), Len(frame) = EndOf(s, a),
           HeadersOK, HeaderEnd + 8 = a, IInv, Parse(s, a), [Next]_vars
    PROVE  Parse(s, a)'
<1>1. CASE ParseHeaders
  BY <1>1 DEF ParseHeaders, Parse
<1>2. CASE Reject
  <2>1. HasTLV(a, Len(frame))
    BY DEF Layout, OuterLayout
  <2> QED
    BY <1>2, <2>1 DEF Reject, Rejects, Parse
<1>3. CASE OpenAPDU
  BY <1>3, OpenParse
<1>4. CASE NextTagged \/ NextGuessed \/ Return \/ Fallback \/ Unsupported
  <2>1. pc = "asdus"
    BY <1>4 DEF NextTagged, NextGuessed, Return, Fallback, Unsupported
  <2> QED
    BY <1>4, <2>1, LoopParse
<1>5. CASE ParseTLV
  BY <1>5, FieldParse
<1>6. CASE ASDUDone \/ FallbackDone
  BY <1>6, ASDUParse
<1>7. CASE UNCHANGED vars
  BY <1>7 DEF vars, Parse, FieldsParsed, ASDUParsed
<1> QED
  BY <1>1, <1>2, <1>3, <1>4, <1>5, <1>6, <1>7 DEF Next

(***************************************************************************)
(* Simulated frames that arrive whole, with or without a VLAN tag.         *)
(***************************************************************************)
WholeAt(s, a) ==
    /\ HeadersOK /\ HeaderEnd + 8 = a /\ Len(frame) = EndOf(s, a) /\ Layout(s, a)

LEMMA WholePlain ==
    ASSUME NEW s, Simulation(s), frame = FrameOf(s)
    PROVE  WholeAt(s, 22)
<1>1. frame \in Seq(Byte) /\ Len(frame) = 22 + Len(APDUOf(s)) /\ Len(APDUOf(s)) \in Nat
  BY FrameIs
<1>2. Reads(0, FrameOf(s), Len(frame))
  <2>1. ASSUME NEW k \in 1 .. Len(frame) PROVE B(0 + k - 1) = frame[k]
    BY <1>1 DEF B
  <2> QED
    BY <2>1 DEF Reads
<1>3. Len(frame) = EndOf(s, 22) /\ Len(frame) >= 22
  BY <1>1 DEF EndOf
<1>4. Reads(22, APDUOf(s), Len(frame)) /\ HeadersOK /\ HeaderEnd = 14
  <2>1. Len(frame) >= 14
    BY <1>1
  <2> QED
    BY <1>1, <1>2, <1>3, <2>1, PlainHeaders
<1>5. Layout(s, 22)
  BY <1>3, <1>4, LayoutHolds
<1> QED
  BY <1>3, <1>4, <1>5 DEF WholeAt

LEMMA WholeTagged ==
    ASSUME NEW s, Simulation(s), frame = WithVlan(FrameOf(s))
    PROVE  WholeAt(s, 26)
<1>1. /\ Reads(26, APDUOf(s), Len(frame)) /\ HeaderEnd = 18 /\ HeadersOK
      /\ Len(frame) = EndOf(s, 26)
  BY VlanHeaders
<1>2. Layout(s, 26)
  BY <1>1, LayoutHolds
<1> QED
  BY <1>1, <1>2 DEF WholeAt

ParseInv ==
    \A s \in Simulations : /\ frame = FrameOf(s) => Parse(s, 22)
                           /\ frame = WithVlan(FrameOf(s)) => Parse(s, 26)

LEMMA ParseInvStep ==
    ASSUME IInv, ParseInv, [Next]_vars
    PROVE  ParseInv'
<1>1. frame' = frame
  BY DEF Next, vars, ParseHeaders, Reject, OpenAPDU, NextTagged, NextGuessed, Return, Fallback,
         Unsupported, ParseTLV, ASDUDone, FallbackDone
<1>2. ASSUME NEW s \in Simulations, frame = FrameOf(s) PROVE Parse(s, 22)'
  <2>1. Simulation(s) /\ Parse(s, 22)
    BY <1>2, SimulationsAre DEF ParseInv
  <2>2. WholeAt(s, 22)
    BY <1>2, <2>1, WholePlain
  <2> QED
    BY <2>1, <2>2, ParseStep DEF WholeAt
<1>3. ASSUME NEW s \in Simulations, frame = WithVlan(FrameOf(s)) PROVE Parse(s, 26)'
  <2>1. Simulation(s) /\ Parse(s, 26)
    BY <1>3, SimulationsAre DEF ParseInv
  <2>2. WholeAt(s, 26)
    BY <1>3, <2>1, WholeTagged
  <2> QED
    BY <2>1, <2>2, ParseStep DEF WholeAt
<1> QED
  BY <1>1, <1>2, <1>3 DEF ParseInv

LEMMA FourBytes ==
    ASSUME NEW w \in Word
    PROVE  <<w[1], w[2], w[3], w[4]>> = w
<1> DEFINE v == <<w[1], w[2], w[3], w[4]>>
<1>1. w[1] \in Byte /\ w[2] \in Byte /\ w[3] \in Byte /\ w[4] \in Byte
  BY DEF Word
<1>2. v \in Word /\ v[1] = w[1] /\ v[2] = w[2] /\ v[3] = w[3] /\ v[4] = w[4]
  BY <1>1 DEF Word
<1> HIDE DEF v
<1>3. v = w
  BY <1>2, SameWord
<1> QED
  BY <1>3 DEF v

\* The samples that ExtractSamples finds are those that were written.
LEMMA SamplesAre ==
    ASSUME NEW s, NEW a \in Nat, Simulation(s), Layout(s, a), ASDUParsed(s, a)
    PROVE  Samples = [k \in 1 .. s.n |->
                         [Current |-> Current(s.phase + (k - 1)),
                          Voltage |-> Voltage(s.phase + (k - 1)),
                          SeqNo   |-> Plus(s.cnt, k - 1),
                          intervals |-> k - 1]]
<1> DEFINE x == asdus[1]
           e == EndOf(s, a)
           t == DataLo(s, a)
           m == s.n
           ph == s.phase
           d == DataOf(s)
           I(k) == Current(ph + (k - 1))
           V(k) == Voltage(ph + (k - 1))
           off(k) == t + (k - 1) * 8
<1>1. e \in Nat /\ t \in Nat /\ m \in Nat /\ ph \in Nat /\ e = t + 8 * m
  BY DEF Layout, OffsetLayout, Simulation
<1>2. x.SmpCnt = s.cnt /\ x.SeqData = Slice(t, e)
  BY DEF ASDUParsed
<1>3. Reads(t, d, e)
  BY DEF Layout, FieldLayout
<1>4. /\ Len(d) = 8 * m
      /\ \A k \in 1 .. m : \A j \in 1 .. 4 : d[8 * (k - 1) + j] = I(k)[j]
                                             /\ d[8 * (k - 1) + 4 + j] = V(k)[j]
  BY <1>1, DataIs DEF DataOf
<1> HIDE DEF x, e, t, m, ph, d
<1>5. x.SeqData.lo = t /\ x.SeqData.hi = e
  BY <1>2 DEF Slice
<1>6. NumSamples(x) = m
  <2>1. Size(x.SeqData) = e - t
    BY <1>5 DEF Size
  <2>2. (e - t) \div 8 = m
    BY <1>1
  <2> QED
    BY <2>1, <2>2 DEF NumSamples
<1>7. ASSUME NEW k \in 1 .. m
      PROVE  /\ <<B(off(k)), B(off(k) + 1), B(off(k) + 2), B(off(k) + 3)>> = I(k)
             /\ <<B(off(k) + 4), B(off(k) + 5), B(off(k) + 6), B(off(k) + 7)>> = V(k)
  <2> DEFINE o == off(k)
             y == 8 * (k - 1)
             c == I(k)
             v == V(k)
  <2>1. o = t + y /\ y \in Nat /\ y + 8 <= 8 * m /\ o \in Nat
    BY <1>1
  <2>2. /\ d[y + 1] = c[1] /\ d[y + 2] = c[2] /\ d[y + 3] = c[3] /\ d[y + 4] = c[4]
        /\ d[y + 4 + 1] = v[1] /\ d[y + 4 + 2] = v[2] /\ d[y + 4 + 3] = v[3]
        /\ d[y + 4 + 4] = v[4]
    <3>1. \A j \in 1 .. 4 : d[y + j] = c[j] /\ d[y + 4 + j] = v[j]
      BY <1>4
    <3> HIDE DEF y, c, v
    <3> QED
      BY <3>1
  <2>3. c \in Word /\ v \in Word
    <3>1. ph + (k - 1) \in Nat
      BY <1>1
    <3> QED
      BY <3>1, WaveIs
  <2> HIDE DEF o, y, c, v
  <2>4. ASSUME NEW j \in 1 .. 8 PROVE B(o + j - 1) = d[y + j]
    <3> DEFINE z == y + j
    <3>1. z \in 1 .. 8 * m /\ t + z - 1 < e /\ t + z - 1 = o + j - 1
      BY <1>1, <2>1
    <3> HIDE DEF z
    <3>2. B(t + z - 1) = d[z]
      BY <1>3, <1>4, <3>1 DEF Reads
    <3> QED
      BY <3>1, <3>2 DEF z
  <2>5. /\ B(o + 1 - 1) = d[y + 1] /\ B(o + 2 - 1) = d[y + 2] /\ B(o + 3 - 1) = d[y + 3]
        /\ B(o + 4 - 1) = d[y + 4] /\ B(o + 5 - 1) = d[y + 5] /\ B(o + 6 - 1) = d[y + 6]
        /\ B(o + 7 - 1) = d[y + 7] /\ B(o + 8 - 1) = d[y + 8]
    BY <2>4
  <2>6. /\ o + 1 - 1 = o /\ o + 2 - 1 = o + 1 /\ o + 3 - 1 = o + 2 /\ o + 4 - 1 = o + 3
        /\ o + 5 - 1 = o + 4 /\ o + 6 - 1 = o + 5 /\ o + 7 - 1 = o + 6 /\ o + 8 - 1 = o + 7
        /\ y + 4 + 1 = y + 5 /\ y + 4 + 2 = y + 6 /\ y + 4 + 3 = y + 7 /\ y + 4 + 4 = y + 8
    BY <2>1
  <2>7. /\ B(o) = c[1] /\ B(o + 1) = c[2] /\ B(o + 2) = c[3] /\ B(o + 3) = c[4]
        /\ B(o + 4) = v[1] /\ B(o + 5) = v[2] /\ B(o + 6) = v[3] /\ B(o + 7) = v[4]
    BY <2>2, <2>5, <2>6
  <2>8. <<c[1], c[2], c[3], c[4]>> = c /\ <<v[1], v[2], v[3], v[4]>> = v
    BY <2>3, FourBytes
  <2> QED
    BY <2>7, <2>8 DEF o, c, v
<1> DEFINE written(k) == [Current |-> I(k), Voltage |-> V(k), SeqNo |-> Plus(s.cnt, k - 1),
                          intervals |-> k - 1]
           read(k) == [Current |-> <<B(off(k)), B(off(k) + 1), B(off(k) + 2), B(off(k) + 3)>>,
                       Voltage |-> <<B(off(k) + 4), B(off(k) + 5), B(off(k) + 6), B(off(k) + 7)>>,
                       SeqNo   |-> Plus(s.cnt, k - 1),
                       intervals |-> k - 1]
<1>8. Samples = [k \in 1 .. m |-> read(k)]
  <2>1. asdus[1].SmpCnt = s.cnt /\ asdus[1].SeqData.lo = t /\ NumSamples(asdus[1]) = m
    BY <1>2, <1>5, <1>6 DEF x
  <2> QED
    BY <2>1 DEF Samples
<1>9. \A k \in 1 .. m : read(k) = written(k)
  BY <1>7
<1> HIDE DEF read, written
<1>10. Samples = [k \in 1 .. m |-> written(k)]
  BY <1>8, <1>9
<1> QED
  BY <1>10 DEF written, m, ph

\* A simulated frame, with or without a VLAN tag, is never rejected, and gives
\* when the call returns all its samples and no other, in order, with their
\* numbers, for every batch (DecodeFull, decoder.go:221; buildSVFramePureGo,
\* capture_nocgo.go:98).
THEOREM RoundTripCorrect == Spec => []RoundTrip
<1>1. Init => ParseInv
  <2> SUFFICES ASSUME Init, NEW s, NEW a PROVE Parse(s, a)
    BY DEF ParseInv
  <2> QED
    BY DEF Init, Parse
<1>2. IInv /\ ParseInv /\ [Next]_vars => ParseInv'
  BY ParseInvStep
<1>3. IInv /\ ParseInv => RoundTrip
  <2> SUFFICES ASSUME IInv, ParseInv, Ended, NEW b \in Batches, NEW n \in 1 .. b.n,
                      frame \in {Simulated[b][n], WithVlan(Simulated[b][n])}
               PROVE  /\ pc = "done"
                      /\ LET before == (n - 1) * PerFrame(b)
                         IN  Samples = [k \in 1 .. PerFrame(b) |->
                                           [Current |-> Current(b.phase + before + k - 1),
                                            Voltage |-> Voltage(b.phase + before + k - 1),
                                            SeqNo   |-> Plus(b.base, before + k - 1),
                                            intervals |-> k - 1]]
    BY DEF RoundTrip
  <2> DEFINE s == SimulationOf(b, n)
             before == Before(b, n)
             p == PerFrame(b)
  <2>1. /\ s \in Simulations /\ Simulated[b][n] = FrameOf(s) /\ Simulation(s)
        /\ before \in Nat /\ p \in Nat /\ b.base \in Word /\ b.phase \in Nat
    BY BatchFrame
  <2>2. s.cnt = Plus(b.base, before) /\ s.n = p /\ s.phase = b.phase + before
    BY DEF SimulationOf
  <2> HIDE DEF s
  <2>3. PICK a \in Nat : WholeAt(s, a) /\ Parse(s, a)
    <3>1. CASE frame = FrameOf(s)
      BY <2>1, <3>1, WholePlain DEF ParseInv
    <3>2. CASE frame = WithVlan(FrameOf(s))
      BY <2>1, <3>2, WholeTagged DEF ParseInv
    <3> QED
      BY <2>1, <3>1, <3>2
  <2>4. pc = "done" /\ ASDUParsed(s, a)
    BY <2>3 DEF Parse, Ended
  <2>5. Samples = [k \in 1 .. s.n |->
                      [Current |-> Current(s.phase + (k - 1)),
                       Voltage |-> Voltage(s.phase + (k - 1)),
                       SeqNo   |-> Plus(s.cnt, k - 1),
                       intervals |-> k - 1]]
    BY <2>1, <2>3, <2>4, SamplesAre DEF WholeAt
  <2> HIDE DEF before, p
  <2>6. ASSUME NEW k \in 1 .. p
        PROVE  /\ s.phase + (k - 1) = b.phase + before + k - 1
               /\ Plus(s.cnt, k - 1) = Plus(b.base, before + k - 1)
    <3> DEFINE j == k - 1
    <3>1. j \in Nat /\ before + j = before + k - 1
      BY <2>1
    <3>2. s.phase + j = b.phase + before + k - 1
      BY <2>1, <2>2
    <3> HIDE DEF j
    <3>3. Plus(Plus(b.base, before), j) = Plus(b.base, before + j)
      BY <2>1, <3>1, PlusPlus
    <3> QED
      BY <2>2, <3>1, <3>2, <3>3 DEF j
  <2> DEFINE sample(k) == [Current |-> Current(s.phase + (k - 1)),
                           Voltage |-> Voltage(s.phase + (k - 1)),
                           SeqNo   |-> Plus(s.cnt, k - 1),
                           intervals |-> k - 1]
             wanted(k) == [Current |-> Current(b.phase + before + k - 1),
                           Voltage |-> Voltage(b.phase + before + k - 1),
                           SeqNo   |-> Plus(b.base, before + k - 1),
                           intervals |-> k - 1]
  <2>7. \A k \in 1 .. p : sample(k) = wanted(k)
    BY <2>6
  <2>8. Samples = [k \in 1 .. p |-> sample(k)]
    BY <2>2, <2>5
  <2> HIDE DEF sample, wanted
  <2>9. Samples = [k \in 1 .. p |-> wanted(k)]
    BY <2>7, <2>8
  <2> QED
    BY <2>4, <2>9 DEF wanted, p, before, Before
<1> QED
  BY <1>1, <1>2, <1>3, IInvAlways, PTL DEF Spec
=============================================================================
