----------------------------- MODULE MCDecoder -----------------------------
(***************************************************************************)
(* TLC instance of Decoder.                                                *)
(***************************************************************************)
EXTENDS Decoder

\* Batches whose lengths take one, two and three bytes, at the boundaries of
\* each (16 and 32 samples make 128 and 256 bytes), the default number of
\* samples, and sample numbers that carry and wrap.
MCBatches ==
    {[base |-> <<255, 255, 255, 254>>, samplesPerFrame |-> 1,  n |-> 3, phase |-> 0],
     [base |-> <<0, 0, 0, 0>>,         samplesPerFrame |-> 15, n |-> 2, phase |-> 15],
     [base |-> <<0, 0, 255, 250>>,     samplesPerFrame |-> 16, n |-> 2, phase |-> 250],
     [base |-> <<127, 255, 255, 250>>, samplesPerFrame |-> 32, n |-> 1, phase |-> 0],
     [base |-> <<0, 0, 0, 80>>,        samplesPerFrame |-> 0,  n |-> 1, phase |-> 80]}

MCSimulated == UNION {{SimulateBatch(b)[n] : n \in 1 .. b.n} : b \in MCBatches}

\* A frame around the content of an APDU.
FrameOf(content) == LET apdu == TLV(96, content) IN EthernetHeader \o SVHeader(apdu) \o apdu

One == ASDU(<<0, 0, 0, 7>>, 1, 3)
Two == ASDU(<<0, 0, 0, 8>>, 1, 4)

\* Integers without a context tag, a time, a rate, an unknown tag, a long
\* length, an empty boolean, an integer of five bytes.
Odd == TLV(129, SvID) \o TLV(2, <<0, 9>>) \o TLV(2, <<1>>) \o TLV(2, <<255, 0>>)
       \o TLV(132, SvID) \o TLV(132, <<1>>) \o TLV(134, <<80>>) \o TLV(153, <<0>>)
       \o TLV(133, <<>>) \o TLV(130, <<1, 2, 3, 4, 5>>) \o <<4, 132, 0, 0, 0, 8>> \o SvID

\* One and two ASDUs; with and without tags, number and sequence around them;
\* an empty one; none.
MCHandmade == {FrameOf(c) : c \in {
    TLV(128, <<2>>) \o TLV(162, TLV(48, One) \o TLV(48, Two)),
    TLV(128, <<2>>) \o TLV(162, One \o Two),
    TLV(128, <<2>>) \o One \o Two,
    TLV(128, <<2>>) \o TLV(162, TLV(48, <<>>) \o TLV(48, Two)),
    TLV(162, TLV(48, Odd)), Odd,
    TLV(128, <<0>>) \o TLV(162, One), TLV(128, <<255>>) \o TLV(162, One \o Two),
    TLV(128, <<0>>) \o TLV(162, <<>>), <<>>}}

\* One byte replaced, anywhere after the addresses.
MCBytes == {0, 2, 48, 127, 128, 130, 132, 255}
Damaged(f) == {[f EXCEPT ![n] = b] : n \in 13 .. Len(f), b \in MCBytes}

Cut(f) == {SubSeq(f, 1, n) : n \in 0 .. Len(f) - 1}

First(b) == SimulateBatch(b)[1]
Small == {First(b) : b \in {c \in MCBatches : c.samplesPerFrame = 1}}
Large == {First(b) : b \in {c \in MCBatches : c.samplesPerFrame = 16}}

MCFrames ==
    MCSimulated \cup {WithVlan(f) : f \in MCSimulated} \cup MCHandmade
        \cup UNION {Damaged(f) : f \in Small \cup MCHandmade}
        \cup UNION {Cut(f) : f \in Small \cup Large}
=============================================================================
