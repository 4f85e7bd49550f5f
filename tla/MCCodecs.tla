------------------------------ MODULE MCCodecs -----------------------------
EXTENDS Codecs

\* The code of FecEncoder and FecDecoder, and CRC-32.
MCPattern == <<1, 1, 0, 1, 1, 0>>
MCGen0 == {0, 3, 4, 5, 6}  \* 0171
MCGen1 == {0, 1, 3, 4, 6}  \* 0133
MCCrcPoly == {5, 8, 9, 15, 19, 20, 21, 23, 24, 26, 27, 29, 30, 31}  \* 0xEDB88320

\* The check value of CRC-32, 0xCBF43926 for the characters 1 to 9.
ASSUME CheckValue ==
  compute_crc32(FlattenSeq([i \in 1 .. 9 |-> ToBits(48 + i, 8)]))
    = ToBits(52212, 16) \o ToBits(14630, 16)

MCBurstOf(payload, fec, rate, rx, max) ==
  [payload |-> payload, fec |-> fec, rate |-> rate, seq |-> 4095, rx |-> rx, noise |-> max]
Bytes(n) == FlattenSeq([i \in 1 .. n |-> ToBits((165 * i) % 256, 8)])

\* One byte with and without FEC under all disturbances, of two components where
\* they are to be corrected; an empty payload; three bytes, the first size for which
\* a receiver set to 1/2 gets too few bits of a burst at 3/4.
MCBurst ==
  {MCBurstOf(Bytes(1), TRUE, "1/2", "1/2", 2)}
    \cup {MCBurstOf(Bytes(1), fec, "3/4", rx, 1) : fec \in BOOLEAN, rx \in Rate}
    \cup {MCBurstOf(Bytes(n), TRUE, rate, rx, 0) : n \in {0, 3}, rate \in Rate, rx \in Rate}
    \cup {MCBurstOf(Bytes(n), FALSE, "1/2", "1/2", 0) : n \in {0, 3}}

\* Silence, and what might be another burst: enough symbols for a frame length that
\* is greater by four bytes.
MCLeadOut == {[i \in 1 .. 40 |-> <<0, 0>>], [i \in 1 .. 40 |-> IF i % 3 = 0 THEN <<1, -1>> ELSE <<-1, 1>>]}

\* All numbers of the width; contents and extensions of every kind.
MCNumbers == 0 .. 2^ValueBits - 1
Ext(tag, value) == [tag |-> tag, value |-> value]
Seg(type, session, header, nums, claims, data, trailer) ==
  [type |-> type, session |-> session, header |-> header, nums |-> nums, claims |-> claims,
   data |-> data, trailer |-> trailer]
MCExts == {<<>>, <<Ext(5, <<>>)>>, <<Ext(0, <<1, 2>>), Ext(9, <<0, 0, 0, 0>>)>>}
MCSegment ==
  {Seg(7, <<e, s>>, <<>>, <<s>>, <<>>, <<>>, <<>>) : e \in MCNumbers, s \in {0, 3, 4, 31}}
    \cup {Seg(type, <<1, 16>>, header, <<1, 31, Len(data)>>, <<>>, data, trailer) :
             type \in {0, 4, 5}, data \in {<<>>, <<2, 1>>, <<0, 1, 2, 3, 4>>},
             header \in MCExts, trailer \in MCExts}
    \cup {Seg(type, <<1, 16>>, header, <<1, 31, Len(data), 4, 0>>, <<>>, data, trailer) :
             type \in 1 .. 3, data \in {<<>>, <<2, 1>>, <<0, 1, 2, 3, 4>>},
             header \in MCExts, trailer \in MCExts}
    \cup {Seg(6, <<1, 16>>, header, <<1, 4, 31, 0>>, claims, <<>>, trailer) :
             claims \in {<<>>, <<<<0, 31>>>>, <<<<0, 3>>, <<4, 16>>>>},
             header \in MCExts, trailer \in MCExts}
    \cup {Seg(type, <<31, 0>>, header, <<>>, <<>>, <<2>>, trailer) :
             type \in {8, 12}, header \in MCExts, trailer \in MCExts}
    \cup {Seg(type, <<31, 0>>, header, <<>>, <<>>, <<>>, trailer) :
             type \in {9, 13}, header \in MCExts, trailer \in MCExts}
=============================================================================
