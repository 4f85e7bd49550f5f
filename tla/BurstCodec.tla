----------------------------- MODULE BurstCodec ----------------------------
(***************************************************************************)
(* src/frame_builder.cpp, src/frame_parser.cpp, src/symbol_mapper.cpp, and *)
(* the parts of src/encoder.cpp and src/decoder.cpp that join them with    *)
(* the code of Fec: what a burst carries after its preamble.               *)
(***************************************************************************)
EXTENDS Fec

CONSTANTS LengthBits, PaddingBits, RateBits, SeqBits,  \* header fields; one bit for FEC
          CrcBits, CrcPoly,  \* the CRC, and its reflected polynomial as a set of positions
          TailSymbols        \* TAIL_SYMBOLS

ASSUME BurstAssumption ==
  /\ {LengthBits, PaddingBits, RateBits, SeqBits, CrcBits, TailSymbols} \subseteq Nat \ {0}
  /\ CrcPoly \subseteq 0 .. CrcBits - 1

HeaderBits == LengthBits + PaddingBits + 1 + RateBits + SeqBits
-----------------------------------------------------------------------------
(* FrameBuilder. *)

\* The bits of a byte enter the register in the order of their weight.
compute_crc32(bits) ==
  LET data == [i \in DOMAIN bits |->
                 bits[((i - 1) \div ByteBits) * ByteBits + ByteBits - ((i - 1) % ByteBits)]]
      crc[i \in 0 .. Len(data)] ==  \* crc[i][j]: the bit of weight 2^(j-1)
        IF i = 0 THEN [j \in 1 .. CrcBits |-> 1]
        ELSE LET c == crc[i - 1]
                 feedback == (c[1] + data[i]) % 2
             IN <<>> \o [j \in 1 .. CrcBits |->
                          ((IF j < CrcBits THEN c[j + 1] ELSE 0)
                             + (IF j - 1 \in CrcPoly THEN feedback ELSE 0)) % 2]
      last == crc[Len(data)]
  IN [j \in 1 .. CrcBits |-> 1 - last[CrcBits + 1 - j]]

\* frame_length is the payload's size in bytes, cut to its field.
Header(bytes, fec, rate, seq) ==
  ToBits(bytes % 2^LengthBits, LengthBits) \o ToBits(0, PaddingBits)
    \o <<IF fec THEN 1 ELSE 0>> \o ToBits(IF rate = "1/2" THEN 0 ELSE 1, RateBits)
    \o ToBits(seq % 2^SeqBits, SeqBits)

build_frame(payload, fec, rate, seq) ==
  LET header == Header(Len(payload) \div ByteBits, fec, rate, seq)
  IN header \o payload \o compute_crc32(Packed(header) \o payload)
-----------------------------------------------------------------------------
(* SymbolMapper: a symbol is the pair of the signs of I and Q, 0 on an axis. *)

dibit_to_symbol(dibit) ==
  CASE dibit = <<0, 0>> -> <<1, 1>> [] dibit = <<0, 1>> -> <<-1, 1>>
    [] dibit = <<1, 0>> -> <<1, -1>> [] dibit = <<1, 1>> -> <<-1, -1>>
symbol_to_dibit(sym) ==
  CASE sym[1] > 0 /\ sym[2] >= 0 -> <<0, 0>> [] sym[1] <= 0 /\ sym[2] > 0 -> <<0, 1>>
    [] sym[1] <= 0 /\ sym[2] <= 0 -> <<1, 1>> [] sym[1] > 0 /\ sym[2] < 0 -> <<1, 0>>

map(bits) ==
  LET padded == IF Len(bits) % 2 = 0 THEN bits ELSE Append(bits, 0)
  IN [i \in 1 .. Len(padded) \div 2 |-> dibit_to_symbol(<<padded[2 * i - 1], padded[2 * i]>>)]
demap(symbols) == FlattenSeq([i \in DOMAIN symbols |-> symbol_to_dibit(symbols[i])])
-----------------------------------------------------------------------------
(* Encoder::encode(), from after the preamble to before the pulse shaping. *)
Spliced(frame, coded) ==
  SubSeq(frame, 1, HeaderBits) \o coded \o SubSeq(frame, Len(frame) - CrcBits + 1, Len(frame))

BurstEncode(payload, fec, rate, seq) ==
  LET frame == build_frame(payload, fec, rate, seq)
  IN map(IF fec THEN Spliced(frame, FecEncode(payload, rate)) ELSE frame)
       \o [i \in 1 .. TailSymbols |-> <<0, 0>>]
-----------------------------------------------------------------------------
(* FrameParser and try_decode_frame().  A failure is None. *)

None == [ok |-> FALSE, payload |-> <<>>, errors |-> 0]

\* The fields of a header.
Field(bits, from, n) == FromBits(SubSeq(bits, from + 1, from + n))
FrameLength(bits) == Field(bits, 0, LengthBits)
FecFlag(bits) == bits[LengthBits + PaddingBits + 1] = 1
RateField(bits) == Field(bits, LengthBits + PaddingBits + 1, RateBits)

\* Bits of the payload section, which follow from the header alone.
PayloadBits(header) ==
  ByteBits * (IF FecFlag(header)
                THEN coded_length(FrameLength(header), IF RateField(header) = 0 THEN "1/2" ELSE "3/4")
                ELSE FrameLength(header))

\* parse_unchecked(): whole bytes of what lies between header and CRC.
Section(bits) ==
  LET n == Len(bits) - HeaderBits - CrcBits
  IN SubSeq(bits, HeaderBits + 1, HeaderBits + n - (n % ByteBits))

\* verify_crc() for a payload under the header that has come.
verify_crc_skipped(bits, payload) == TRUE
verify_crc(bits, payload) ==
  compute_crc32(Packed(SubSeq(bits, 1, HeaderBits)) \o payload)
    = SubSeq(bits, Len(bits) - CrcBits + 1, Len(bits))

Checked(bits, payload, errors) ==
  IF verify_crc(bits, payload) THEN [ok |-> TRUE, payload |-> payload, errors |-> errors]
  ELSE None

\* fec_decoder_ has the rate of the configuration, whatever the header says.
DecodeFrame(bits, rate) ==
  IF ~FecFlag(bits) THEN Checked(bits, Section(bits), 0)
  ELSE LET payload == FecDecode(Section(bits), FrameLength(bits), rate)
       IN Checked(bits, payload, Errors(Section(bits), payload, rate))

try_decode_frame(symbols, rate) ==
  LET header == demap(SubSeq(symbols, 1, (HeaderBits + 1) \div 2))
      total == HeaderBits + PayloadBits(header) + CrcBits
  IN IF \/ Len(symbols) < (HeaderBits + 1) \div 2
        \/ FecFlag(header) /\ RateField(header) > 1
        \/ Len(symbols) < (total + 1) \div 2 THEN None
     ELSE DecodeFrame(SubSeq(demap(SubSeq(symbols, 1, (total + 1) \div 2)), 1, total), rate)
=============================================================================
