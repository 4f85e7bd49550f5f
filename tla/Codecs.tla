------------------------------- MODULE Codecs ------------------------------
(***************************************************************************)
(* The two conversions that a bundle passes through, one behind the other: *)
(* an LTP segment becomes bytes, which SegmentCodec reads again, and a     *)
(* payload becomes the symbols of a burst, which BurstCodec reads again.   *)
(* Between encoder and decoder the line loses its end, gets more symbols   *)
(* or bytes behind it, or is disturbed: a burst in its symbols, a report   *)
(* in the number of its claims, which comes when a stream of messages has  *)
(* lost a part and is cut at the wrong places from there on.               *)
(***************************************************************************)
EXTENDS BurstCodec, SegmentCodec

CONSTANTS Segment,    \* segments, as records
          Burst,      \* [payload, fec, rate, seq, rx, noise]: what is sent, the receiver's
                      \* rate, and the bound on the disturbed components of symbols
          MaxExtra,   \* bound: bytes behind a segment
          LeadOut     \* what follows a burst in the receive buffer: sequences of symbols

ASSUME CodecsAssumption ==
  /\ MaxExtra \in Nat
  /\ \A s \in Segment : Len(s.claims) <= MaxReserve
  /\ \A b \in Burst : /\ b.payload \in Seq({0, 1}) /\ Len(b.payload) % ByteBits = 0
                      /\ b.fec \in BOOLEAN /\ b.rate \in Rate /\ b.rx \in Rate
                      /\ {b.seq, b.noise} \subseteq Nat

VARIABLES
  stage,    \* "source", "line" or "decoded"
  kind,     \* "segment" or "burst"
  source,
  line,     \* bytes or symbols
  noise,    \* components of symbols that have been disturbed, in their order
  cut,      \* how many bytes or symbols have gone from the end
  extra,    \* how many bytes or symbols are behind it
  excess,   \* by how much the number of claims is greater than the claims in a report
  result

vars == <<stage, kind, source, line, noise, cut, extra, excess, result>>

Init ==
  /\ stage = "source" /\ line = <<>> /\ noise = <<>> /\ cut = 0 /\ extra = 0
  /\ excess = 0 /\ result = <<>>
  /\ \/ kind = "segment" /\ source \in Segment
     \/ kind = "burst" /\ source \in Burst

Encode ==
  /\ stage = "source" /\ stage' = "line"
  /\ line' = IF kind = "segment" THEN SegmentEncode(source)
             ELSE BurstEncode(source.payload, source.fec, source.rate, source.seq)
  /\ UNCHANGED <<kind, source, noise, cut, extra, excess, result>>

\* Component i % 2 of a symbol comes out on an axis or with the other sign.
Disturb(i, value) ==
  /\ stage = "line" /\ kind = "burst" /\ cut = 0 /\ extra = 0
  /\ Len(noise) < source.noise
  /\ IF noise = <<>> THEN TRUE ELSE i > Last(noise)
  /\ noise' = Append(noise, i)
  /\ LET sym == (i + 1) \div 2
         part == IF i % 2 = 1 THEN 2 ELSE 1   \* the first bit decides the sign of Q
     IN line' = [line EXCEPT ![sym][part] = IF value = "axis" THEN 0 ELSE -@]
  /\ UNCHANGED <<stage, kind, source, cut, extra, excess, result>>

\* The line ends early.
Cut(n) ==
  /\ stage = "line" /\ cut = 0 /\ extra = 0 /\ excess = 0 /\ noise = <<>> /\ n <= Len(line)
  /\ cut' = n /\ line' = SubSeq(line, 1, Len(line) - n)
  /\ UNCHANGED <<stage, kind, source, noise, extra, excess, result>>

\* A message with bytes behind its segment.
Extend ==
  /\ stage = "line" /\ kind = "segment" /\ cut = 0 /\ excess = 0 /\ extra < MaxExtra
  /\ extra' = extra + 1 /\ line' = Append(line, 0)
  /\ UNCHANGED <<stage, kind, source, noise, cut, excess, result>>

\* A burst, whole or cut, with the rest of the receive buffer behind it.
Follow(symbols) ==
  /\ stage = "line" /\ kind = "burst" /\ extra = 0
  /\ extra' = Len(symbols) /\ line' = line \o symbols
  /\ UNCHANGED <<stage, kind, source, noise, cut, excess, result>>

\* A report that names more claims than follow, with nothing behind them.
Miscount(n) ==
  /\ stage = "line" /\ kind = "segment" /\ cut = 0 /\ extra = 0 /\ excess = 0
  /\ is_report(source.type) /\ source.trailer = <<>>
  /\ Len(source.claims) + n < 2^ValueBits
  /\ excess' = n /\ line' = EncodeClaiming(source, Len(source.claims) + n)
  /\ UNCHANGED <<stage, kind, source, noise, cut, extra, result>>

Decode ==
  /\ stage = "line" /\ stage' = "decoded"
  /\ result' = IF kind = "segment" THEN SegmentDecode(line) ELSE try_decode_frame(line, source.rx)
  /\ line' = <<>>
  /\ UNCHANGED <<kind, source, noise, cut, extra, excess>>

\* Positions that may be disturbed: the bits of the frame.
FrameBits == IF kind = "burst" /\ stage = "line" THEN 2 * (Len(line) - TailSymbols) ELSE 0

Next ==
  \/ Encode \/ Decode \/ Extend
  \/ \E i \in 1 .. FrameBits, value \in {"axis", "sign"} : Disturb(i, value)
  \/ \E n \in 1 .. Len(line) : Cut(n)
  \/ \E symbols \in LeadOut : Follow(symbols)
  \/ \E n \in 1 .. 2^ValueBits - 1 : Miscount(n)

Spec == Init /\ [][Next]_vars
-----------------------------------------------------------------------------
SegmentIn == stage = "decoded" /\ kind = "segment"
BurstIn == stage = "decoded" /\ kind = "burst"

(* A segment comes out of its bytes as it went in, with all numbers up to the *)
(* width of a number and whatever bytes are behind it; one whose end is       *)
(* missing is refused, at whichever byte the message ends: decode() never     *)
(* takes a shorter one for the whole.  A report that names more claims than   *)
(* it has is refused as well, as long as reserve() can make room for them;    *)
(* beyond that, and only there, decode() throws.                              *)
SegmentRoundTrip ==
  SegmentIn =>
    /\ result.ok <=> (cut = 0 /\ excess = 0)
    /\ result.ok => result.val = source
    /\ result.thrown <=> (excess > 0 /\ Len(source.claims) + excess > MaxReserve)

(* No disturbance of header, payload and CRC, no early end, nothing that      *)
(* follows a burst, for which a disturbed frame length asks, and no receiver  *)
(* that is set to another rate makes it deliver a payload that was not sent.  *)
NoWrongPayload == BurstIn /\ result.ok => result.payload = source.payload

\* The part of the frame that FEC protects.
CodedSection == HeaderBits + 1 .. HeaderBits + ByteBits * coded_length(Len(source.payload) \div ByteBits, source.rate)

\* Errors that a burst can have: in a coded payload two at rate 1/2, one at 3/4.
Correctable ==
  IF ~source.fec THEN noise = <<>>
  ELSE /\ source.rate = source.rx
       /\ Len(noise) <= (IF source.rate = "1/2" THEN 2 ELSE 1)
       /\ ToSet(noise) \subseteq CodedSection

(* A burst that arrives whole is decoded, with and without FEC, at both       *)
(* rates, although the length of the coded payload is not in the header, and  *)
(* with two errors anywhere in a payload coded at rate 1/2, or one at 3/4:    *)
(* next to its end too, where the decoder does not use that the encoder ends  *)
(* with a register of zeros.  No more errors are counted than came.           *)
BurstRoundTrip ==
  BurstIn /\ cut <= TailSymbols /\ Correctable
    => result.ok /\ result.payload = source.payload /\ result.errors <= Len(noise)
=============================================================================
