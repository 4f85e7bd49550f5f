---------------------------- MODULE SegmentCodec ---------------------------
(***************************************************************************)
(* src/ltp_cla/sdnv.cpp and src/ltp_cla/ltp_segment.cpp: numbers and LTP   *)
(* segments as bytes, and back.                                            *)
(***************************************************************************)
EXTENDS Naturals, SequencesExt

CONSTANTS DigitBits,   \* bits of a number in a byte of an SDNV, below the mark
          MaxBytes,    \* MAX_BYTES
          ValueBits,   \* width of a number
          MaxReserve   \* the longest list of claims that reserve() makes room for

ASSUME SdnvAssumption ==
  /\ {DigitBits, MaxBytes, ValueBits} \subseteq Nat \ {0} /\ MaxReserve \in Nat
  /\ MaxBytes * DigitBits >= ValueBits

Digit == 2^DigitBits   \* also the mark that another byte follows
-----------------------------------------------------------------------------
(* sdnv::encode() and sdnv::decode(). *)

DigitCount(value) == CHOOSE n \in 1 .. MaxBytes :
  value < Digit^n /\ (n > 1 => value >= Digit^(n - 1))
SdnvEncode(value) ==
  LET n == DigitCount(value)
  IN [i \in 1 .. n |-> ((value \div Digit^(n - i)) % Digit) + (IF i < n THEN Digit ELSE 0)]

\* A parser gives what it has read and the position after it, or fails; or an
\* exception that nobody catches ends the process.
Fails(at) == [ok |-> FALSE, thrown |-> FALSE, at |-> at, val |-> <<>>]
Throws(at) == [ok |-> FALSE, thrown |-> TRUE, at |-> at, val |-> <<>>]
Reads(at, val) == [ok |-> TRUE, thrown |-> FALSE, at |-> at, val |-> val]

\* The value of the bytes from..to, in the width of a number.
Value(data, from, to) ==
  LET value[i \in from - 1 .. to] ==
        IF i < from THEN 0 ELSE (value[i - 1] * Digit + (data[i] % Digit)) % 2^ValueBits
  IN value[to]
SdnvDecode(data, at) ==
  LET ends == {i \in at .. Len(data) : data[i] < Digit}
      end == CHOOSE i \in ends : \A j \in ends : i <= j
  IN IF ends = {} \/ end - at + 1 > MaxBytes THEN Fails(at)
     ELSE Reads(end + 1, Value(data, at, end))

\* n items one after the other, each read by item(data, at).
Several(data, at, n, item(_, _)) ==
  LET read[k \in 0 .. n] ==
        IF k = 0 THEN Reads(at, <<>>)
        ELSE LET before == read[k - 1]
                 next == item(data, before.at)
             IN IF before.ok /\ next.ok THEN Reads(next.at, Append(before.val, next.val))
                ELSE Fails(before.at)
  IN read[n]
Numbers(data, at, n) == Several(data, at, n, SdnvDecode)
-----------------------------------------------------------------------------
(* LtpSegment::encode(). *)

is_valid(type) == type \in 0 .. 9 \cup {12, 13}
is_data(type) == type <= 5
has_checkpoint(type) == type \in 1 .. 3
is_report(type) == type = 6
is_cancel(type) == type \in {8, 12}

\* Numbers at the beginning of a segment's content.
NumberCount(type) ==
  CASE is_data(type) -> IF has_checkpoint(type) THEN 5 ELSE 3
    [] is_report(type) -> 4
    [] type = 7 -> 1
    [] OTHER -> 0

EncodeNumbers(nums) == FlattenSeq([i \in DOMAIN nums |-> SdnvEncode(nums[i])])
encode_extensions(exts) ==
  FlattenSeq([i \in DOMAIN exts |-> <<exts[i].tag>> \o SdnvEncode(Len(exts[i].value))
                                       \o exts[i].value])

\* The counts and lengths a segment has as fields of their own are those of its
\* lists and its data, as the engine sets them; the third number of a data segment
\* is the length of its data.  A report names the number of its claims.
EncodeClaiming(seg, count) ==
  <<seg.type>> \o EncodeNumbers(seg.session) \o <<Len(seg.header), Len(seg.trailer)>>
    \o encode_extensions(seg.header)
    \o EncodeNumbers(seg.nums)
    \o (IF is_report(seg.type)
          THEN SdnvEncode(count) \o EncodeNumbers(FlattenSeq(seg.claims)) ELSE <<>>)
    \o seg.data
    \o encode_extensions(seg.trailer)
SegmentEncode(seg) == EncodeClaiming(seg, Len(seg.claims))
-----------------------------------------------------------------------------
(* LtpSegment::decode(). *)

\* n bytes as they are.
Raw(data, at, n) ==
  IF at + n - 1 > Len(data) THEN Fails(at) ELSE Reads(at + n, SubSeq(data, at, at + n - 1))

Extension(data, at) ==
  LET length == SdnvDecode(data, at + 1)
      value == Raw(data, length.at, length.val)
  IN IF at <= Len(data) /\ length.ok /\ value.ok
       THEN Reads(value.at, [tag |-> data[at], value |-> value.val]) ELSE Fails(at)
decode_extensions(data, at, count) == Several(data, at, count, Extension)

\* reserve() throws length_error or bad_alloc for a number of claims that is too
\* large, before it is known whether they are there.  decode() catches a
\* runtime_error, which these are not, and its caller nothing.
Claim(data, at) == Numbers(data, at, 2)
Claims(type, data, at) ==
  LET count == SdnvDecode(data, at)
  IN CASE ~is_report(type) -> Reads(at, <<>>)
       [] is_report(type) /\ ~count.ok -> Fails(at)
       [] is_report(type) /\ count.ok /\ count.val > MaxReserve -> Throws(at)
       [] OTHER -> Several(data, count.at, count.val, Claim)

\* The bytes after the numbers: the data, or the reason of a cancel segment.
BodyUnchecked(type, nums, data, at) ==
  LET n == IF is_data(type) THEN nums[3] ELSE IF is_cancel(type) THEN 1 ELSE 0
  IN Reads(at + n, SubSeq(data, at, IF at + n - 1 > Len(data) THEN Len(data) ELSE at + n - 1))
Body(type, nums, data, at) ==
  Raw(data, at, IF is_data(type) THEN nums[3] ELSE IF is_cancel(type) THEN 1 ELSE 0)

\* None of the parts is read when one before it has failed.
SegmentDecode(data) ==
  LET type == data[1] % 16
      session == Numbers(data, 2, 2)
      counts == Raw(data, session.at, 2)
      header == decode_extensions(data, counts.at, counts.val[1])
      nums == Numbers(data, header.at, NumberCount(type))
      claims == Claims(type, data, nums.at)
      body == Body(type, nums.val, data, claims.at)
      trailer == decode_extensions(data, body.at, counts.val[2])
      begins == /\ data # <<>> /\ data[1] \div 16 = 0 /\ is_valid(type)
                /\ session.ok /\ counts.ok /\ header.ok /\ nums.ok
  IN IF begins /\ claims.ok /\ body.ok /\ trailer.ok
       THEN Reads(trailer.at,
                  [type |-> type, session |-> session.val, header |-> header.val,
                   nums |-> nums.val, claims |-> claims.val, data |-> body.val,
                   trailer |-> trailer.val])
       ELSE IF begins /\ claims.thrown THEN claims ELSE Fails(1)
=============================================================================
