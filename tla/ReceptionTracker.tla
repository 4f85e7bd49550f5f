-------------------------- MODULE ReceptionTracker -------------------------
(***************************************************************************)
(* src/ltp_cla/reception_tracker.cpp: the ranges of bytes that a receiving *)
(* session holds, as a sorted list that add_range merges into, and         *)
(* LtpEngine::compute_gaps, which the originator applies to such a list.   *)
(***************************************************************************)
EXTENDS Intervals, Lists

CONSTANT Limit     \* bound: the offsets of the instance are below Limit
ASSUME LimitAssumption == Limit \in Nat \ {0}

VARIABLE ranges_

TInit == ranges_ = <<>>

MergeRoundStrict(m, r) ==
  IF m.open /\ r.offset < m.stop
  THEN [start |-> Min({m.start, r.offset}), stop |-> Max({m.stop, End(r)}),
        merged |-> m.merged + 1, open |-> TRUE]
  ELSE [m EXCEPT !.open = FALSE]
MergeRoundCutting(m, r) ==
  IF m.open /\ r.offset <= m.stop
  THEN [start |-> m.start, stop |-> Max({m.stop, End(r)}),
        merged |-> m.merged + 1, open |-> TRUE]
  ELSE [m EXCEPT !.open = FALSE]
\* One round of the merging loop: it swallows ranges until the first one that
\* begins after the end of the merged range.
MergeRound(m, r) ==
  IF m.open /\ r.offset <= m.stop
  THEN [start |-> Min({m.start, r.offset}), stop |-> Max({m.stop, End(r)}),
        merged |-> m.merged + 1, open |-> TRUE]
  ELSE [m EXCEPT !.open = FALSE]

\* How many ranges the first loop passes: those that end before the new one.
Skipped(rs, o) == Min({i \in 0 .. Len(rs) : i = Len(rs) \/ End(rs[i + 1]) >= o})

\* The merging loop from there on.
MergeLoop(rs, skipped, o, l) ==
  LET m[i \in 0 .. Len(rs) - skipped] ==
        IF i = 0 THEN [start |-> o, stop |-> o + l, merged |-> 0, open |-> TRUE]
        ELSE MergeRound(m[i - 1], rs[skipped + i])
  IN m[Len(rs) - skipped]

Merged(rs, o, l) ==
  LET skipped == Skipped(rs, o)
      m == MergeLoop(rs, skipped, o, l)
  IN SubSeq(rs, 1, skipped) \o <<Claim(m.start, m.stop - m.start)>>
       \o SubSeq(rs, skipped + m.merged + 1, Len(rs))

Added(rs, o, l) == IF l = 0 THEN rs ELSE Merged(rs, o, l)

add_range(o, l) == ranges_' = Added(ranges_, o, l)

is_complete(rs, total) ==
  \/ total = 0
  \/ Len(rs) = 1 /\ rs[1].offset = 0 /\ rs[1].length >= total

GapRoundUnclipped(upper, g, r) ==
  IF g.cursor >= upper \/ End(r) <= g.cursor THEN g
  ELSE [cursor |-> End(r),
        gaps |-> IF r.offset > g.cursor
                 THEN Append(g.gaps, Claim(g.cursor, r.offset - g.cursor))
                 ELSE g.gaps]
\* The scan shared by get_gaps and compute_gaps: a cursor moves over the list.
GapRound(upper, g, r) ==
  IF g.cursor >= upper \/ End(r) <= g.cursor THEN g
  ELSE [cursor |-> End(r),
        gaps |-> IF r.offset > g.cursor
                 THEN Append(g.gaps, Claim(g.cursor, Min({r.offset, upper}) - g.cursor))
                 ELSE g.gaps]

GapScan(claims, lower, upper) ==
  LET g[i \in 0 .. Len(claims)] ==
        IF i = 0 THEN [cursor |-> lower, gaps |-> <<>>]
        ELSE GapRound(upper, g[i - 1], claims[i])
  IN g[Len(claims)]

compute_gaps(claims, lower, upper) ==
  LET g == GapScan(claims, lower, upper)
  IN IF g.cursor < upper THEN Append(g.gaps, Claim(g.cursor, upper - g.cursor))
                         ELSE g.gaps

get_gaps(rs, lower, upper) ==
  IF lower >= upper THEN <<>> ELSE compute_gaps(rs, lower, upper)

total_received(rs) == SumOf([i \in 1 .. Len(rs) |-> rs[i].length])

clear == ranges_' = <<>>

TNext == \/ \E o \in 0 .. Limit - 1 : \E l \in 0 .. Limit - o : add_range(o, l)
         \/ clear

TSpec == TInit /\ [][TNext]_ranges_
-----------------------------------------------------------------------------
\* The list always is the canonical one for its bytes: sorted, no empty range,
\* no two ranges that overlap or touch.  is_complete and the originator's test
\* for full coverage rely on it.
CanonicalRanges == ranges_ = MaximalRanges(Bytes(ranges_))

\* get_gaps, on the receiver's list, and compute_gaps, on the claims of a
\* report, find exactly the missing bytes of a scope, as maximal ranges.
GapsExact ==
  \A lower \in 0 .. Limit, upper \in 0 .. Limit :
     LET missing == MaximalRanges((lower .. upper - 1) \ Bytes(ranges_))
     IN /\ get_gaps(ranges_, lower, upper) = missing
        /\ compute_gaps(ranges_, lower, upper) = missing

\* is_complete never claims a byte that is missing.
CompleteSound == \A t \in 0 .. Limit :
                    is_complete(ranges_, t) => 0 .. t - 1 \subseteq Bytes(ranges_)

\* total_received counts each byte once, however often it was received.
TotalCountsBytes == total_received(ranges_) = Cardinality(Bytes(ranges_))

\* What the engine asks of a list is answered as for the set of its bytes.
QueriesExact == GapsExact /\ CompleteSound /\ TotalCountsBytes

Abstract == INSTANCE ByteSet WITH received <- Bytes(ranges_)

\* The merged list implements the set of received bytes.
TracksByteSet == Abstract!BSpec
=============================================================================
