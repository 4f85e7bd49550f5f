----------------------------- MODULE LtpEngine -----------------------------
(***************************************************************************)
(* src/ltp_cla/ltp_engine.cpp: the sessions of the LTP engines at the ends *)
(* of a link.  Each handler (start_session, receive_segment and its five   *)
(* cases, handle_timer_expiry, cancel_session) is one atomic action of the *)
(* engine e it runs on.                                                    *)
(*                                                                         *)
(* Of its collaborators an engine sees the timers it starts and cancels    *)
(* (module TimerManager models the thread behind them) and the segments it *)
(* sends, which module LtpLink carries to the peer.  A session's reception *)
(* tracker is the set of received offsets: module ReceptionTracker checks  *)
(* that the list of ranges is exactly that.  Diagnostics counters, logging *)
(* and the byte encoding of segments are left out.                         *)
(***************************************************************************)
EXTENDS Intervals, Lists

CONSTANTS
  Engine,               \* the two engines
  Byte, Zero,           \* byte values; Zero is what resize() fills in
  max_segment_size,
  max_retransmissions,
  max_concurrent_sessions,
  CountModulus          \* 2^8: retransmission_count is a uint8_t

ASSUME EngineAssumption == \E a, b \in Engine : a # b /\ Engine = {a, b}
ASSUME ConfigAssumption ==   \* what LtpClaConfig::validate() enforces
  /\ max_segment_size \in Nat \ {0}
  /\ CountModulus \in Nat /\ max_retransmissions \in 1 .. CountModulus - 1
  /\ max_concurrent_sessions \in Nat \ {0}
ASSUME ZeroAssumption == Zero \notin Byte

VARIABLES
  session_counter_,  \* [Engine -> Nat]
  sessions_,         \* [Engine -> [<<engine_id, session_number>> -> session]]
  timers,            \* [Engine -> Seq(timer)]: pending, the next to expire first
  firing,            \* [Engine -> Seq(event)]: taken by the timer thread, callback due
  net,               \* [Engine -> Seq(segment)]: on the way to the engine
  given,             \* history [Engine -> Seq(block)]: what start_session accepted
  delivered          \* history [Engine -> Seq(delivery)]: on_data_arrival_ calls

evars == <<session_counter_, sessions_, timers, firing, net, given, delivered>>

Peer(e) == CHOOSE p \in Engine : p # e
-----------------------------------------------------------------------------
(* Segment types: the predicates of namespace SegType. *)

RedTypes == {"RED_DATA", "RED_DATA_CP", "RED_DATA_CP_EORP_EOB"}
GreenTypes == {"GREEN_DATA", "GREEN_DATA_EOB"}
CheckpointTypes == {"RED_DATA_CP", "RED_DATA_CP_EORP_EOB"}
EobTypes == {"RED_DATA_CP_EORP_EOB", "GREEN_DATA_EOB"}
CancelTypes == {"CANCEL_BY_SENDER", "CANCEL_BY_RECEIVER"}
CancelAckTypes == {"CANCEL_ACK_TO_SENDER", "CANCEL_ACK_TO_RECEIVER"}

\* A data segment; serial is its checkpoint serial, 0 when it is no checkpoint.
DataSegment(k, type, off, data, serial) ==
  [type |-> type, key |-> k, offset |-> off, data |-> data, checkpoint |-> serial]
ReportSegment(k, rserial, cserial, upper, claims) ==
  [type |-> "REPORT", key |-> k, report |-> rserial, checkpoint |-> cserial,
   upper |-> upper, claims |-> claims]
ReportAck(k, rserial) == [type |-> "REPORT_ACK", key |-> k, report |-> rserial]
CancelSegment(k, type) == [type |-> type, key |-> k]
-----------------------------------------------------------------------------
(* Sessions. *)

Originator(data, red) ==
  [role |-> "ORIGINATOR", client_data |-> data, total_data_length |-> Len(data),
   is_red |-> red, tracker |-> {}, checkpoint_serial_counter |-> 0,
   report_serial_counter |-> 0, retransmission_count |-> 0]
Receiver(red) ==
  [role |-> "RECEIVER", client_data |-> <<>>, total_data_length |-> 0,
   is_red |-> red, tracker |-> {}, checkpoint_serial_counter |-> 0,
   report_serial_counter |-> 0, retransmission_count |-> 0]

\* A session is in the map exactly while it is ACTIVE: whoever completes or
\* cancels it erases it in the same call.
Known(e, k) == k \in DOMAIN sessions_[e]
PoolFullLate(e) == Cardinality(DOMAIN sessions_[e]) > max_concurrent_sessions
PoolFull(e) == Cardinality(DOMAIN sessions_[e]) >= max_concurrent_sessions
With(e, k, s) == [j \in DOMAIN sessions_[e] \cup {k} |->
                     IF j = k THEN s ELSE sessions_[e][j]]
Erased(e, k) == Restrict(sessions_[e], DOMAIN sessions_[e] \ {k})

\* ++retransmission_count, a uint8_t that wraps around.
RetryCount(s) == (s.retransmission_count + 1) % CountModulus

CoversByEnd(S, total) == total = 0 \/ total - 1 \in S
\* ReceptionTracker::is_complete and the originator's test of a report's claims:
\* nothing to receive, or one range, from offset 0, as long as the block.
Covers(S, total) ==
  total = 0 \/ (S = 0 .. Cardinality(S) - 1 /\ Cardinality(S) >= total)
-----------------------------------------------------------------------------
(* Segmentation. *)

\* [lo, hi) cut into chunks of at most max_segment_size.
Chunks(lo, hi) ==
  [i \in 1 .. (hi - lo + max_segment_size - 1) \div max_segment_size |->
     LET off == lo + (i - 1) * max_segment_size
     IN Claim(off, Min({max_segment_size, hi - off}))]

\* Red data segments for chunks, the last one of type lastType with the serial.
Segments(k, data, chunks, type, lastType, serial) ==
  [i \in 1 .. Len(chunks) |->
     LET last == i = Len(chunks)
         c == chunks[i]
     IN DataSegment(k, IF last THEN lastType ELSE type, c.offset,
                    SubSeq(data, c.offset + 1, End(c)),
                    IF last THEN serial ELSE 0)]

\* The whole block; an empty block is one segment of length 0.
segment_data(k, s, serial) ==
  LET n == Len(s.client_data)
      chunks == IF n = 0 THEN <<Claim(0, 0)>> ELSE Chunks(0, n)
  IN IF s.is_red
     THEN Segments(k, s.client_data, chunks, "RED_DATA", "RED_DATA_CP_EORP_EOB", serial)
     ELSE Segments(k, s.client_data, chunks, "GREEN_DATA", "GREEN_DATA_EOB", 0)

\* The missing bytes, the last segment a new checkpoint but not the end of block.
retransmit_gaps(k, s, gaps, serial) ==
  Segments(k, s.client_data,
           FlattenSeq([i \in 1 .. Len(gaps) |-> Chunks(gaps[i].offset, End(gaps[i]))]),
           "RED_DATA", "RED_DATA_CP", serial)
-----------------------------------------------------------------------------
(* Timers.  All run for retransmission_timeout_ms, so they expire in the   *)
(* order in which they were started.  checkpoint_timers_ and report_timers_ *)
(* map a session number and serial to the newest timer for it (mapped).    *)

Event(type, k, serial) == [type |-> type, key |-> k, serial |-> serial]

\* The maps are keyed by session number and serial, without the engine.
SameTimerKey(a, b) == a.type = b.type /\ a.key[2] = b.key[2] /\ a.serial = b.serial

StartTimer(ts, ev) ==
  Append([i \in DOMAIN ts |->
            [ts[i] EXCEPT !.mapped = @ /\ ~SameTimerKey(ts[i].event, ev)]],
         [event |-> ev, mapped |-> TRUE])

CancelTimer(ts, ev) ==
  Without(ts, {t \in ToSet(ts) : t.mapped /\ SameTimerKey(t.event, ev)})

TimedByEob(m) == m.type \in {"RED_DATA_CP_EORP_EOB", "REPORT"}
TimedReport(m) == m.type = "REPORT"
TimedCheckpoint(m) == m.type \in CheckpointTypes
\* The segments that send_segment starts a timer for.
Timed(m) == m.type \in CheckpointTypes \cup {"REPORT"}
\* One call of a handler sends at most one of them.
SendTimers(ts, out) ==
  LET timed == {m \in ToSet(out) : Timed(m)}
      m == CHOOSE s \in timed : TRUE
  IN IF timed = {} THEN ts
     ELSE StartTimer(ts, IF m.type = "REPORT" THEN Event("REPORT_SEGMENT", m.key, m.report)
                                              ELSE Event("CHECKPOINT", m.key, m.checkpoint))
-----------------------------------------------------------------------------
(* The engine e goes on with the sessions ss and the timers ts and sends   *)
(* the segments out.  rest is what is left to receive.                     *)
Proceed(e, ss, ts, rest, out) ==
  /\ sessions_' = [sessions_ EXCEPT ![e] = ss]
  /\ timers' = [timers EXCEPT ![e] = SendTimers(ts, out)]
  /\ net' = [net EXCEPT ![e] = rest, ![Peer(e)] = @ \o out]

\* The callbacks to the client: on_session_complete_ and on_session_failure_ of an
\* originator's session, and on_data_arrival_.
Outcome(e, k, how) == given' = [given EXCEPT ![e][k[2]].outcome = how]
Deliver(e, k, data) == delivered' = [delivered EXCEPT ![e] = Append(@, [key |-> k, data |-> data])]

\* A call of start_session that is accepted.
start_session(e, data, red) ==
  LET k == <<e, session_counter_[e] + 1>>
      s == Originator(data, red)
      out == segment_data(k, s, 1)
  IN /\ ~PoolFull(e)
     /\ session_counter_' = [session_counter_ EXCEPT ![e] = @ + 1]
     /\ given' = [given EXCEPT ![e] = Append(@, [data |-> data, red |-> red,
                     outcome |-> IF red THEN "open" ELSE "sent"])]
     /\ Proceed(e, IF red THEN With(e, k, [s EXCEPT !.checkpoint_serial_counter = 1])
                          ELSE sessions_[e],
                timers[e], net[e], out)
     /\ UNCHANGED <<firing, delivered>>
-----------------------------------------------------------------------------
(* receive_segment: the segment at the head of net[e]. *)

Arrives(e, types) == net[e] # <<>> /\ Head(net[e]).type \in types

\* Data for a session that no longer fits into the pool.
receive_data_dropped(e) ==
  /\ Arrives(e, RedTypes \cup GreenTypes)
  /\ ~Known(e, Head(net[e]).key) /\ PoolFull(e)
  /\ net' = [net EXCEPT ![e] = Tail(@)]
  /\ UNCHANGED <<session_counter_, sessions_, timers, firing, given, delivered>>

ReassembledAtStart(old, off, data) ==
  [i \in 1 .. Max({Len(old), off + Len(data)}) |->
     IF i <= Len(data) THEN data[i] ELSE IF i <= Len(old) THEN old[i] ELSE Zero]
\* The reassembly buffer after a segment, its holes filled with Zero.
Reassembled(old, off, data) ==
  [i \in 1 .. Max({Len(old), off + Len(data)}) |->
     CASE i \in off + 1 .. off + Len(data) -> data[i - off]
       [] i \in DOMAIN old \ (off + 1 .. off + Len(data)) -> old[i]
       [] OTHER -> Zero]

TotalAnyEnd(m, total) == m.offset + Len(m.data)
\* The end of block tells the length of the block.
Total(m, total) == IF m.type \in EobTypes THEN m.offset + Len(m.data) ELSE total
\* The receiving session after a data segment has been stored.
Stored(e, m) ==
  LET s == IF Known(e, m.key) THEN sessions_[e][m.key] ELSE Receiver(m.type \in RedTypes)
  IN [s EXCEPT !.client_data = Reassembled(@, m.offset, m.data),
               !.tracker = @ \cup (m.offset .. m.offset + Len(m.data) - 1),
               !.total_data_length = Total(m, @)]

generate_report(k, s, cserial, upper) ==
  ReportSegment(k, s.report_serial_counter + 1, cserial, upper, s.tracker)

receive_data_segment(e) ==
  /\ Arrives(e, RedTypes \cup {"GREEN_DATA"})
  /\ Known(e, Head(net[e]).key) \/ ~PoolFull(e)
  /\ LET m == Head(net[e])
         s == Stored(e, m)
         report == generate_report(m.key, s, m.checkpoint, m.offset + Len(m.data))
     IN IF m.type \in CheckpointTypes
        THEN Proceed(e, With(e, m.key, [s EXCEPT !.report_serial_counter = @ + 1]),
                     timers[e], Tail(net[e]), <<report>>)
        ELSE Proceed(e, With(e, m.key, s), timers[e], Tail(net[e]), <<>>)
  /\ UNCHANGED <<session_counter_, firing, given, delivered>>

\* The end of a green block: delivered as it is, and the session is over.
receive_green_eob(e) ==
  /\ Arrives(e, {"GREEN_DATA_EOB"})
  /\ Known(e, Head(net[e]).key) \/ ~PoolFull(e)
  /\ LET m == Head(net[e])
         s == Stored(e, m)
     IN /\ Deliver(e, m.key, SubSeq(s.client_data, 1, s.total_data_length))
        /\ Proceed(e, Erased(e, m.key), timers[e], Tail(net[e]), <<>>)
  /\ UNCHANGED <<session_counter_, firing, given>>

\* A report for a session that is gone is acknowledged all the same.
receive_report_unknown(e) ==
  /\ Arrives(e, {"REPORT"})
  /\ LET m == Head(net[e])
     IN /\ ~Known(e, <<e, m.key[2]>>)
        /\ Proceed(e, sessions_[e], timers[e], Tail(net[e]), <<ReportAck(m.key, m.report)>>)
  /\ UNCHANGED <<session_counter_, firing, given, delivered>>

\* cancel_session for an originator that used up its retransmissions.
GiveUp(e, k, ts, rest, out) ==
  /\ Proceed(e, Erased(e, k), ts, rest, out \o <<CancelSegment(k, "CANCEL_BY_SENDER")>>)
  /\ Outcome(e, k, "failed")

\* A report for an active session: acknowledge it and stop the checkpoint's
\* timer, then complete the session, wait, give up or retransmit the gaps.
receive_report_segment(e) ==
  /\ Arrives(e, {"REPORT"})
  /\ LET m == Head(net[e])
         k == <<e, m.key[2]>>
         s == sessions_[e][k]
         ack == <<ReportAck(m.key, m.report)>>
         ts == CancelTimer(timers[e], Event("CHECKPOINT", k, m.checkpoint))
         gaps == MaximalRanges((0 .. m.upper - 1) \ m.claims)
         count == RetryCount(s)
         serial == s.checkpoint_serial_counter + 1
     IN /\ Known(e, k)
        /\ \/ /\ Covers(m.claims, s.total_data_length)
              /\ Proceed(e, Erased(e, k), ts, Tail(net[e]), ack)
              /\ Outcome(e, k, "complete")
           \/ /\ ~Covers(m.claims, s.total_data_length) /\ gaps = <<>>
              /\ Proceed(e, sessions_[e], ts, Tail(net[e]), ack)
              /\ UNCHANGED given
           \/ /\ ~Covers(m.claims, s.total_data_length) /\ gaps # <<>>
              /\ count > max_retransmissions
              /\ GiveUp(e, k, ts, Tail(net[e]), ack)
           \/ /\ ~Covers(m.claims, s.total_data_length) /\ gaps # <<>>
              /\ count <= max_retransmissions
              /\ Proceed(e, With(e, k, [s EXCEPT !.retransmission_count = count,
                                                 !.checkpoint_serial_counter = serial]),
                         ts, Tail(net[e]), ack \o retransmit_gaps(k, s, gaps, serial))
              /\ UNCHANGED given
  /\ UNCHANGED <<session_counter_, firing, delivered>>

\* An acknowledgement stops the report's timer; a complete block is delivered.
receive_report_ack(e) ==
  /\ Arrives(e, {"REPORT_ACK"})
  /\ LET m == Head(net[e])
         ts == CancelTimer(timers[e], Event("REPORT_SEGMENT", m.key, m.report))
         s == sessions_[e][m.key]
     IN \/ /\ ~Known(e, m.key)
           /\ Proceed(e, sessions_[e], timers[e], Tail(net[e]), <<>>)
           /\ UNCHANGED delivered
        \/ /\ Known(e, m.key) /\ ~Covers(s.tracker, s.total_data_length)
           /\ Proceed(e, sessions_[e], ts, Tail(net[e]), <<>>)
           /\ UNCHANGED delivered
        \/ /\ Known(e, m.key) /\ Covers(s.tracker, s.total_data_length)
           /\ Deliver(e, m.key, SubSeq(s.client_data, 1, s.total_data_length))
           /\ Proceed(e, Erased(e, m.key), ts, Tail(net[e]), <<>>)
  /\ UNCHANGED <<session_counter_, firing, given>>

AckOf(type) == IF type = "CANCEL_BY_SENDER" THEN "CANCEL_ACK_TO_SENDER"
                                            ELSE "CANCEL_ACK_TO_RECEIVER"

\* The failure callback of a receiving session concerns no block of this engine.
CancelledOutcome(e, k) == IF k[1] = e THEN Outcome(e, k, "failed") ELSE UNCHANGED given

receive_cancel_unchecked(e) ==
  /\ Arrives(e, CancelTypes)
  /\ LET m == Head(net[e])
     IN /\ Proceed(e, Erased(e, m.key), timers[e], Tail(net[e]),
                   <<CancelSegment(m.key, AckOf(m.type))>>)
        /\ CancelledOutcome(e, m.key)
  /\ UNCHANGED <<session_counter_, firing, delivered>>
receive_cancel_segment(e) ==
  /\ Arrives(e, CancelTypes)
  /\ LET m == Head(net[e])
     IN /\ Proceed(e, Erased(e, m.key), timers[e], Tail(net[e]),
                   <<CancelSegment(m.key, AckOf(m.type))>>)
        /\ IF Known(e, m.key) THEN CancelledOutcome(e, m.key) ELSE UNCHANGED given
  /\ UNCHANGED <<session_counter_, firing, delivered>>

\* The session was erased when it was cancelled, so nothing is left to do.
receive_cancel_ack(e) ==
  /\ Arrives(e, CancelAckTypes)
  /\ Proceed(e, sessions_[e], timers[e], Tail(net[e]), <<>>)
  /\ UNCHANGED <<session_counter_, firing, given, delivered>>

receive_segment(e) ==
  \/ receive_data_dropped(e) \/ receive_data_segment(e) \/ receive_green_eob(e)
  \/ receive_report_unknown(e) \/ receive_report_segment(e)
  \/ receive_report_ack(e) \/ receive_cancel_segment(e) \/ receive_cancel_ack(e)
-----------------------------------------------------------------------------
\* cancel_session, called by the application for a session of either role.
cancel_session(e, k) ==
  /\ Known(e, k)
  /\ Proceed(e, Erased(e, k), timers[e], net[e],
             <<CancelSegment(k, IF sessions_[e][k].role = "ORIGINATOR"
                                THEN "CANCEL_BY_SENDER" ELSE "CANCEL_BY_RECEIVER")>>)
  /\ CancelledOutcome(e, k)
  /\ UNCHANGED <<session_counter_, firing, delivered>>

\* The timer thread takes the timer that expires next and releases its lock:
\* from here on cancelling it has no effect.
timer_pop(e) ==
  /\ firing[e] = <<>> /\ timers[e] # <<>>
  /\ firing' = [firing EXCEPT ![e] = <<Head(timers[e]).event>>]
  /\ timers' = [timers EXCEPT ![e] = Tail(@)]
  /\ UNCHANGED <<session_counter_, sessions_, net, given, delivered>>

\* An expired checkpoint timer resends the whole block under a new checkpoint,
\* or gives up; an expired report timer sends a new report.
handle_timer_expiry(e) ==
  /\ firing[e] # <<>>
  /\ firing' = [firing EXCEPT ![e] = <<>>]
  /\ LET ev == firing[e][1]
         k == ev.key
         s == sessions_[e][k]
         count == RetryCount(s)
         serial == s.checkpoint_serial_counter + 1
     IN \/ /\ ~Known(e, k)
           /\ UNCHANGED <<sessions_, timers, net, given>>
        \/ /\ Known(e, k) /\ ev.type = "CHECKPOINT" /\ count > max_retransmissions
           /\ GiveUp(e, k, timers[e], net[e], <<>>)
        \/ /\ Known(e, k) /\ ev.type = "CHECKPOINT" /\ count <= max_retransmissions
           /\ Proceed(e, With(e, k, [s EXCEPT !.retransmission_count = count,
                                              !.checkpoint_serial_counter = serial]),
                      timers[e], net[e], segment_data(k, s, serial))
           /\ UNCHANGED given
        \/ /\ Known(e, k) /\ ev.type = "REPORT_SEGMENT" /\ s.total_data_length > 0
           /\ Proceed(e, With(e, k, [s EXCEPT !.report_serial_counter = @ + 1]),
                      timers[e], net[e],
                      <<generate_report(k, s, ev.serial, s.total_data_length)>>)
           /\ UNCHANGED given
        \/ /\ Known(e, k) /\ ev.type = "REPORT_SEGMENT" /\ s.total_data_length = 0
           /\ UNCHANGED <<sessions_, timers, net, given>>
  /\ UNCHANGED <<session_counter_, delivered>>
-----------------------------------------------------------------------------
EInit ==
  /\ session_counter_ = [e \in Engine |-> 0]
  /\ sessions_ = [e \in Engine |-> <<>>]
  /\ timers = [e \in Engine |-> <<>>] /\ firing = [e \in Engine |-> <<>>]
  /\ net = [e \in Engine |-> <<>>]
  /\ given = [e \in Engine |-> <<>>] /\ delivered = [e \in Engine |-> <<>>]
=============================================================================
