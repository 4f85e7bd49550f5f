----------------------- MODULE ConvergenceLayerAdapter ---------------------
(***************************************************************************)
(* src/ltp_cla/convergence_layer_adapter.cpp: two threads between the LTP  *)
(* engine and the modem.  The TX thread takes segments from a queue and    *)
(* writes them as frames to one TCP connection; the RX thread reads        *)
(* another one and hands whole messages to a callback.  Both reconnect.    *)
(* The modem, the network and the kernel's part are at the end.            *)
(***************************************************************************)
EXTENDS Framing

CONSTANTS Segment,       \* the encoded segments, sequences of bytes
          InitialDelay, MaxDelay,  \* config_: the reconnection delays
          DelayMod,      \* 2^32: delay_ms is a uint32_t
          MaxMessages,   \* bound: calls of send_segment and frames from the modem
          MaxUpsets      \* bound: connections lost or stalled, and calls of start()
                         \* after the first

\* LtpClaConfig::validate(), except that it sets no upper limit to the delay;
\* and that a frame is shorter than 2^32 bytes.
ASSUME DelayAssumption ==
  /\ InitialDelay \in Nat \ {0} /\ MaxDelay \in Nat /\ DelayMod \in Nat
  /\ InitialDelay <= MaxDelay /\ 2 * MaxDelay < DelayMod
ASSUME SegmentAssumption ==
  /\ Segment \subseteq Seq(Byte)
  /\ \A s \in Segment : PrefixLen + Len(s) < Wrap
ASSUME LimitAssumption == {MaxMessages, MaxUpsets} \subseteq Nat

Side == {"TX", "RX"}

VARIABLES
  running_, tx_queue_,
  fd,          \* per side: "closed" (-1), "open", "broken": lost, not yet seen;
               \* and for TX "stalled": the modem does not read, and its window is full
  connected,   \* tx_connected_ and rx_connected_
  pc, delay,   \* per side: where the thread stands, and its delay_ms
  owner,       \* the call of stop(): "idle", "notify", "joinTX", "joinRX", "close";
               \* "killed" once a signal has ended the process
  segment,     \* the segment in the TX thread's hand, as a sequence of at most one
  written,     \* how much of its frame is written
  buffer,      \* the RX thread's buffer
  wire,        \* bytes the modem has sent and the RX thread has not read
  stream,      \* history: the bytes written on the current TX connection
  whole,       \* history: the segments written in full on that connection
  accepted, finished,  \* history: segments given to send_segment, and written
  peerSent, received,  \* history: on the current RX connection, frames sent and
                       \* messages given to the callback
  missed,      \* history: stop() notified while the TX thread had decided to block
  started, upsets, messages  \* counters for the bounds

counters == <<started, upsets, messages, missed>>
txHist == <<stream, whole, accepted, finished>>
txVars == <<tx_queue_, segment, written, stream, whole, accepted, finished>>
rxVars == <<buffer, wire, peerSent, received>>
vars == <<running_, fd, connected, pc, delay, owner, txVars, rxVars, counters>>

Frame == frame_message(segment[1])

Init ==
  /\ running_ = FALSE /\ tx_queue_ = <<>>
  /\ fd = [s \in Side |-> "closed"] /\ connected = [s \in Side |-> FALSE]
  /\ pc = [s \in Side |-> "none"] /\ delay = [s \in Side |-> InitialDelay]
  /\ owner = "idle" /\ segment = <<>> /\ written = 0 /\ buffer = <<>> /\ wire = <<>>
  /\ stream = <<>> /\ whole = <<>> /\ accepted = <<>> /\ finished = <<>>
  /\ peerSent = <<>> /\ received = <<>>
  /\ missed = FALSE /\ started = FALSE /\ upsets = 0 /\ messages = 0

Goto(s, place) == pc' = [pc EXCEPT ![s] = place]
-----------------------------------------------------------------------------
(* Calls from other threads. *)

\* A notification makes a TX thread that blocks on the condition variable
\* contend for the mutex; "decided" is the one place where it holds the mutex
\* from one step to the next.
Notified == IF pc["TX"] = "blocked" THEN [pc EXCEPT !["TX"] = "lock"] ELSE pc
MutexFree == pc["TX"] # "decided"

\* The push holds the mutex.  The notification comes after it, which only
\* delays a thread that blocks already.
SendUnheard(s) ==
  /\ MutexFree /\ owner # "killed" /\ messages < MaxMessages
  /\ tx_queue_' = Append(tx_queue_, s) /\ accepted' = Append(accepted, s)
  /\ messages' = messages + 1
  /\ UNCHANGED <<running_, fd, connected, pc, delay, owner, segment, written,
                 stream, whole, finished, rxVars, started, upsets, missed>>
send_segment(s) ==
  /\ MutexFree /\ owner # "killed" /\ messages < MaxMessages
  /\ tx_queue_' = Append(tx_queue_, s) /\ accepted' = Append(accepted, s)
  /\ pc' = Notified /\ messages' = messages + 1
  /\ UNCHANGED <<running_, fd, connected, delay, owner, segment, written,
                 stream, whole, finished, rxVars, started, upsets, missed>>

\* The queue keeps what an earlier run left in it; the rest of a thread's
\* state is local to it.
start ==
  /\ owner = "idle" /\ ~running_
  /\ IF started THEN upsets < MaxUpsets /\ upsets' = upsets + 1 ELSE UNCHANGED upsets
  /\ running_' = TRUE /\ started' = TRUE
  /\ pc' = [s \in Side |-> "connect"] /\ delay' = [s \in Side |-> InitialDelay]
  /\ segment' = <<>> /\ written' = 0 /\ buffer' = <<>>
  /\ accepted' = tx_queue_ /\ finished' = <<>> /\ missed' = FALSE
  /\ UNCHANGED <<fd, connected, owner, tx_queue_, stream, whole, wire,
                 peerSent, received, messages>>

\* stop() clears the flag and notifies, both without the mutex.
stop ==
  /\ owner = "idle" /\ running_
  /\ running_' = FALSE /\ owner' = "notify"
  /\ UNCHANGED <<fd, connected, pc, delay, txVars, rxVars, counters>>

StopUnheard ==
  /\ owner = "notify" /\ owner' = "joinTX" /\ missed' = (pc["TX"] = "decided")
  /\ UNCHANGED <<running_, fd, connected, pc, delay, txVars, rxVars, started, upsets,
                 messages>>
StopNotify ==
  /\ owner = "notify" /\ owner' = "joinTX" /\ pc' = Notified /\ missed' = (pc["TX"] = "decided")
  /\ UNCHANGED <<running_, fd, connected, delay, txVars, rxVars, started, upsets,
                 messages>>

\* join() returns when the thread has ended.
JoinTX ==
  /\ owner = "joinTX" /\ pc["TX"] = "done" /\ owner' = "joinRX" /\ Goto("TX", "none")
  /\ UNCHANGED <<running_, fd, connected, delay, txVars, rxVars, counters>>

SkipJoinRX ==
  /\ owner = "joinRX" /\ owner' = "close"
  /\ UNCHANGED <<running_, fd, connected, pc, delay, txVars, rxVars, counters>>
JoinRX ==
  /\ owner = "joinRX" /\ pc["RX"] = "done" /\ owner' = "close" /\ Goto("RX", "none")
  /\ UNCHANGED <<running_, fd, connected, delay, txVars, rxVars, counters>>

StopClose ==
  /\ owner = "close" /\ owner' = "idle"
  /\ fd' = [s \in Side |-> "closed"] /\ connected' = [s \in Side |-> FALSE]
  /\ UNCHANGED <<running_, pc, delay, txVars, rxVars, counters>>

StopStep == StopNotify \/ JoinTX \/ JoinRX \/ StopClose
-----------------------------------------------------------------------------
(* reconnect_loop, which both threads run. *)

\* The callers return or leave their loops if the loop ends without a connection.
Reconnect(s) ==
  /\ pc[s] = "connect" /\ Goto(s, IF running_ THEN "dial" ELSE "done")
  /\ UNCHANGED <<running_, fd, connected, delay, owner, txVars, rxVars, counters>>

\* connect_to succeeds: a new connection, and back to the loop of the caller.
\* A TX thread with a segment in its hand writes it from the beginning.
ResumeKeepingCount(s) ==
  IF s = "TX"
    THEN /\ stream' = <<>> /\ whole' = <<>>
         /\ Goto(s, IF segment = <<>> THEN "top" ELSE "write")
         /\ UNCHANGED <<tx_queue_, segment, written, accepted, finished, rxVars>>
    ELSE /\ wire' = <<>> /\ peerSent' = <<>> /\ received' = <<>> /\ Goto(s, "top")
         /\ UNCHANGED <<buffer, txVars>>
Resume(s) ==
  IF s = "TX"
    THEN /\ stream' = <<>> /\ whole' = <<>> /\ written' = 0
         /\ Goto(s, IF segment = <<>> THEN "top" ELSE "write")
         /\ UNCHANGED <<tx_queue_, segment, accepted, finished, rxVars>>
    ELSE /\ wire' = <<>> /\ peerSent' = <<>> /\ received' = <<>> /\ Goto(s, "top")
         /\ UNCHANGED <<buffer, txVars>>

DialOk(s) ==
  /\ pc[s] = "dial"
  /\ fd' = [fd EXCEPT ![s] = "open"] /\ connected' = [connected EXCEPT ![s] = TRUE]
  /\ Resume(s)
  /\ UNCHANGED <<running_, delay, owner, counters>>

DialFails(s) ==
  /\ pc[s] = "dial" /\ Goto(s, "backoff")
  /\ UNCHANGED <<running_, fd, connected, delay, owner, txVars, rxVars, counters>>

Doubled(d) == LET twice == (2 * d) % DelayMod IN IF twice < MaxDelay THEN twice ELSE MaxDelay

\* The sleep is over, or cut short by stop(); then the delay is doubled.
Backoff(s) ==
  /\ pc[s] = "backoff" /\ Goto(s, "connect")
  /\ delay' = [delay EXCEPT ![s] = Doubled(@)]
  /\ UNCHANGED <<running_, fd, connected, owner, txVars, rxVars, counters>>

Redial(s) == Reconnect(s) \/ DialOk(s) \/ DialFails(s) \/ Backoff(s)

\* A failed call on the socket: forget the connection and enter the loop.
Hangup(s) ==
  /\ connected' = [connected EXCEPT ![s] = FALSE] /\ fd' = [fd EXCEPT ![s] = "closed"]
  /\ delay' = [delay EXCEPT ![s] = InitialDelay]
  /\ Goto(s, "connect")
-----------------------------------------------------------------------------
(* run_tx. *)

TxTop ==
  /\ pc["TX"] = "top" /\ Goto("TX", IF running_ THEN "lock" ELSE "done")
  /\ UNCHANGED <<running_, fd, connected, delay, owner, txVars, rxVars, counters>>

\* The predicate of the wait holds: break, or take the first segment.
TxBreak ==
  /\ pc["TX"] = "lock" /\ ~running_ /\ Goto("TX", "done")
  /\ UNCHANGED <<running_, fd, connected, delay, owner, txVars, rxVars, counters>>
TxTake ==
  /\ pc["TX"] = "lock" /\ running_ /\ tx_queue_ # <<>>
  /\ segment' = <<Head(tx_queue_)>> /\ tx_queue_' = Tail(tx_queue_) /\ written' = 0
  /\ Goto("TX", "write")
  /\ UNCHANGED <<running_, fd, connected, delay, owner, txHist, rxVars, counters>>

\* It does not hold: the thread blocks, and only then gives up the mutex.
TxDecide ==
  /\ pc["TX"] = "lock" /\ running_ /\ tx_queue_ = <<>> /\ Goto("TX", "decided")
  /\ UNCHANGED <<running_, fd, connected, delay, owner, txVars, rxVars, counters>>
TxBlock ==
  /\ pc["TX"] = "decided" /\ Goto("TX", "blocked")
  /\ UNCHANGED <<running_, fd, connected, delay, owner, txVars, rxVars, counters>>
TxSpurious ==
  /\ pc["TX"] = "blocked" /\ Goto("TX", "lock")
  /\ UNCHANGED <<running_, fd, connected, delay, owner, txVars, rxVars, counters>>

\* The loop looks at the flag before each call of write(), and not in it.
TxCall ==
  /\ pc["TX"] = "write" /\ Goto("TX", IF running_ THEN "writing" ELSE "top")
  /\ UNCHANGED <<running_, fd, connected, delay, owner, txVars, rxVars, counters>>

\* write() takes n bytes; on a connection that is lost they reach nobody.  The
\* socket is a blocking one: nothing, stop() included, ends the call while the
\* modem neither reads nor goes away.
TxWrite ==
  /\ pc["TX"] = "writing" /\ fd["TX"] # "stalled"
  /\ \E n \in 1 .. (Len(Frame) - written) :
       /\ stream' = stream \o SubSeq(Frame, written + 1, written + n)
       /\ IF written + n = Len(Frame)
            THEN /\ whole' = Append(whole, segment[1])
                 /\ finished' = Append(finished, segment[1])
                 /\ segment' = <<>> /\ written' = 0 /\ Goto("TX", "top")
            ELSE /\ written' = written + n /\ Goto("TX", "write")
                 /\ UNCHANGED <<whole, finished, segment>>
  /\ UNCHANGED <<running_, fd, connected, delay, owner, tx_queue_, accepted,
                 rxVars, counters>>

TxWriteFails ==
  /\ pc["TX"] = "writing" /\ fd["TX"] = "broken" /\ Hangup("TX")
  /\ UNCHANGED <<running_, owner, txVars, rxVars, counters>>

\* EPIPE comes with SIGPIPE, which write() raises and main() leaves at its
\* default: the process ends.
TxWriteKilled ==
  /\ pc["TX"] = "writing" /\ fd["TX"] = "broken"
  /\ owner' = "killed" /\ pc' = [s \in Side |-> "killed"] /\ fd' = [s \in Side |-> "closed"]
  /\ UNCHANGED <<running_, connected, delay, txVars, rxVars, counters>>

TxThread ==
  \/ Redial("TX") \/ TxTop \/ TxBreak \/ TxTake \/ TxDecide \/ TxBlock
  \/ TxCall \/ TxWrite \/ TxWriteFails \/ TxWriteKilled
-----------------------------------------------------------------------------
(* run_rx. *)

RxTop ==
  /\ pc["RX"] = "top" /\ Goto("RX", IF running_ THEN "poll" ELSE "done")
  /\ UNCHANGED <<running_, fd, connected, delay, owner, txVars, rxVars, counters>>

RxTimeout ==
  /\ pc["RX"] = "poll" /\ wire = <<>> /\ fd["RX"] = "open" /\ Goto("RX", "top")
  /\ UNCHANGED <<running_, fd, connected, delay, owner, txVars, rxVars, counters>>

\* poll() fails: the thread leaves its loop, and the adapter goes on without it.
RxPollError ==
  /\ pc["RX"] = "poll" /\ Goto("RX", "done")
  /\ UNCHANGED <<running_, fd, connected, delay, owner, txVars, rxVars, counters>>

\* read() returns what has arrived, or a part of it.
RxRead ==
  /\ pc["RX"] = "poll" /\ wire # <<>>
  /\ \E n \in 1 .. Len(wire) :
       /\ buffer' = buffer \o SubSeq(wire, 1, n)
       /\ wire' = SubSeq(wire, n + 1, Len(wire))
  /\ Goto("RX", "extract")
  /\ UNCHANGED <<running_, fd, connected, delay, owner, txVars, peerSent,
                 received, counters>>

\* Reset or hang-up (POLLERR, POLLHUP), which hides what is still unread, or
\* the end of the stream.  Both drop the part of a message in the buffer.
RxLostKeepsBuffer ==
  /\ pc["RX"] = "poll" /\ fd["RX"] = "broken" /\ Hangup("RX")
  /\ UNCHANGED <<running_, owner, txVars, rxVars, counters>>
RxLost ==
  /\ pc["RX"] = "poll" /\ fd["RX"] = "broken" /\ Hangup("RX")
  /\ buffer' = <<>>
  /\ UNCHANGED <<running_, owner, txVars, wire, peerSent, received, counters>>

\* One round of the loop over extract_framed_message, with the callback.
RxExtract ==
  /\ pc["RX"] = "extract" /\ HasMessage(buffer)
  /\ received' = Append(received, FirstMessage(buffer))
  /\ buffer' = AfterMessage(buffer)
  /\ UNCHANGED <<running_, fd, connected, pc, delay, owner, txVars, wire,
                 peerSent, counters>>
RxExtracted ==
  /\ pc["RX"] = "extract" /\ ~HasMessage(buffer) /\ Goto("RX", "top")
  /\ UNCHANGED <<running_, fd, connected, delay, owner, txVars, rxVars, counters>>

RxThread ==
  \/ Redial("RX") \/ RxTop \/ RxTimeout \/ RxRead \/ RxLost \/ RxExtract
  \/ RxExtracted \/ RxPollError
-----------------------------------------------------------------------------
(* The modem at the other end of the connections. *)

\* It sends a frame, which may be cut in any way on its way to read().
PeerSend(s) ==
  /\ fd["RX"] = "open" /\ messages < MaxMessages
  /\ wire' = wire \o frame_message(s) /\ peerSent' = Append(peerSent, s)
  /\ messages' = messages + 1
  /\ UNCHANGED <<running_, fd, connected, pc, delay, owner, txVars, buffer,
                 received, started, upsets, missed>>

\* It goes away with n bytes of a frame sent.
PeerCut(s, n) ==
  /\ fd["RX"] = "open" /\ upsets < MaxUpsets /\ n < PrefixLen + Len(s)
  /\ wire' = wire \o SubSeq(frame_message(s), 1, n)
  /\ fd' = [fd EXCEPT !["RX"] = "broken"] /\ upsets' = upsets + 1
  /\ UNCHANGED <<running_, connected, pc, delay, owner, txVars, buffer,
                 peerSent, received, started, messages, missed>>

\* It goes away or does not read what the TX thread writes; a modem that does
\* not read can read on or go away.
TxEndIs(state) == fd' = [fd EXCEPT !["TX"] = state]
PeerGoneOrStalls ==
  /\ fd["TX"] = "open" /\ upsets < MaxUpsets /\ upsets' = upsets + 1
  /\ TxEndIs("broken") \/ TxEndIs("stalled")
  /\ UNCHANGED <<running_, connected, pc, delay, owner, txVars, rxVars, started,
                 messages, missed>>
PeerEndsStall ==
  /\ fd["TX"] = "stalled" /\ (TxEndIs("open") \/ TxEndIs("broken"))
  /\ UNCHANGED <<running_, connected, pc, delay, owner, txVars, rxVars, counters>>
-----------------------------------------------------------------------------
Next ==
  \/ \E s \in Segment : send_segment(s) \/ PeerSend(s)
  \/ \E s \in Segment : \E n \in 0 .. (PrefixLen + Len(s)) : PeerCut(s, n)
  \/ start \/ stop \/ StopStep
  \/ TxThread \/ TxSpurious \/ RxThread \/ PeerGoneOrStalls \/ PeerEndsStall

Spec == Init /\ [][Next]_vars

\* The threads and a call of stop() go on, and the modem does not refuse
\* connections for ever.  Nothing makes it read.
FairSpec ==
  /\ Spec /\ WF_vars(TxThread) /\ WF_vars(RxThread) /\ WF_vars(StopStep)
  /\ SF_vars(DialOk("TX"))
-----------------------------------------------------------------------------
Place == {"none", "connect", "dial", "backoff", "top", "lock", "decided", "blocked",
          "write", "writing", "poll", "extract", "done", "killed"}

(* Types; and the delay stays between its two limits (reconnect_loop). *)
TypeOK ==
  /\ running_ \in BOOLEAN
  /\ tx_queue_ \in Seq(Segment) /\ segment \in Seq(Segment) /\ Len(segment) <= 1
  /\ fd \in [Side -> {"closed", "open", "broken", "stalled"}] /\ connected \in [Side -> BOOLEAN]
  /\ pc \in [Side -> Place] /\ delay \in [Side -> InitialDelay .. MaxDelay]
  /\ owner \in {"idle", "notify", "joinTX", "joinRX", "close", "killed"}
  /\ written \in Nat /\ buffer \in Seq(Byte) /\ wire \in Seq(Byte)
  /\ stream \in Seq(Byte) /\ whole \in Seq(Segment)
  /\ accepted \in Seq(Segment) /\ finished \in Seq(Segment)
  /\ peerSent \in Seq(Segment) /\ received \in Seq(Seq(Byte))
  /\ missed \in BOOLEAN /\ started \in BOOLEAN /\ upsets \in Nat /\ messages \in Nat

(* A peer that extracts messages from the bytes of one TX connection finds   *)
(* exactly the segments that run_tx wrote in full there, wherever earlier     *)
(* connections were lost: a frame is never continued on another connection.   *)
StreamParses == Messages(stream) = whole

(* run_tx neither loses, repeats nor reorders a segment between the queue     *)
(* and the sockets, however often it reconnects.                              *)
InQueueOrder == accepted = finished \o segment \o tx_queue_

(* What run_tx sends are the segments of the queue, each as one whole frame,  *)
(* in their order.                                                            *)
SendsInOrder == TypeOK /\ StreamParses /\ InQueueOrder

(* The callback gets, for each RX connection, the first messages that the     *)
(* modem sent on it, unaltered and in order; no part of a message from a      *)
(* lost connection is joined with a later one (run_rx).                       *)
NoSplicedMessage ==
  pc["RX"] # "connect" =>
    /\ Len(received) <= Len(peerSent)
    /\ received = SubSeq(peerSent, 1, Len(received))

(* run_rx goes back to poll() only when no whole message is left in its       *)
(* buffer: a message that has arrived does not wait for the next one.         *)
NothingLeftInBuffer == pc["RX"] = "poll" => ~HasMessage(buffer)

(* What run_rx hands over are the modem's messages, whole, in order and as    *)
(* soon as they are there.                                                    *)
ReceivesWhole == NoSplicedMessage /\ NothingLeftInBuffer

(* write() and poll() are called on a descriptor that is open, and after      *)
(* stop() has returned no thread runs and nothing is open or called connected.*)
DescriptorsLive ==
  /\ pc["TX"] = "writing" => fd["TX"] # "closed"
  /\ pc["RX"] = "poll" => fd["RX"] # "closed"
  /\ (owner = "idle" /\ ~running_) =>
       \A s \in Side : pc[s] = "none" /\ fd[s] = "closed" /\ ~connected[s]

\* The TX thread is inside write(), and the modem does not read.
InStalledWrite == pc["TX"] = "writing" /\ fd["TX"] = "stalled"

(* As long as no write() blocks for ever, every segment given to              *)
(* send_segment is written to a connection, unless the adapter is stopped or  *)
(* a signal ends the process: the TX thread does not miss the notification of *)
(* send_segment, and it survives lost connections.                            *)
EverySegmentWritten ==
  []<>~InStalledWrite =>
    \A k \in 1 .. MaxMessages :
      Len(accepted) >= k ~> (Len(finished) >= k \/ ~running_ \/ owner = "killed")

(* Once stop() has notified, the TX thread is neither blocked on the          *)
(* condition variable nor on its way there, unless it had decided to block    *)
(* when the notification came.                                                *)
StopHeard ==
  owner = "joinTX" /\ ~missed => pc["TX"] \notin {"decided", "blocked"}

(* stop() hangs in two ways and in no other: a write() blocks for ever, since *)
(* the modem does not read; or the notification came while the TX thread,     *)
(* with the mutex, had decided to block, and nothing wakes it any more.       *)
(* (The callback of the RX thread returns.)                                   *)
StopReturnsUnlessParked ==
  []<>~InStalledWrite =>
    (owner # "idle" ~>
       (owner \in {"idle", "killed"} \/ (missed /\ pc["TX"] = "blocked")))
=============================================================================
