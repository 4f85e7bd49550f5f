----------------------------- MODULE ModemInput ----------------------------
(***************************************************************************)
(* The transmitting half: src/tcp_input_server.cpp or src/udp_input.cpp    *)
(* with its thread, the queue input_to_tx, and the thread that encodes and *)
(* sends a burst for each element.  The queue is the one of SpscQueue,     *)
(* taken here as atomic (LinearizableFifo there).                          *)
(***************************************************************************)
EXTENDS ModemShared, Lists

CONSTANTS FrameSize,    \* frame_size_
          RecvMax,      \* bytes that one recv() returns at most
          TxCapacity,   \* capacity of input_to_tx
          MaxInputs     \* bound, per setting: what clients and senders of datagrams do

ASSUME InputAssumption ==
  /\ {FrameSize, RecvMax, TxCapacity} \subseteq Nat \ {0} /\ FrameSize <= RecvMax
  /\ MaxInputs \in [Setting -> Nat]

VARIABLES
  client_fd_,             \* the connection that is read, 0 for none
  buffer_, was_connected, last_buffered,
  in_pc,                  \* where the input thread stands
  input_to_tx,
  tx_pc, payload,         \* the transmitting thread and what it has popped
  backlog, conn, written, \* connections to be accepted; per connection "open", "fin",
                          \* "reset" or "replaced" (by another), and the bytes written
  datagrams,              \* in the UDP socket
  inputs,                 \* counter for the bound
  taken, offered, handled \* history: bytes in the order they were read; frames given to
                          \* try_push, with its result; frames that send() was called with

server == <<client_fd_, buffer_>>
loop == <<was_connected, last_buffered>>
txThread == <<tx_pc, payload, handled>>
clients == <<backlog, conn, written, datagrams, inputs>>
inputVars ==
  <<server, loop, in_pc, input_to_tx, txThread, clients, taken, offered>>

InputInit ==
  /\ client_fd_ = 0 /\ buffer_ = <<>> /\ was_connected = FALSE /\ last_buffered = 0
  /\ in_pc = "none" /\ input_to_tx = <<>> /\ tx_pc = "none" /\ payload = <<>>
  /\ backlog = <<>> /\ conn = <<>> /\ written = <<>> /\ datagrams = <<>> /\ inputs = 0
  /\ taken = <<>> /\ offered = <<>> /\ handled = <<>>
-----------------------------------------------------------------------------
(* TcpInputServer::poll_once().  A byte is <<connection, position>>. *)

Unread(c) == written[c] - Len(SelectSeq(taken, LAMBDA byte : byte[1] = c))
Readable(c) == conn[c] # "open" \/ Unread(c) > 0

InEnd ==
  /\ in_pc = "top" /\ ~g_running /\ in_pc' = "done"
  /\ UNCHANGED <<shared, server, loop, input_to_tx, txThread, clients, taken, offered>>

\* A connection that waits is accepted and takes the place of the client.
Accept ==
  /\ client_fd_' = Head(backlog) /\ backlog' = Tail(backlog)
  /\ conn' = [c \in DOMAIN conn |-> IF c = client_fd_ THEN "replaced" ELSE conn[c]]

\* poll() may be interrupted.  The events of the former client still decide
\* whether recv() is called.
InPoll ==
  /\ in_pc = "top" /\ g_running /\ ~use_udp
  /\ \/ UNCHANGED <<client_fd_, backlog, conn>> /\ in_pc' = "frames"
     \/ /\ IF backlog # <<>> THEN Accept ELSE UNCHANGED <<client_fd_, backlog, conn>>
        /\ in_pc' = IF client_fd_ # 0 /\ Readable(client_fd_) THEN "recv" ELSE "frames"
  /\ UNCHANGED <<shared, buffer_, loop, input_to_tx, txThread, written, datagrams, inputs, taken,
                 offered>>

\* disconnect_client(); what it had written stays in buffer_.
Disconnect == client_fd_' = 0 /\ UNCHANGED <<buffer_, taken>>

\* recv() blocks when its client has neither written nor gone.
InRecv ==
  /\ in_pc = "recv" /\ Readable(client_fd_) /\ in_pc' = "frames"
  /\ IF conn[client_fd_] # "reset" /\ Unread(client_fd_) > 0
       THEN LET n == IF Unread(client_fd_) < RecvMax THEN Unread(client_fd_) ELSE RecvMax
                first == written[client_fd_] - Unread(client_fd_)
                bytes == [i \in 1 .. n |-> <<client_fd_, first + i>>]
            IN /\ buffer_' = buffer_ \o bytes /\ taken' = taken \o bytes
               /\ UNCHANGED client_fd_
       ELSE Disconnect
  /\ UNCHANGED <<shared, loop, input_to_tx, txThread, clients, offered>>
-----------------------------------------------------------------------------
(* The rest of a round of tcp_input_thread_fn(). *)

\* try_push() of a frame: a full queue drops it.
Push(frame) ==
  /\ input_to_tx' = IF Len(input_to_tx) < TxCapacity THEN Append(input_to_tx, frame)
                    ELSE input_to_tx
  /\ offered' = Append(offered, [data |-> frame, kept |-> Len(input_to_tx) < TxCapacity])

\* while (has_frame()) read_frame(), try_push().
InFrameOf(n) ==
  /\ in_pc = "frames" /\ Len(buffer_) >= FrameSize
  /\ Push(SubSeq(buffer_, 1, n)) /\ buffer_' = SubSeq(buffer_, n + 1, Len(buffer_))
  /\ last_buffered' = 0
  /\ UNCHANGED <<shared, client_fd_, was_connected, in_pc, txThread, clients, taken>>
InFrame == InFrameOf(FrameSize)

\* flush() and try_push() of what there is.
FlushCopy == Push(buffer_) /\ UNCHANGED buffer_
Flush == Push(buffer_) /\ buffer_' = <<>>

RestDone ==
  /\ in_pc = "frames" /\ Len(buffer_) < FrameSize
  /\ in_pc' = "top" /\ was_connected' = (client_fd_ # 0)
  /\ UNCHANGED <<shared, client_fd_, txThread, clients, taken>>

\* The client has gone in this round.
Gone == was_connected /\ client_fd_ = 0 /\ buffer_ # <<>>
InFlushGone == RestDone /\ Gone /\ Flush /\ last_buffered' = 0

\* The buffer has not grown for more than 100 ms.
InFlushIdle ==
  /\ RestDone /\ ~Gone /\ buffer_ # <<>> /\ Len(buffer_) = last_buffered
  /\ Flush /\ last_buffered' = 0

\* It has, or the time is not over.
InWaitForgetful ==
  /\ RestDone /\ ~Gone
  /\ last_buffered' = 0
  /\ UNCHANGED <<buffer_, input_to_tx, offered>>
InWait ==
  /\ RestDone /\ ~Gone
  /\ last_buffered' = Len(buffer_)
  /\ UNCHANGED <<buffer_, input_to_tx, offered>>
-----------------------------------------------------------------------------
(* udp_input_thread_fn(). *)

\* UdpInput::recv_datagram(); a time-out or an error changes nothing.
recv_datagram(data) == datagrams # <<>> /\ data = Head(datagrams) /\ datagrams' = Tail(datagrams)

InDatagram ==
  /\ in_pc = "top" /\ g_running /\ use_udp
  /\ \E data \in ToSet(datagrams) :
       /\ recv_datagram(data)
       /\ IF data = <<>> THEN UNCHANGED <<input_to_tx, taken, offered>>
          ELSE Push(data) /\ taken' = taken \o data
  /\ UNCHANGED <<shared, server, loop, in_pc, txThread, backlog, conn, written, inputs>>

InputThread ==
  InEnd \/ InPoll \/ InRecv \/ InFrame \/ InFlushGone \/ InFlushIdle \/ InWait
    \/ InDatagram
-----------------------------------------------------------------------------
(* tx_thread_fn(). *)

TxEnd ==
  /\ tx_pc = "top" /\ ~g_running /\ tx_pc' = "done"
  /\ UNCHANGED <<shared, server, loop, in_pc, input_to_tx, payload, handled, clients, taken,
                 offered>>

\* pop_wait(); when its time is over nothing changes.
TxPop ==
  /\ tx_pc = "top" /\ g_running /\ input_to_tx # <<>>
  /\ tx_pc' = "send" /\ payload' = Head(input_to_tx) /\ input_to_tx' = Tail(input_to_tx)
  /\ UNCHANGED <<shared, server, loop, in_pc, handled, clients, taken, offered>>

\* send() retries for ever while the radio takes no sample; it ends with the
\* burst sent, or with an exception, after which the payload is dropped.
TxSend ==
  /\ tx_pc = "send" /\ tx_pc' = "top" /\ payload' = <<>>
  /\ handled' = Append(handled, payload)
  /\ UNCHANGED <<shared, server, loop, in_pc, input_to_tx, clients, taken, offered>>

TxThread == TxEnd \/ TxPop \/ TxSend
-----------------------------------------------------------------------------
(* Clients and senders of datagrams. *)

Client ==
  /\ inputs < MaxInputs[setting] /\ inputs' = inputs + 1 /\ in_pc \notin {"none", "done"}
  /\ UNCHANGED <<shared, server, loop, in_pc, input_to_tx, txThread, taken, offered>>

\* A client connects and may write at once.
Connect(n) ==
  /\ Client /\ ~use_udp
  /\ conn' = Append(conn, "open") /\ written' = Append(written, n)
  /\ backlog' = Append(backlog, Len(conn) + 1)
  /\ UNCHANGED datagrams

Writes(c, n) ==
  /\ Client /\ conn[c] = "open"
  /\ written' = [written EXCEPT ![c] = @ + n]
  /\ UNCHANGED <<backlog, conn, datagrams>>

Leaves(c, how) ==
  /\ Client /\ conn[c] = "open" /\ conn' = [conn EXCEPT ![c] = how]
  /\ UNCHANGED <<backlog, written, datagrams>>

\* The n bytes of a datagram.
Datagram(n) ==
  /\ Client /\ use_udp
  /\ datagrams' = Append(datagrams, [i \in 1 .. n |-> <<inputs + 1, i>>])
  /\ UNCHANGED <<backlog, conn, written>>

InputClients ==
  \/ \E n \in {0, 1} : Connect(n)
  \/ \E c \in DOMAIN conn : \/ \E n \in {1, RecvMax + 1} : Writes(c, n)
                            \/ \E how \in {"fin", "reset"} : Leaves(c, how)
  \/ \E n \in 0 .. FrameSize + 1 : Datagram(n)
-----------------------------------------------------------------------------
InputTypeOK ==
  LET Bytes == Seq(Nat \X Nat) IN
  /\ client_fd_ \in 0 .. Len(conn) /\ buffer_ \in Bytes
  /\ was_connected \in BOOLEAN /\ last_buffered \in 0 .. FrameSize
  /\ in_pc \in {"none", "top", "recv", "frames", "done"}
  /\ tx_pc \in {"none", "top", "send", "done"} /\ payload \in Bytes
  /\ input_to_tx \in Seq(Bytes) /\ Len(input_to_tx) <= TxCapacity
  /\ conn \in Seq({"open", "fin", "reset", "replaced"}) /\ written \in Seq(Nat)

(* Every byte that has been read is in one frame or still in buffer_, in the  *)
(* order of reading, whatever made the thread cut the frame: a full frame, a  *)
(* client that went or was replaced, or an idle one.  What is buffered when   *)
(* the thread ends is the only part that is never sent.                       *)
InputConserved ==
  LET framed == FlattenSeq([i \in DOMAIN offered |-> offered[i].data])
  IN IF in_pc = "done" THEN IsPrefix(framed, taken) ELSE framed \o buffer_ = taken

(* A burst carries one byte at least and, of a TCP client, frame_size_ bytes  *)
(* at most: flush() takes all there is, and is only called with less than a   *)
(* frame buffered.  A datagram is a burst whatever its length.                *)
PayloadsFit ==
  \A i \in DOMAIN offered :
    /\ offered[i].data # <<>>
    /\ ~use_udp => Len(offered[i].data) <= FrameSize

(* A frame has bytes of two connections only when the later one replaced the  *)
(* other: what a client leaves behind when it goes is sent before another is  *)
(* read.                                                                      *)
MixedOnlyByReplacement ==
  ~use_udp =>
    \A i \in DOMAIN offered : LET data == offered[i].data IN
      \A j \in 1 .. Len(data) - 1 :
        data[j][1] # data[j + 1][1] => conn[data[j][1]] = "replaced"

\* Frames that try_push() refused.
Dropped == [data : Seq(Nat \X Nat), kept : {FALSE}]

(* The radio is given the frames that the queue has taken, once each and in   *)
(* their order; the rest is in the queue or in the hand of the thread.        *)
TransmitOrder ==
  LET kept == Without(offered, Dropped)
  IN [i \in DOMAIN kept |-> kept[i].data]
       = handled \o (IF tx_pc = "send" THEN <<payload>> ELSE <<>>) \o input_to_tx

(* What is sent is what was read: no byte of the input is lost, repeated or   *)
(* reordered between the sockets and the radio, except for whole frames that  *)
(* the full queue drops.  Not sent either is what buffer_ and input_to_tx     *)
(* still have when the modem shuts down, and a burst that send() throws at.   *)
InputSent ==
  /\ SharedTypeOK /\ InputTypeOK
  /\ InputConserved /\ PayloadsFit /\ MixedOnlyByReplacement /\ TransmitOrder

\* recv() has been called for a client that neither writes nor goes.
InputParked == in_pc = "recv" /\ ~Readable(client_fd_)

(* Bytes do not wait in buffer_ for ever while the modem runs: what does not  *)
(* fill a frame is flushed when the client goes or is idle, unless recv() is  *)
(* parked on a client that took the place of another.                         *)
BufferedGoesOut ==
  [](buffer_ # <<>> => <>(buffer_ = <<>> \/ ~g_running \/ InputParked))
=============================================================================
