----------------------------- MODULE TcpIngress ----------------------------
(***************************************************************************)
(* src/ltp_cla/tcp_ingress.cpp: one thread polls the listening socket and  *)
(* the clients, and gives every framed message to a callback, which starts *)
(* an LTP session.  Clients are known by their descriptors, which the      *)
(* kernel uses again; the buffers are keyed by them.                       *)
(***************************************************************************)
EXTENDS Framing, Lists, SequencesExt

CONSTANTS Fd,           \* descriptors
          Block,        \* what clients send, sequences of bytes
          MaxConnects,  \* bound: connections
          MaxMessages   \* bound: frames that clients send, and connections that end

ASSUME IngressAssumption ==
  /\ Fd \subseteq Nat /\ Block \subseteq Seq(Byte)
  /\ \A b \in Block : PrefixLen + Len(b) < Wrap
  /\ {MaxConnects, MaxMessages} \subseteq Nat

VARIABLES
  running_, listening,   \* listening: listen_fd_ is open
  client_fds_, buffers,
  pc,                    \* where the thread stands
  polled,                \* pfds of the clients that are still to be looked at
  owner,                 \* the call of stop(): "idle" or "join"
  conn,    \* per descriptor: "free", "open", "fin" (closed by the client, with what
           \* is unread still to be read) or "reset" (what is unread is lost)
  wire,    \* per descriptor: what the client has sent and the thread has not read
  sent, received,        \* history: per connection, the blocks that the client has sent
                         \* in full, and the messages given to the callback
  connects, messages     \* counters for the bounds

life == <<running_, listening, owner>>
hist == <<sent, received>>
vars == <<life, client_fds_, buffers, pc, polled, conn, wire, hist, connects, messages>>

Init ==
  /\ running_ = FALSE /\ listening = FALSE /\ owner = "idle"
  /\ client_fds_ = <<>> /\ buffers = [f \in Fd |-> <<>>] /\ pc = "none" /\ polled = <<>>
  /\ conn = [f \in Fd |-> "free"] /\ wire = [f \in Fd |-> <<>>]
  /\ sent = [f \in Fd |-> <<>>] /\ received = [f \in Fd |-> <<>>]
  /\ connects = 0 /\ messages = 0
-----------------------------------------------------------------------------
(* start() and stop(). *)

\* start() gives up when it cannot bind or listen; then it has done nothing.
start ==
  /\ owner = "idle" /\ ~running_
  /\ running_' = TRUE /\ listening' = TRUE /\ pc' = "top"
  /\ buffers' = [f \in Fd |-> <<>>] /\ polled' = <<>>
  /\ UNCHANGED <<owner, client_fds_, conn, wire, hist, connects, messages>>

stop ==
  /\ owner = "idle" /\ running_
  /\ running_' = FALSE /\ listening' = FALSE /\ owner' = "join"
  /\ UNCHANGED <<client_fds_, buffers, pc, polled, conn, wire, hist, connects, messages>>

\* The thread has ended: close the clients.
StopClose ==
  /\ owner = "join" /\ pc = "done" /\ owner' = "idle" /\ pc' = "none"
  /\ client_fds_' = <<>> /\ conn' = [f \in Fd |-> "free"]
  /\ UNCHANGED <<running_, listening, buffers, polled, wire, hist, connects,
                 messages>>
-----------------------------------------------------------------------------
(* run(). *)

TopTo(place) ==
  /\ pc = "top" /\ pc' = place
  /\ UNCHANGED <<life, client_fds_, buffers, polled, conn, wire, hist, connects, messages>>
RunTopUnasked == TopTo("poll")
RunTop == TopTo(IF running_ THEN "poll" ELSE "done")

\* What poll() reports for a client.
Revents(f) ==
  CASE conn[f] = "reset" -> "hup"
    [] conn[f] = "fin" \/ wire[f] # <<>> -> "in"
    [] OTHER -> "none"

\* poll() returns: with an error, after its time, or with the events of now.
\* A connection may be waiting in the backlog.
RunPoll ==
  /\ pc = "poll"
  /\ \/ /\ pc' \in {"done", "top"} /\ UNCHANGED polled
        /\ pc' = "top" => \A f \in ToSet(client_fds_) : Revents(f) = "none"
     \/ /\ polled' = [i \in 1 .. Len(client_fds_) |->
                        [fd |-> client_fds_[i], revents |-> Revents(client_fds_[i])]]
        /\ \/ pc' = "accept" /\ connects < MaxConnects
           \/ pc' = "serve" /\ \E f \in ToSet(client_fds_) : Revents(f) # "none"
  /\ UNCHANGED <<life, client_fds_, buffers, conn, wire, hist, connects, messages>>

Free == {f \in Fd : conn[f] = "free"}

\* accept() returns the lowest free descriptor; it fails when the socket has
\* been closed by stop(), or no descriptor is left.
RunAccept ==
  /\ pc = "accept" /\ pc' = "serve" /\ connects' = connects + 1
  /\ IF listening /\ Free # {}
       THEN LET f == CHOOSE f \in Free : \A g \in Free : f <= g IN
            /\ client_fds_' = Append(client_fds_, f) /\ buffers' = [buffers EXCEPT ![f] = <<>>]
            /\ conn' = [conn EXCEPT ![f] = "open"] /\ wire' = [wire EXCEPT ![f] = <<>>]
            /\ sent' = [sent EXCEPT ![f] = <<>>] /\ received' = [received EXCEPT ![f] = <<>>]
       ELSE UNCHANGED <<client_fds_, buffers, conn, wire, hist>>
  /\ UNCHANGED <<life, polled, messages>>

\* One client: hang-up, end of file, or n bytes with all messages that they complete.
Close(f) ==
  /\ conn' = [conn EXCEPT ![f] = "free"] /\ buffers' = [buffers EXCEPT ![f] = <<>>]
  /\ client_fds_' = Without(client_fds_, {f})
  /\ UNCHANGED <<wire, received>>

\* read() of n bytes: what is handed over, and what stays in the buffer.
Take(f, n, found, rest) ==
  /\ received' = [received EXCEPT ![f] = @ \o found]
  /\ buffers' = [buffers EXCEPT ![f] = rest]
  /\ wire' = [wire EXCEPT ![f] = SubSeq(@, n + 1, Len(@))]
  /\ UNCHANGED <<conn, client_fds_>>
ReadAfresh(f, n) == LET e == Extracted(SubSeq(wire[f], 1, n)) IN Take(f, n, e.found, e.rest)
Read(f, n) ==
  LET e == Extracted(buffers[f] \o SubSeq(wire[f], 1, n)) IN Take(f, n, e.found, e.rest)

\* A client that was reset after poll() fails in read().
ServeEarly(f, revents) ==
  \/ revents = "hup" /\ Close(f)
  \/ revents = "in" /\ conn[f] \in {"reset", "fin"} /\ Close(f)
  \/ revents = "in" /\ conn[f] = "open" /\ \E n \in 1 .. Len(wire[f]) : Read(f, n)
  \/ revents = "none" /\ UNCHANGED <<conn, buffers, client_fds_, wire, received>>
Serve(f, revents) ==
  \/ revents = "hup" /\ Close(f)
  \/ revents = "in" /\ (conn[f] = "reset" \/ (conn[f] = "fin" /\ wire[f] = <<>>)) /\ Close(f)
  \/ revents = "in" /\ conn[f] # "reset" /\ \E n \in 1 .. Len(wire[f]) : Read(f, n)
  \/ revents = "none" /\ UNCHANGED <<conn, buffers, client_fds_, wire, received>>

RunServe ==
  /\ pc = "serve" /\ polled # <<>>
  /\ Serve(polled[1].fd, polled[1].revents)
  /\ polled' = Tail(polled)
  /\ UNCHANGED <<life, pc, sent, connects, messages>>
RunServed ==
  /\ pc = "serve" /\ polled = <<>> /\ pc' = "top"
  /\ UNCHANGED <<life, client_fds_, buffers, polled, conn, wire, hist, connects, messages>>

Run == RunTop \/ RunPoll \/ RunAccept \/ RunServe \/ RunServed
-----------------------------------------------------------------------------
(* The clients. *)

Sends(f, blocks, bytes, then) ==
  /\ conn[f] = "open" /\ messages < MaxMessages /\ messages' = messages + 1
  /\ wire' = [wire EXCEPT ![f] = @ \o bytes] /\ sent' = [sent EXCEPT ![f] = @ \o blocks]
  /\ conn' = [conn EXCEPT ![f] = then]
  /\ UNCHANGED <<life, client_fds_, buffers, pc, polled, received, connects>>
ClientSends(f, block) == Sends(f, <<block>>, frame_message(block), "open")
\* It leaves with n bytes of a frame sent, or its connection is reset.
ClientLeaves(f, block, n) == Sends(f, <<>>, SubSeq(frame_message(block), 1, n), "fin")
ClientResets(f) == Sends(f, <<>>, <<>>, "reset")
-----------------------------------------------------------------------------
Next ==
  \/ start \/ stop \/ StopClose \/ Run
  \/ \E f \in Fd, block \in Block :
       \/ ClientSends(f, block)
       \/ \E n \in 0 .. (PrefixLen + Len(block) - 1) : ClientLeaves(f, block, n)
  \/ \E f \in Fd : ClientResets(f)

Spec == Init /\ [][Next]_vars

\* The thread and a call of stop() go on.
FairSpec == Spec /\ WF_vars(Run) /\ WF_vars(StopClose)
-----------------------------------------------------------------------------
(* Types. *)
TypeOK ==
  /\ running_ \in BOOLEAN /\ listening \in BOOLEAN /\ owner \in {"idle", "join"}
  /\ client_fds_ \in Seq(Fd) /\ buffers \in [Fd -> Seq(Byte)]
  /\ pc \in {"none", "top", "poll", "accept", "serve", "done"}
  /\ polled \in Seq([fd : Fd, revents : {"none", "in", "hup"}])
  /\ conn \in [Fd -> {"free", "open", "fin", "reset"}] /\ wire \in [Fd -> Seq(Byte)]
  /\ sent \in [Fd -> Seq(Block)] /\ received \in [Fd -> Seq(Block)]

(* The blocks that a client has sent are the messages given to the callback,  *)
(* then the ones in its buffer and on the wire: however reads cut the stream  *)
(* and descriptors are used again, none is lost, repeated, altered, or mixed  *)
(* with those of another client.                                              *)
StreamConserved ==
  \A f \in ToSet(client_fds_) :
    sent[f] = received[f] \o Messages(buffers[f] \o wire[f])

(* The thread goes back to poll() with no whole message in a buffer.          *)
NoMessageWithheld ==
  pc \in {"top", "poll"} => \A f \in Fd : ~HasMessage(buffers[f])

(* A client that closes in good order has all its whole messages taken before *)
(* its descriptor is closed, unless stop() closes it.                         *)
OrderlyCloseLosesNothing ==
  [][\A f \in Fd :
       (conn[f] = "fin" /\ conn'[f] = "free" /\ owner = "idle")
          => received[f] = sent[f]]_vars

(* The descriptors for which events are at hand are clients', open and each   *)
(* there once: accept() before the loop cannot return one of them, and        *)
(* the loop never reads or closes a descriptor twice.                         *)
PolledAreClients ==
  /\ \A i, j \in 1 .. Len(polled) : i # j => polled[i].fd # polled[j].fd
  /\ \A i \in 1 .. Len(polled) :
       Contains(client_fds_, polled[i].fd) /\ conn[polled[i].fd] # "free"
  /\ {f \in Fd : conn[f] # "free"} = ToSet(client_fds_)

(* Each client's messages reach the engine, whole, in order and at once,      *)
(* whichever descriptors the kernel uses again.                               *)
StreamsApart == TypeOK /\ PolledAreClients /\ StreamConserved /\ NoMessageWithheld

(* stop() returns, whatever the clients do.                                   *)
StopReturns == owner = "join" ~> owner = "idle"
=============================================================================
