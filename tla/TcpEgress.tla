----------------------------- MODULE TcpEgress -----------------------------
(***************************************************************************)
(* src/ltp_cla/tcp_egress.cpp: blocks that LTP has received are written to *)
(* every TCP client, or buffered up to a limit while there is none.  A     *)
(* block is its number, in the order of the calls of deliver(), and the    *)
(* size of its frame.  write() may block, so a writer keeps mtx_ from step *)
(* to step.                                                                *)
(***************************************************************************)
EXTENDS Naturals, Sequences, SequencesExt, Lists

CONSTANTS Client,            \* connections that clients can have at the same time
          Size,              \* sizes of frames
          max_buffer_bytes,
          MaxBlocks,         \* bound: calls of deliver()
          MaxConnects,       \* bound: connections
          MaxUpsets          \* bound: clients that go or stall

ASSUME EgressAssumption ==
  /\ Size \subseteq Nat \ {0} /\ max_buffer_bytes \in Nat
  /\ {MaxBlocks, MaxConnects, MaxUpsets} \subseteq Nat

VARIABLES
  running_, listening,       \* listening: listen_fd_ is open
  client_fds_, buffer_, buffer_bytes_,
  writing,     \* who holds mtx_ to write: "none", "deliver" or "flush"
  frame,       \* the block that is written
  todo, dead,  \* of write_to_clients: clients still to come, and dead_fds
  pc,          \* where the server thread stands
  accepted,    \* the client that it has accepted, as a sequence of at most one
  owner,       \* the call of stop(): "idle", "join", "close"; "killed" by a signal
  sock,        \* per client: "away", "queued" in the backlog, "open", "stalled"
               \* (it does not read and its window is full), or "gone"
  count,       \* history: calls of deliver()
  got, joined, \* history: the blocks that a client has read, and the first of
               \* those in the buffer, or else to come, when it was taken in
  connects, upsets           \* counters for the bounds

egress == <<client_fds_, buffer_, buffer_bytes_>>
writer == <<writing, frame, todo, dead>>
life == <<running_, listening, owner>>
hist == <<count, got, joined>>
vars == <<egress, writer, life, pc, accepted, sock, hist, connects, upsets>>

NoBlock == [n |-> 0, size |-> 0]

Init ==
  /\ running_ = FALSE /\ listening = FALSE /\ owner = "idle" /\ pc = "none"
  /\ client_fds_ = <<>> /\ buffer_ = <<>> /\ buffer_bytes_ = 0
  /\ writing = "none" /\ frame = NoBlock /\ todo = <<>> /\ dead = {}
  /\ accepted = <<>> /\ sock = [c \in Client |-> "away"]
  /\ count = 0 /\ got = [c \in Client |-> <<>>] /\ joined = [c \in Client |-> 1]
  /\ connects = 0 /\ upsets = 0

MutexFree == writing = "none" /\ owner # "killed"
-----------------------------------------------------------------------------
(* write_to_clients, for deliver() and for the flush. *)

BeginWrite(by, block, clients) ==
  /\ writing' = by /\ frame' = block /\ todo' = clients /\ dead' = {}

\* One client of the loop.  A write to a client that has gone can be taken by
\* the kernel, can fail, or can raise SIGPIPE, which ends the process.
WriteOne ==
  /\ todo # <<>> /\ owner # "killed"
  /\ LET c == Head(todo) IN
       \/ /\ sock[c] = "open" /\ got' = [got EXCEPT ![c] = Append(@, frame.n)]
          /\ todo' = Tail(todo) /\ UNCHANGED <<dead, life>>
       \/ /\ sock[c] = "gone" /\ dead' \in {dead, dead \cup {c}}
          /\ todo' = Tail(todo) /\ UNCHANGED <<got, life>>
       \/ /\ sock[c] = "gone" /\ owner' = "killed"
          /\ UNCHANGED <<running_, listening, todo, dead, got>>
  /\ UNCHANGED <<egress, writing, frame, pc, accepted, sock, count, joined,
                 connects, upsets>>

LiveClients == Without(client_fds_, dead)
Written == writing # "none" /\ todo = <<>> /\ owner # "killed"

\* The end of write_to_clients; deliver() then returns.
DeliverEnds ==
  /\ Written /\ writing = "deliver"
  /\ client_fds_' = LiveClients /\ BeginWrite("none", NoBlock, <<>>)
  /\ UNCHANGED <<buffer_, buffer_bytes_, life, pc, accepted, sock, hist, connects,
                 upsets>>

\* The loop of flush_buffer_to_clients, for the clients that are left.
FlushLoop(buffer, clients) ==
  IF buffer # <<>> /\ clients # <<>>
    THEN BeginWrite("flush", Head(buffer), clients) /\ UNCHANGED pc
    ELSE BeginWrite("none", NoBlock, <<>>) /\ pc' = "top"
FlushTo(rest, bytes) ==
  /\ Written /\ writing = "flush"
  /\ client_fds_' = LiveClients /\ buffer_' = rest /\ buffer_bytes_' = bytes
  /\ FlushLoop(rest, LiveClients)
  /\ UNCHANGED <<life, accepted, sock, hist, connects, upsets>>
FlushUncounted == FlushTo(Tail(buffer_), buffer_bytes_)
FlushDropsRest ==
  IF LiveClients = <<>> THEN FlushTo(<<>>, 0)
  ELSE FlushTo(Tail(buffer_), buffer_bytes_ - frame.size)
\* The block leaves the buffer whether or not a client has taken it.
FlushNext == FlushTo(Tail(buffer_), buffer_bytes_ - frame.size)

Bytes(blocks) == SumOf([i \in 1 .. Len(blocks) |-> blocks[i].size])

\* deliver() without clients: the oldest blocks make room, as far as they can.
Fits(blocks, size) == blocks = <<>> \/ Bytes(blocks) + size <= max_buffer_bytes
KeptNewest(size) ==
  LET Left(k) == SubSeq(buffer_, 1, Len(buffer_) - k)
  IN Left(CHOOSE k \in 0 .. Len(buffer_) :
            Fits(Left(k), size) /\ \A j \in 0 .. (k - 1) : ~Fits(Left(j), size))
Kept(size) ==
  LET Left(k) == SubSeq(buffer_, k + 1, Len(buffer_))
  IN Left(CHOOSE k \in 0 .. Len(buffer_) :
            Fits(Left(k), size) /\ \A j \in 0 .. (k - 1) : ~Fits(Left(j), size))

deliver(size) ==
  /\ MutexFree /\ count < MaxBlocks /\ count' = count + 1
  /\ LET block == [n |-> count + 1, size |-> size] IN
       IF client_fds_ # <<>>
         THEN BeginWrite("deliver", block, client_fds_) /\ UNCHANGED egress
         ELSE /\ buffer_' = Append(Kept(size), block)
              /\ buffer_bytes_' = Bytes(Kept(size)) + size
              /\ UNCHANGED <<client_fds_, writer>>
  /\ UNCHANGED <<life, pc, accepted, sock, got, joined, connects, upsets>>
-----------------------------------------------------------------------------
(* start() and stop(). *)

\* start() gives up when it cannot bind or listen; then it has done nothing.
start ==
  /\ owner = "idle" /\ ~running_
  /\ running_' = TRUE /\ listening' = TRUE /\ pc' = "top"
  /\ UNCHANGED <<egress, writer, owner, accepted, sock, hist, connects, upsets>>

\* stop() clears the flag and closes the listening socket, with the backlog.
stop ==
  /\ owner = "idle" /\ running_
  /\ running_' = FALSE /\ listening' = FALSE /\ owner' = "join"
  /\ sock' = [c \in Client |-> IF sock[c] = "queued" THEN "away" ELSE sock[c]]
  /\ UNCHANGED <<egress, writer, pc, accepted, hist, connects, upsets>>
StopJoin ==
  /\ owner = "join" /\ pc = "done" /\ owner' = "close" /\ pc' = "none"
  /\ UNCHANGED <<egress, writer, running_, listening, accepted, sock, hist, connects,
                 upsets>>
CloseClients ==
  /\ owner = "close" /\ owner' = "idle" /\ client_fds_' = <<>>
  /\ sock' = [c \in Client |-> "away"]
  /\ UNCHANGED <<buffer_, buffer_bytes_, writer, running_, listening, pc, accepted,
                 hist, connects, upsets>>
StopClose == MutexFree /\ CloseClients
-----------------------------------------------------------------------------
(* run(). *)

TopTo(place) ==
  /\ pc = "top" /\ owner # "killed" /\ pc' = place
  /\ UNCHANGED <<egress, writer, life, accepted, sock, hist, connects, upsets>>
RunTopUnasked == TopTo("poll")
RunTop == TopTo(IF running_ THEN "poll" ELSE "done")

\* poll() times out, fails, or finds a connection, which accept() returns if
\* the socket is still open.
RunPoll ==
  /\ pc = "poll" /\ owner # "killed"
  /\ \/ (~\E c \in Client : sock[c] = "queued") /\ pc' = "top"
     \/ pc' = "done"
     \/ (\E c \in Client : sock[c] = "queued") /\ pc' = "accept"
  /\ UNCHANGED <<egress, writer, life, accepted, sock, hist, connects, upsets>>
RunAccept ==
  /\ pc = "accept" /\ owner # "killed"
  /\ \/ \E c \in Client :
          /\ listening /\ sock[c] = "queued" /\ pc' = "lock" /\ accepted' = <<c>>
          /\ sock' = [sock EXCEPT ![c] = "open"]
     \/ ~listening /\ pc' = "top" /\ UNCHANGED <<accepted, sock>>
  /\ UNCHANGED <<egress, writer, life, hist, connects, upsets>>

\* With the mutex: the new client, then the flush.
TakeIn(pending) ==
  /\ pc = "lock" /\ MutexFree /\ accepted # <<>>
  /\ client_fds_' = client_fds_ \o accepted /\ accepted' = <<>>
  /\ joined' = [joined EXCEPT ![accepted[1]] = count - Len(buffer_) + 1]
  /\ FlushLoop(pending, client_fds_')
  /\ UNCHANGED <<buffer_, buffer_bytes_, life, sock, count, got, connects, upsets>>
RunTakeIn == TakeIn(buffer_)

Server == RunTop \/ RunPoll \/ RunAccept \/ RunTakeIn
Writer == WriteOne \/ DeliverEnds \/ FlushNext
-----------------------------------------------------------------------------
(* The clients. *)

\* A closed connection that nobody here refers to any more can be followed by another.
Connect(c) ==
  /\ listening /\ connects < MaxConnects /\ owner # "killed"
  /\ sock[c] \in {"away", "gone"} /\ ~Contains(client_fds_ \o accepted, c)
  /\ sock' = [sock EXCEPT ![c] = "queued"] /\ got' = [got EXCEPT ![c] = <<>>]
  /\ connects' = connects + 1
  /\ UNCHANGED <<egress, writer, life, pc, accepted, count, joined, upsets>>

Upset(c, from, to) ==
  /\ sock[c] \in from /\ upsets < MaxUpsets /\ owner # "killed"
  /\ sock' = [sock EXCEPT ![c] = to] /\ upsets' = upsets + 1
  /\ UNCHANGED <<egress, writer, life, pc, accepted, hist, connects>>
Leave(c) == Upset(c, {"open", "stalled"}, "gone")
Stall(c) == Upset(c, {"open"}, "stalled")
ReadOn(c) ==
  /\ sock[c] = "stalled" /\ owner # "killed" /\ sock' = [sock EXCEPT ![c] = "open"]
  /\ UNCHANGED <<egress, writer, life, pc, accepted, hist, connects, upsets>>
-----------------------------------------------------------------------------
Next ==
  \/ \E size \in Size : deliver(size)
  \/ start \/ stop \/ StopJoin \/ StopClose
  \/ Writer \/ Server
  \/ \E c \in Client : Connect(c) \/ Leave(c) \/ Stall(c) \/ ReadOn(c)

Spec == Init /\ [][Next]_vars

\* The server thread, a writer that is not blocked, and stop() go on.
FairSpec == Spec /\ WF_vars(Server) /\ WF_vars(Writer) /\ WF_vars(StopJoin \/ StopClose)
-----------------------------------------------------------------------------
Block == [n : Nat, size : Nat]

(* Types. *)
TypeOK ==
  /\ running_ \in BOOLEAN /\ listening \in BOOLEAN
  /\ client_fds_ \in Seq(Client) /\ buffer_ \in Seq(Block) /\ buffer_bytes_ \in Nat
  /\ writing \in {"none", "deliver", "flush"} /\ frame \in Block
  /\ todo \in Seq(Client) /\ dead \subseteq Client
  /\ pc \in {"none", "top", "poll", "accept", "lock", "done"} /\ accepted \in Seq(Client)
  /\ owner \in {"idle", "join", "close", "killed"}
  /\ sock \in [Client -> {"away", "queued", "open", "stalled", "gone"}]
  /\ count \in Nat /\ got \in [Client -> Seq(Nat)] /\ joined \in [Client -> Nat]

(* buffer_bytes_ is the sum of the sizes of what is buffered through every    *)
(* overflow, flush and failed write, and stays below the limit; only a block  *)
(* that is larger than the limit by itself is over it, alone (deliver).       *)
BufferAccounted ==
  /\ buffer_bytes_ = Bytes(buffer_)
  /\ buffer_bytes_ <= max_buffer_bytes \/ Len(buffer_) = 1

(* Between calls, nothing waits in the buffer while there are clients: a      *)
(* block cannot overtake an older one, and none is left for the next          *)
(* client to connect.                                                         *)
NoBacklogBesideClients == MutexFree => (buffer_ = <<>> \/ client_fds_ = <<>>)

(* The buffer is a bounded backlog for absent clients and nothing else.       *)
BufferSound == TypeOK /\ BufferAccounted /\ NoBacklogBesideClients

(* What a client reads is consecutive blocks, the first one being the oldest  *)
(* buffered when it came; between calls a client that has not gone            *)
(* has all of them, whatever became of the other clients.                     *)
ClientStream ==
  \A c \in ToSet(client_fds_) :
    /\ \A k \in 1 .. Len(got[c]) : got[c][k] = joined[c] + k - 1
    /\ (MutexFree /\ sock[c] \in {"open", "stalled"}) => Len(got[c]) = count + 1 - joined[c]

(* A flushed block is gone without a reader only if every client that it was  *)
(* written to had gone: flush_buffer_to_clients does not look at the outcome. *)
FlushLosesOnlyToTheGone ==
  [][(writing = "flush" /\ buffer_' # buffer_) =>
       /\ buffer_' = Tail(buffer_)
       /\ \/ \E c \in ToSet(client_fds_) : Contains(got[c], Head(buffer_).n)
          \/ \A c \in ToSet(client_fds_) : sock[c] = "gone"]_vars

(* A descriptor that a writer still has to write to is not closed, and after  *)
(* stop() has returned there is no thread and no client.                      *)
WritesToOpenClients ==
  /\ \A c \in ToSet(todo) : sock[c] # "away"
  /\ (owner = "idle" /\ ~running_) => (pc = "none" /\ client_fds_ = <<>>)

(* Every client is served to its end, and none is written to after it.        *)
ClientsServed == ClientStream /\ WritesToOpenClients

(* stop() returns unless a writer waits, with mtx_, for a client that does    *)
(* not read: neither the accept nor the flush can keep it.                    *)
StopReturnsUnlessStalled ==
  owner = "join" ~> \/ owner \in {"idle", "killed"}
                    \/ todo # <<>> /\ sock[Head(todo)] = "stalled"
=============================================================================
