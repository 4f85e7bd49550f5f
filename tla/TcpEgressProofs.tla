-------------------------- MODULE TcpEgressProofs --------------------------
(***************************************************************************)
(* What TcpEgress guarantees for any number of clients, any sizes and any  *)
(* limit of the buffer.                                                    *)
(***************************************************************************)
EXTENDS TcpEgress, ListFacts

Members == ToSet(client_fds_)
Held == Members \cup ToSet(accepted)
Live(c) == sock[c] \in {"open", "stalled"}

(* Which calls can overlap: the writers, the server thread and stop().       *)
CallInv ==
  /\ listening = running_
  /\ running_ => owner \in {"idle", "killed"}
  /\ (owner = "idle" /\ ~running_) => (pc = "none" /\ client_fds_ = <<>>)
  /\ owner = "close" => pc = "none"
  /\ accepted # <<>> => (pc = "lock" /\ writing # "flush")
  /\ writing = "flush" => pc = "lock"

(* What the writer of a block knows of the buffer.                           *)
WriterInv ==
  /\ writing = "none" => (todo = <<>> /\ dead = {})
  /\ writing = "deliver" => (buffer_ = <<>> /\ frame.n = count)
  /\ writing = "flush" => (buffer_ # <<>> /\ frame = Head(buffer_))
  /\ writing = "none" => (buffer_ = <<>> \/ client_fds_ = <<>>)

(* The descriptors: each is held once, and one that is held is connected.    *)
SocketInv ==
  /\ IsInjective(client_fds_) /\ IsInjective(todo) /\ Len(accepted) <= 1
  /\ ToSet(todo) \subseteq Members /\ dead \subseteq Members
  /\ Members \cap ToSet(accepted) = {}
  /\ \A c \in Held : sock[c] \in {"open", "stalled", "gone"}
  /\ \A c \in dead : sock[c] = "gone"

(* The buffer holds the last blocks in their order, and counts their bytes.  *)
BufferInv ==
  /\ Len(buffer_) <= count
  /\ \A i \in DOMAIN buffer_ : buffer_[i].n = count - Len(buffer_) + i
  /\ BufferAccounted

(* What a client has read, to the block that the writer has come to.         *)
Due(c) == IF writing = "none" THEN count + 1
          ELSE IF c \in ToSet(todo) THEN frame.n ELSE frame.n + 1
StreamInv ==
  /\ \A c \in Client : sock[c] = "queued" => got[c] = <<>>
  /\ \A c \in ToSet(accepted) : got[c] = <<>>
  /\ \A c \in Members :
       /\ \A k \in 1 .. Len(got[c]) : got[c][k] = joined[c] + k - 1
       /\ joined[c] <= (IF writing = "none" THEN count + 1 ELSE frame.n)
       /\ Live(c) => Len(got[c]) = Due(c) - joined[c]

EgressInv ==
  /\ TypeOK /\ CallInv /\ WriterInv /\ SocketInv /\ BufferInv /\ StreamInv
-----------------------------------------------------------------------------
(* What the operators of the model return. *)

(* ToSet of a list is its Range, under which ListFacts states its facts.     *)
LEMMA ToSetIsRange == \A s : ToSet(s) = Range(s)
  BY DEF ToSet, Range

\* The clients that write_to_clients leaves are those that have not failed.
LEMMA LiveClientsAre ==
  ASSUME TypeOK
  PROVE  /\ LiveClients \in Seq(Client) /\ ToSet(LiveClients) = Members \ dead
         /\ IsInjective(client_fds_) => IsInjective(LiveClients)
  BY WithoutKeeps, ToSetIsRange DEF TypeOK, LiveClients, Members

(* A list of clients has only clients in it, and none exactly when it is     *)
(* empty.                                                                    *)
LEMMA NoMembers ==
  ASSUME NEW s \in Seq(Client)
  PROVE  ToSet(s) \subseteq Client /\ (s = <<>> <=> ToSet(s) = {})
  <1>1. ToSet(s) \subseteq Client
    BY MembersTyped, ToSetIsRange
  <1>2. s # <<>> => Head(s) \in ToSet(s)
    BY MembersOfTail, ToSetIsRange
  <1>. QED  BY <1>1, <1>2, MembersOfEmpty, ToSetIsRange

Sizes(blocks) == [i \in 1 .. Len(blocks) |-> blocks[i].size]

(* The size of the buffer is a number.                                       *)
LEMMA BytesNat ==
  ASSUME NEW b \in Seq(Block)
  PROVE  Sizes(b) \in Seq(Nat) /\ Len(Sizes(b)) = Len(b) /\ Bytes(b) \in Nat
  <1>1. \A i \in 1 .. Len(b) : b[i].size \in Nat
    <2>1. \A i \in 1 .. Len(b) : b[i] \in Block
      OBVIOUS
    <2>. QED  BY <2>1 DEF Block
  <1>2. Sizes(b) \in Seq(Nat) /\ Len(Sizes(b)) = Len(b)
    BY <1>1 DEF Sizes
  <1>. QED  BY <1>2, SumOfNat DEF Bytes, Sizes

(* An empty buffer has size 0 (buffer_data starts from there).               *)
LEMMA BytesEmpty == Bytes(<<>>) = 0
  <1>1. [i \in 1 .. Len(<<>>) |-> <<>>[i].size] = <<>>
    OBVIOUS
  <1>. QED  BY <1>1, SumOfEmpty DEF Bytes

(* A block that buffer_data appends adds its size to the buffer's.           *)
LEMMA BytesAppend ==
  ASSUME NEW b \in Seq(Block), NEW x \in Block
  PROVE  Bytes(Append(b, x)) = Bytes(b) + x.size
  <1>1. x.size \in Nat
    BY DEF Block
  <1>2. Sizes(Append(b, x)) = Append(Sizes(b), x.size)
    BY BytesNat DEF Sizes
  <1>. QED  BY <1>1, <1>2, BytesNat, SumOfAppend DEF Bytes, Sizes

(* Dropping the first block takes its size off the buffer's.                 *)
LEMMA BytesTail ==
  ASSUME NEW b \in Seq(Block), b # <<>>
  PROVE  Head(b) \in Block /\ Bytes(b) = Head(b).size + Bytes(Tail(b))
  <1>1. Tail(b) \in Seq(Block) /\ Head(b) \in Block /\ Sizes(b) # <<>>
    BY BytesNat
  <1>2. Sizes(Tail(b)) = Tail(Sizes(b)) /\ Head(Sizes(b)) = Head(b).size
    BY <1>1, BytesNat DEF Sizes
  <1>. QED  BY <1>1, <1>2, BytesNat, SumOfHead DEF Bytes, Sizes

\* The overflow loop keeps the last blocks, and stops when the new one fits or
\* none is left.
LEMMA KeptIs ==
  ASSUME TypeOK, NEW size \in Nat
  PROVE  \E k \in 0 .. Len(buffer_) :
           /\ Kept(size) = SubSeq(buffer_, k + 1, Len(buffer_))
           /\ Fits(SubSeq(buffer_, k + 1, Len(buffer_)), size)
  <1> DEFINE n == Len(buffer_)
             Left(k) == SubSeq(buffer_, k + 1, n)
             Good == {k \in 0 .. n : Fits(Left(k), size)}
             Stops(k) == Fits(Left(k), size) /\ \A j \in 0 .. (k - 1) : ~Fits(Left(j), size)
  <1>1. n \in Nat /\ buffer_ \in Seq(Block)
    BY DEF TypeOK
  <1>2. Fits(Left(n), size)
    <2>1. Left(n) = <<>>
      BY <1>1
    <2>. QED  BY <2>1 DEF Fits
  <1>3. PICK m \in Good : \A j \in Good : m <= j
    <2>1. Good \subseteq Nat /\ n \in Good
      BY <1>1, <1>2
    <2>. HIDE DEF Good
    <2>. QED  BY <2>1, LeastNat
  <1>4. Stops(m)
    <2>1. ASSUME NEW j \in 0 .. (m - 1), Fits(Left(j), size) PROVE FALSE
      <3>1. j \in Good
        BY <1>1, <1>3, <2>1
      <3>. QED  BY <1>1, <1>3, <3>1
    <2>. QED  BY <1>3, <2>1
  <1>5. Kept(size) = Left(CHOOSE k \in 0 .. n : Stops(k))
    BY Zenon DEF Kept
  <1>6. PICK k \in 0 .. n : k = (CHOOSE i \in 0 .. n : Stops(i)) /\ Stops(k)
    <2> HIDE DEF Stops
    <2>. QED  BY <1>3, <1>4, Zenon
  <1>. QED  BY <1>5, <1>6
-----------------------------------------------------------------------------
(* Every step preserves every part of the invariant. *)

\* What the loop of the flush does next.
LEMMA FlushLoopIs ==
  ASSUME NEW b, NEW c, FlushLoop(b, c)
  PROVE  \/ /\ b # <<>> /\ c # <<>> /\ writing' = "flush" /\ frame' = Head(b)
            /\ todo' = c /\ dead' = {} /\ pc' = pc
         \/ /\ b = <<>> \/ c = <<>>
            /\ writing' = "none" /\ frame' = NoBlock
            /\ todo' = <<>> /\ dead' = {} /\ pc' = "top"
  BY DEF FlushLoop, BeginWrite

(* Every step of the two threads keeps the types.                            *)
LEMMA TypeStep ==
  ASSUME EgressInv, [Next]_vars
  PROVE  TypeOK'
  <1> USE DEF EgressInv
  <1>a. NoBlock \in Block /\ <<>> \in Seq(Client)
    BY DEF NoBlock, Block
  <1>b. ASSUME NEW b \in Seq(Block), b # <<>> PROVE Head(b) \in Block /\ Tail(b) \in Seq(Block)
    BY <1>b
  <1>1. ASSUME NEW size \in Size, deliver(size) PROVE TypeOK'
    <2>1. size \in Nat /\ [n |-> count + 1, size |-> size] \in Block
      BY EgressAssumption DEF TypeOK, Block
    <2>2. Kept(size) \in Seq(Block) /\ Bytes(Kept(size)) \in Nat
      <3>1. PICK k \in 0 .. Len(buffer_) : Kept(size) = SubSeq(buffer_, k + 1, Len(buffer_))
        BY <2>1, KeptIs
      <3>2. Kept(size) \in Seq(Block)
        BY <3>1, SuffixIs DEF TypeOK
      <3>. QED  BY <3>2, BytesNat
    <2>3. CASE client_fds_ # <<>>
      BY <1>1, <2>1, <2>3 DEF TypeOK, deliver, BeginWrite, egress, life
    <2>4. CASE client_fds_ = <<>>
      <3>1. /\ buffer_' = Append(Kept(size), [n |-> count + 1, size |-> size])
            /\ buffer_bytes_' = Bytes(Kept(size)) + size /\ count' = count + 1
        BY <1>1, <2>4 DEF deliver
      <3>2. buffer_' \in Seq(Block) /\ buffer_bytes_' \in Nat /\ count' \in Nat
        BY <2>1, <2>2, <3>1 DEF TypeOK
      <3>. QED  BY <1>1, <2>4, <3>2 DEF TypeOK, deliver, writer, life
    <2>. QED  BY <2>3, <2>4
  <1>2. CASE start \/ stop \/ StopJoin
    BY <1>2 DEF TypeOK, start, stop, StopJoin, egress, writer, hist
  <1>3. CASE StopClose
    BY <1>3, <1>a DEF TypeOK, StopClose, CloseClients, writer, hist
  <1>4. CASE WriteOne
    <2>1. PICK c \in Client : c = Head(todo) /\ Tail(todo) \in Seq(Client)
      BY <1>4 DEF WriteOne, TypeOK
    <2>2. frame.n \in Nat
      BY DEF TypeOK, Block
    <2>3. got' \in [Client -> Seq(Nat)]
      <3>1. Append(got[c], frame.n) \in Seq(Nat)
        BY <2>1, <2>2 DEF TypeOK
      <3>2. got' = got \/ got' = [got EXCEPT ![c] = Append(@, frame.n)]
        BY <1>4, <2>1 DEF WriteOne
      <3>. QED  BY <3>1, <3>2 DEF TypeOK
    <2>4. todo' \in Seq(Client) /\ dead' \subseteq Client
      BY <1>4, <2>1 DEF WriteOne, TypeOK
    <2>. QED  BY <1>4, <2>3, <2>4 DEF WriteOne, TypeOK, egress, life
  <1>5. CASE DeliverEnds
    BY <1>5, <1>a, LiveClientsAre DEF DeliverEnds, BeginWrite, TypeOK, life, hist
  <1>6. CASE FlushNext
    <2>1. /\ client_fds_' = LiveClients /\ buffer_' = Tail(buffer_)
          /\ buffer_bytes_' = buffer_bytes_ - frame.size
          /\ buffer_ # <<>> /\ frame = Head(buffer_)
          /\ FlushLoop(Tail(buffer_), LiveClients)
          /\ UNCHANGED <<life, accepted, sock, hist, connects, upsets>>
      BY <1>6 DEF FlushNext, FlushTo, WriterInv
    <2>2. buffer_' \in Seq(Block) /\ client_fds_' \in Seq(Client)
      BY <2>1, LiveClientsAre DEF TypeOK
    <2>3. buffer_bytes_' \in Nat
      <3>1. frame.size \in Nat /\ buffer_bytes_ = frame.size + Bytes(Tail(buffer_))
        BY <2>1, BytesTail DEF TypeOK, Block, BufferInv, BufferAccounted
      <3>2. Bytes(Tail(buffer_)) \in Nat
        BY <2>1, <2>2, BytesNat
      <3>. QED  BY <2>1, <3>1, <3>2
    <2>4. /\ writing' \in {"none", "deliver", "flush"} /\ frame' \in Block
          /\ todo' \in Seq(Client) /\ dead' \subseteq Client
          /\ pc' \in {"none", "top", "poll", "accept", "lock", "done"}
      <3>1. Tail(buffer_) # <<>> => Head(Tail(buffer_)) \in Block
        BY <2>1, <2>2, <1>b
      <3>. QED  BY <1>a, <2>1, <2>2, <3>1, FlushLoopIs DEF TypeOK
    <2>. QED  BY <2>1, <2>2, <2>3, <2>4 DEF TypeOK, life, hist
  <1>7. CASE RunTop \/ RunPoll
    BY <1>7 DEF TypeOK, RunTop, TopTo, RunPoll, egress, writer, life, hist
  <1>8. CASE RunAccept
    <2>1. /\ accepted' \in Seq(Client)
          /\ sock' \in [Client -> {"away", "queued", "open", "stalled", "gone"}]
      <3>1. CASE UNCHANGED <<accepted, sock>>
        BY <3>1 DEF TypeOK
      <3>2. ASSUME NEW c \in Client, accepted' = <<c>>, sock' = [sock EXCEPT ![c] = "open"]
            PROVE  /\ accepted' \in Seq(Client)
                   /\ sock' \in [Client -> {"away", "queued", "open", "stalled", "gone"}]
        BY <3>2 DEF TypeOK
      <3>. QED  BY <1>8, <3>1, <3>2 DEF RunAccept
    <2>2. pc' \in {"none", "top", "poll", "accept", "lock", "done"}
      BY <1>8 DEF RunAccept
    <2>. QED  BY <1>8, <2>1, <2>2 DEF TypeOK, RunAccept, egress, writer, life, hist
  <1>9. CASE RunTakeIn
    <2>1. /\ accepted # <<>> /\ client_fds_' = client_fds_ \o accepted /\ accepted' = <<>>
          /\ joined' = [joined EXCEPT ![accepted[1]] = count - Len(buffer_) + 1]
          /\ FlushLoop(buffer_, client_fds_')
          /\ UNCHANGED <<buffer_, buffer_bytes_, life, sock, count, got, connects, upsets>>
      BY <1>9 DEF RunTakeIn, TakeIn
    <2>2. client_fds_' \in Seq(Client)
      BY <2>1 DEF TypeOK
    <2>3. joined' \in [Client -> Nat]
      <3>1. count - Len(buffer_) + 1 \in Nat
        BY DEF TypeOK, BufferInv
      <3>. QED  BY <2>1, <3>1 DEF TypeOK
    <2>4. /\ writing' \in {"none", "deliver", "flush"} /\ frame' \in Block
          /\ todo' \in Seq(Client) /\ dead' \subseteq Client
          /\ pc' \in {"none", "top", "poll", "accept", "lock", "done"}
      <3>1. buffer_ # <<>> => Head(buffer_) \in Block
        BY <1>b DEF TypeOK
      <3>. QED  BY <1>a, <2>1, <2>2, <3>1, FlushLoopIs DEF TypeOK
    <2>. QED  BY <1>a, <2>1, <2>2, <2>3, <2>4 DEF TypeOK, life
  <1>10. ASSUME NEW c \in Client, Connect(c) \/ Leave(c) \/ Stall(c) \/ ReadOn(c)
         PROVE  TypeOK'
    <2>1. sock' \in [Client -> {"away", "queued", "open", "stalled", "gone"}]
      BY <1>10 DEF TypeOK, Connect, Leave, Stall, Upset, ReadOn
    <2>2. got' \in [Client -> Seq(Nat)]
      <3>1. <<>> \in Seq(Nat)
        OBVIOUS
      <3>. QED  BY <1>10, <3>1 DEF TypeOK, Connect, Leave, Stall, Upset, ReadOn, hist
    <2>. QED  BY <1>10, <2>1, <2>2
              DEF TypeOK, Connect, Leave, Stall, Upset, ReadOn, egress, writer, life, hist
  <1>11. CASE UNCHANGED vars
    BY <1>11 DEF TypeOK, vars, egress, writer, life, hist
  <1>. QED
    BY <1>1, <1>2, <1>3, <1>4, <1>5, <1>6, <1>7, <1>8, <1>9, <1>10, <1>11
    DEF Next, Writer, Server
(* A call of the receive callback is where the step it is in puts it.        *)
LEMMA CallStep ==
  ASSUME EgressInv, [Next]_vars
  PROVE  CallInv'
  <1> USE DEF EgressInv, CallInv
  <1>1. ASSUME NEW size \in Size, deliver(size) PROVE CallInv'
    BY <1>1 DEF deliver, BeginWrite, MutexFree, egress, life, writer
  <1>2. CASE start \/ stop \/ StopJoin
    <2>1. CASE start
      <3>1. accepted = <<>> /\ writing # "flush"
        BY <2>1 DEF start
      <3>2. accepted' = <<>> /\ writing' # "flush" /\ owner' = "idle" /\ running_' /\ listening'
        BY <2>1, <3>1 DEF start, writer
      <3>3. listening' = running_'
        BY <2>1 DEF start
      <3>. QED  BY <3>2, <3>3
    <2>2. CASE stop
      BY <2>2 DEF stop, egress, writer
    <2>3. CASE StopJoin
      BY <2>3 DEF StopJoin, egress, writer
    <2>. QED  BY <1>2, <2>1, <2>2, <2>3
  <1>3. CASE StopClose
    BY <1>3 DEF StopClose, MutexFree, CloseClients, writer
  <1>4. CASE WriteOne
    BY <1>4 DEF WriteOne, egress, life
  <1>5. CASE DeliverEnds
    <2>1. client_fds_ = <<>> => LiveClients = <<>>
      BY LiveClientsAre, NoMembers DEF TypeOK, Members
    <2>. QED  BY <1>5, <2>1 DEF DeliverEnds, BeginWrite, life
  <1>6. CASE FlushNext
    <2>1. /\ pc = "lock" /\ accepted' = <<>> /\ pc' \in {"lock", "top"} /\ UNCHANGED life
          /\ writing' = "flush" => pc' = "lock"
      BY <1>6 DEF FlushNext, FlushTo, FlushLoop, BeginWrite, Written
    <2>. QED  BY <2>1 DEF life
  <1>7. CASE RunTop \/ RunPoll
    BY <1>7 DEF RunTop, TopTo, RunPoll, egress, writer, life
  <1>8. CASE RunAccept
    BY <1>8 DEF RunAccept, egress, writer, life
  <1>9. CASE RunTakeIn
    <2>1. /\ pc = "lock" /\ accepted' = <<>> /\ pc' \in {"lock", "top"} /\ UNCHANGED life
          /\ writing' = "flush" => pc' = "lock"
      BY <1>9 DEF RunTakeIn, TakeIn, FlushLoop, BeginWrite
    <2>. QED  BY <2>1 DEF life
  <1>10. ASSUME NEW c \in Client, Connect(c) \/ Leave(c) \/ Stall(c) \/ ReadOn(c)
         PROVE  CallInv'
    BY <1>10 DEF Connect, Leave, Stall, Upset, ReadOn, egress, writer, life
  <1>11. CASE UNCHANGED vars
    BY <1>11 DEF vars, egress, writer, life
  <1>. QED
    BY <1>1, <1>2, <1>3, <1>4, <1>5, <1>6, <1>7, <1>8, <1>9, <1>10, <1>11
    DEF Next, Writer, Server

(* The writer's frame is what the call in hand or the flush is sending.      *)
LEMMA WriterStep ==
  ASSUME EgressInv, [Next]_vars
  PROVE  WriterInv'
  <1> USE DEF EgressInv, WriterInv
  <1>1. ASSUME NEW size \in Size, deliver(size) PROVE WriterInv'
    <2>1. CASE client_fds_ # <<>>
      BY <1>1, <2>1 DEF deliver, BeginWrite, MutexFree, egress
    <2>2. CASE client_fds_ = <<>>
      BY <1>1, <2>2 DEF deliver, MutexFree, writer
    <2>. QED  BY <2>1, <2>2
  <1>2. CASE start \/ stop \/ StopJoin
    BY <1>2 DEF start, stop, StopJoin, egress, writer, hist
  <1>3. CASE StopClose
    BY <1>3 DEF StopClose, MutexFree, CloseClients, writer, hist
  <1>4. CASE WriteOne
    BY <1>4 DEF WriteOne, egress
  <1>5. CASE DeliverEnds
    BY <1>5 DEF DeliverEnds, BeginWrite, hist
  <1>6. CASE FlushNext
    <2>1. FlushLoop(buffer_', client_fds_')
      BY <1>6 DEF FlushNext, FlushTo
    <2>. QED  BY <2>1, FlushLoopIs
  <1>7. CASE RunTop \/ RunPoll \/ RunAccept
    BY <1>7 DEF RunTop, TopTo, RunPoll, RunAccept, egress, writer, hist
  <1>8. CASE RunTakeIn
    <2>1. FlushLoop(buffer_', client_fds_')
      BY <1>8 DEF RunTakeIn, TakeIn
    <2>. QED  BY <2>1, FlushLoopIs
  <1>9. ASSUME NEW c \in Client, Connect(c) \/ Leave(c) \/ Stall(c) \/ ReadOn(c)
        PROVE  WriterInv'
    BY <1>9 DEF Connect, Leave, Stall, Upset, ReadOn, egress, writer, hist
  <1>10. CASE UNCHANGED vars
    BY <1>10 DEF vars, egress, writer, hist
  <1>. QED
    BY <1>1, <1>2, <1>3, <1>4, <1>5, <1>6, <1>7, <1>8, <1>9, <1>10
    DEF Next, Writer, Server

\* The head of todo is a client, and is not among the rest.
LEMMA TodoIs ==
  ASSUME EgressInv, todo # <<>>
  PROVE  /\ Head(todo) \in Client /\ Head(todo) \in Members /\ writing # "none"
         /\ ToSet(todo) = {Head(todo)} \cup ToSet(Tail(todo))
         /\ IsInjective(Tail(todo)) /\ Head(todo) \notin ToSet(Tail(todo))
  <1>1. todo \in Seq(Client) /\ IsInjective(todo) /\ ToSet(todo) \subseteq Members
    BY DEF EgressInv, TypeOK, SocketInv
  <1>2. /\ Head(todo) \in Client /\ ToSet(todo) = {Head(todo)} \cup ToSet(Tail(todo))
        /\ IsInjective(Tail(todo)) /\ Head(todo) \notin ToSet(Tail(todo))
    BY <1>1, MembersOfTail, ToSetIsRange
  <1>. QED  BY <1>1, <1>2 DEF EgressInv, WriterInv

\* The client that is taken in was not held by the egress.
LEMMA TakenIn ==
  ASSUME EgressInv, accepted # <<>>
  PROVE  /\ accepted[1] \in Client /\ ToSet(accepted) = {accepted[1]}
         /\ accepted[1] \notin Members
         /\ ToSet(client_fds_ \o accepted) = Members \cup {accepted[1]}
         /\ IsInjective(client_fds_ \o accepted) /\ client_fds_ \o accepted # <<>>
  <1>1. Len(accepted) = 1 /\ accepted[1] \in Client /\ DOMAIN accepted = {1}
    <2>1. accepted \in Seq(Client) /\ Len(accepted) \in Nat /\ Len(accepted) <= 1
      BY DEF EgressInv, TypeOK, SocketInv
    <2>2. Len(accepted) # 0
      BY <2>1
    <2>3. \A n \in Nat : (n <= 1 /\ n # 0) => n = 1
      OBVIOUS
    <2>4. Len(accepted) = 1
      BY <2>1, <2>2, <2>3, Zenon
    <2>. QED  BY <2>1, <2>4
  <1>2. ToSet(accepted) = {accepted[1]} /\ IsInjective(accepted)
    BY <1>1 DEF ToSet, IsInjective
  <1>3. accepted[1] \notin Members
    BY <1>2 DEF EgressInv, SocketInv
  <1>4. Range(client_fds_) \cap Range(accepted) = {}
    BY ToSetIsRange DEF EgressInv, SocketInv, Members
  <1>5. /\ ToSet(client_fds_ \o accepted) = Members \cup ToSet(accepted)
        /\ IsInjective(client_fds_ \o accepted)
        /\ client_fds_ \o accepted \in Seq(Client)
    BY <1>2, <1>4, MembersOfConcat, ToSetIsRange DEF EgressInv, TypeOK, SocketInv, Members
  <1>6. client_fds_ \o accepted # <<>>
    BY <1>2, <1>5, NoMembers
  <1>. QED  BY <1>1, <1>2, <1>3, <1>5, <1>6

(* The empty list has no member and none twice.                              *)
LEMMA EmptySets == ToSet(<<>>) = {} /\ IsInjective(<<>>) /\ Len(<<>>) = 0
  BY MembersOfEmpty, ToSetIsRange

(* The lists of clients name no socket twice and no socket that is closed.   *)
LEMMA SocketStep ==
  ASSUME EgressInv, [Next]_vars
  PROVE  SocketInv'
  <1> USE DEF EgressInv
  <1> DEFINE Holds == <<client_fds_, todo, dead, accepted>>
  <1>a. /\ ToSet(client_fds_) \subseteq Client /\ ToSet(accepted) \subseteq Client
        /\ dead \subseteq Client
    BY NoMembers DEF TypeOK
  <1>1. ASSUME NEW size \in Size, deliver(size) PROVE SocketInv'
    <2>1. CASE client_fds_ # <<>>
      BY <1>1, <2>1 DEF deliver, BeginWrite, egress, SocketInv, Members, Held
    <2>2. CASE client_fds_ = <<>>
      BY <1>1, <2>2 DEF deliver, writer, SocketInv, Members, Held
    <2>. QED  BY <2>1, <2>2
  <1>2. CASE start \/ StopJoin \/ RunTop \/ RunPoll \/ UNCHANGED vars
    <2>1. UNCHANGED <<Holds, sock>>
      BY <1>2 DEF start, StopJoin, RunTop, TopTo, RunPoll, vars, egress, writer
    <2>. QED  BY <2>1 DEF SocketInv, Members, Held
  <1>3. CASE stop
    <2>1. UNCHANGED Holds
      BY <1>3 DEF stop, egress, writer
    <2>2. \A c \in Client : sock[c] # "queued" => sock'[c] = sock[c]
      BY <1>3 DEF stop
    <2>. QED  BY <1>a, <2>1, <2>2 DEF SocketInv, Members, Held
  <1>4. CASE StopClose
    <2>1. client_fds_' = <<>> /\ todo' = <<>> /\ dead' = {} /\ accepted' = <<>>
      BY <1>4 DEF StopClose, MutexFree, CloseClients, writer, WriterInv, CallInv
    <2>. QED  BY <2>1, EmptySets DEF SocketInv, Members, Held
  <1>5. CASE WriteOne
    <2>1. /\ UNCHANGED <<client_fds_, accepted, sock>> /\ todo # <<>>
          /\ todo' \in {todo, Tail(todo)}
          /\ dead' = dead \/ (dead' = dead \cup {Head(todo)} /\ sock[Head(todo)] = "gone")
      BY <1>5 DEF WriteOne, egress
    <2>2. /\ IsInjective(todo') /\ ToSet(todo') \subseteq ToSet(todo)
          /\ Head(todo) \in Members
      BY <2>1, TodoIs DEF SocketInv
    <2>. QED  BY <2>1, <2>2 DEF SocketInv, Members, Held
  <1>6. CASE DeliverEnds
    <2>1. /\ client_fds_' = LiveClients /\ todo' = <<>> /\ dead' = {}
          /\ UNCHANGED <<accepted, sock>>
      BY <1>6 DEF DeliverEnds, BeginWrite
    <2>. QED  BY <2>1, LiveClientsAre, EmptySets DEF SocketInv, Members, Held
  <1>7. CASE FlushNext
    <2>1. /\ client_fds_' = LiveClients /\ todo' \in {<<>>, LiveClients} /\ dead' = {}
          /\ UNCHANGED <<accepted, sock>>
      BY <1>7, FlushLoopIs DEF FlushNext, FlushTo
    <2>. QED  BY <2>1, LiveClientsAre, EmptySets DEF SocketInv, Members, Held
  <1>8. CASE RunAccept
    <2>1. UNCHANGED <<client_fds_, todo, dead>>
      BY <1>8 DEF RunAccept, egress, writer
    <2>2. CASE UNCHANGED <<accepted, sock>>
      BY <2>1, <2>2 DEF SocketInv, Members, Held
    <2>3. ASSUME NEW c \in Client, sock[c] = "queued", accepted' = <<c>>,
                 sock' = [sock EXCEPT ![c] = "open"]
          PROVE  SocketInv'
      <3>1. accepted = <<>> /\ c \notin Members /\ c \notin dead
        BY <1>8, <2>3 DEF RunAccept, CallInv, SocketInv, Held
      <3>2. ToSet(accepted') = {c} /\ Len(accepted') <= 1
        BY <2>3 DEF ToSet
      <3>3. sock'[c] = "open" /\ \A d \in Client : d # c => sock'[d] = sock[d]
        BY <2>3 DEF TypeOK
      <3>4. Members' = Members /\ Held' = Members \cup {c} /\ Members \subseteq Held
        BY <2>1, <3>2 DEF Members, Held
      <3>5. \A d \in Held' : sock'[d] \in {"open", "stalled", "gone"}
        BY <1>a, <3>3, <3>4 DEF SocketInv, Members
      <3>6. \A d \in dead : sock'[d] = "gone"
        BY <1>a, <3>1, <3>3 DEF SocketInv
      <3>7. IsInjective(client_fds_') /\ IsInjective(todo') /\ ToSet(todo') \subseteq Members'
        BY <2>1, <3>4 DEF SocketInv
      <3>8. dead' \subseteq Members' /\ Members' \cap ToSet(accepted') = {} /\ dead' = dead
        BY <2>1, <3>1, <3>2, <3>4 DEF SocketInv
      <3>. QED  BY <3>2, <3>5, <3>6, <3>7, <3>8 DEF SocketInv
    <2>. QED  BY <1>8, <2>2, <2>3 DEF RunAccept
  <1>9. CASE RunTakeIn
    <2>1. /\ client_fds_' = client_fds_ \o accepted /\ accepted # <<>> /\ accepted' = <<>>
          /\ todo' \in {<<>>, client_fds_'} /\ dead' = {} /\ sock' = sock
      BY <1>9, FlushLoopIs DEF RunTakeIn, TakeIn
    <2>2. IsInjective(client_fds_') /\ ToSet(client_fds_') = Held
      BY <2>1, TakenIn DEF Held
    <2>3. \A c \in Held : sock'[c] \in {"open", "stalled", "gone"}
      BY <2>1 DEF SocketInv
    <2>4. Held' = Held /\ Members' = Held
      BY <2>1, <2>2, EmptySets DEF Members, Held
    <2>5. IsInjective(todo') /\ ToSet(todo') \subseteq Members'
      BY <2>1, <2>2, <2>4, EmptySets
    <2>6. Len(accepted') <= 1 /\ ToSet(accepted') = {}
      BY <2>1, EmptySets
    <2>. QED  BY <2>1, <2>2, <2>3, <2>4, <2>5, <2>6 DEF SocketInv
  <1>10. ASSUME NEW c \in Client, Connect(c) \/ Leave(c) \/ Stall(c) \/ ReadOn(c)
         PROVE  SocketInv'
    <2>1. UNCHANGED Holds
      BY <1>10 DEF Connect, Leave, Stall, Upset, ReadOn, egress, writer
    <2>2. /\ \A d \in Client : d # c => sock'[d] = sock[d]
          /\ \/ sock[c] \in {"open", "stalled"} /\ sock'[c] \in {"open", "stalled", "gone"}
             \/ c \notin Held
      <3>1. CASE Connect(c)
        <4>1. ~Contains(client_fds_ \o accepted, c)
          BY <3>1 DEF Connect
        <4>2. c \notin ToSet(client_fds_ \o accepted)
          BY <4>1, SMTT(30) DEF Contains, ToSet, TypeOK
        <4>3. c \notin Held
          BY <4>2, MembersOfConcat, ToSetIsRange DEF TypeOK, Held, Members
        <4>. QED  BY <3>1, <4>3 DEF Connect, TypeOK
      <3>2. CASE Leave(c) \/ Stall(c) \/ ReadOn(c)
        BY <3>2 DEF Leave, Stall, Upset, ReadOn, TypeOK
      <3>. QED  BY <1>10, <3>1, <3>2
    <2>. QED  BY <1>a, <2>1, <2>2 DEF SocketInv, Members, Held
  <1>. QED
    BY <1>1, <1>2, <1>3, <1>4, <1>5, <1>6, <1>7, <1>8, <1>9, <1>10
    DEF Next, Writer, Server

(* The buffer stays within its limit and holds the last blocks in order.     *)
LEMMA BufferStep ==
  ASSUME EgressInv, [Next]_vars
  PROVE  BufferInv'
  <1> USE DEF EgressInv
  <1>a. /\ buffer_ \in Seq(Block) /\ Len(buffer_) \in Nat /\ count \in Nat
        /\ \A i \in DOMAIN buffer_ : buffer_[i].n \in Nat
        /\ max_buffer_bytes \in Nat
    <2>1. \A i \in DOMAIN buffer_ : buffer_[i] \in Block
      BY DEF TypeOK
    <2>. QED  BY <2>1, EgressAssumption DEF TypeOK, Block
  <1>1. ASSUME NEW size \in Size, deliver(size) PROVE BufferInv'
    <2> DEFINE block == [n |-> count + 1, size |-> size]
    <2>1. size \in Nat /\ block \in Block /\ block.n = count + 1 /\ block.size = size
          /\ count' = count + 1
      BY <1>1, EgressAssumption DEF TypeOK, Block, deliver
    <2>2. CASE client_fds_ # <<>>
      <3>1. buffer_ = <<>> /\ buffer_' = buffer_ /\ buffer_bytes_' = buffer_bytes_
        BY <1>1, <2>2 DEF deliver, MutexFree, WriterInv, egress
      <3>. QED  BY <1>a, <2>1, <3>1 DEF BufferInv, BufferAccounted
    <2>3. CASE client_fds_ = <<>>
      <3>1. PICK k \in 0 .. Len(buffer_) :
                   /\ Kept(size) = SubSeq(buffer_, k + 1, Len(buffer_))
                   /\ Fits(Kept(size), size)
        BY <2>1, KeptIs
      <3>2. /\ Kept(size) \in Seq(Block) /\ Len(Kept(size)) = Len(buffer_) - k
            /\ \A i \in 1 .. Len(buffer_) - k : Kept(size)[i] = buffer_[k + i]
        BY <1>a, <3>1, SuffixIs
      <3>3. /\ buffer_' = Append(Kept(size), block)
            /\ buffer_bytes_' = Bytes(Kept(size)) + size
        BY <1>1, <2>3 DEF deliver
      <3> DEFINE m == Len(buffer_) - k
      <3>4. /\ m \in Nat /\ m <= Len(buffer_) /\ Len(buffer_') = m + 1
            /\ DOMAIN buffer_' = 1 .. m + 1 /\ buffer_'[m + 1] = block
            /\ \A i \in 1 .. m : buffer_'[i] = buffer_[k + i]
        <4> HIDE DEF block
        <4>. QED  BY <1>a, <3>2, <3>3
      <3>5. Len(buffer_') <= count'
        BY <1>a, <2>1, <3>4 DEF BufferInv
      <3>6. ASSUME NEW i \in DOMAIN buffer_'
            PROVE  buffer_'[i].n = count' - Len(buffer_') + i
        <4>1. CASE i = m + 1
          BY <1>a, <2>1, <3>4, <4>1
        <4>2. CASE i # m + 1
          <5>1. i \in 1 .. m /\ k + i \in DOMAIN buffer_
            BY <1>a, <3>4, <4>2
          <5>2. buffer_'[i].n = count - Len(buffer_) + (k + i)
            BY <3>4, <5>1 DEF BufferInv
          <5>. QED  BY <1>a, <2>1, <3>4, <5>1, <5>2
        <4>. QED  BY <4>1, <4>2
      <3>7. buffer_bytes_' = Bytes(buffer_')
        BY <2>1, <3>2, <3>3, BytesAppend
      <3>8. buffer_bytes_' <= max_buffer_bytes \/ Len(buffer_') = 1
        <4>1. CASE Kept(size) = <<>>
          BY <3>2, <3>4, <4>1
        <4>2. CASE Kept(size) # <<>>
          BY <3>1, <3>3, <4>2 DEF Fits
        <4>. QED  BY <4>1, <4>2
      <3>9. BufferAccounted'
        <4>. HIDE DEF m, block
        <4>. QED  BY <3>7, <3>8 DEF BufferAccounted, Bytes
      <3>. QED  BY <3>5, <3>6, <3>9 DEF BufferInv
    <2>. QED  BY <2>2, <2>3
  <1>2. CASE FlushNext
    <2>1. /\ buffer_ # <<>> /\ buffer_' = Tail(buffer_) /\ frame = Head(buffer_)
          /\ buffer_bytes_' = buffer_bytes_ - frame.size /\ count' = count
      BY <1>2 DEF FlushNext, FlushTo, WriterInv, hist
    <2>2. /\ Head(buffer_) \in Block /\ Bytes(buffer_) = frame.size + Bytes(buffer_')
          /\ Bytes(buffer_') \in Nat /\ frame.size \in Nat
      <3>1. Tail(buffer_) \in Seq(Block)
        BY <1>a, <2>1
      <3>2. Head(buffer_) \in Block /\ Bytes(buffer_) = Head(buffer_).size + Bytes(Tail(buffer_))
        BY <1>a, <2>1, BytesTail
      <3>3. frame.size \in Nat
        BY <2>1, <3>2 DEF Block
      <3>. QED  BY <2>1, <3>1, <3>2, <3>3, BytesNat
    <2>3. buffer_bytes_' = Bytes(buffer_') /\ buffer_bytes_' <= buffer_bytes_
      BY <2>1, <2>2 DEF BufferInv, BufferAccounted
    <2>4. /\ DOMAIN buffer_' = 1 .. Len(buffer_) - 1 /\ Len(buffer_') = Len(buffer_) - 1
          /\ Len(buffer_) >= 1
          /\ \A i \in 1 .. Len(buffer_) - 1 : buffer_'[i] = buffer_[i + 1]
      BY <1>a, <2>1
    <2>5. buffer_bytes_' <= max_buffer_bytes \/ Len(buffer_') = 1
      <3>1. CASE buffer_bytes_ <= max_buffer_bytes
        BY <1>a, <2>2, <2>3, <3>1 DEF TypeOK
      <3>2. CASE Len(buffer_) = 1
        <4>1. buffer_' = <<>>
          BY <1>a, <2>1, <3>2
        <4>. QED  BY <1>a, <2>3, <4>1, BytesEmpty
      <3>. QED  BY <3>1, <3>2 DEF BufferInv, BufferAccounted
    <2>6. ASSUME NEW i \in DOMAIN buffer_' PROVE buffer_'[i].n = count' - Len(buffer_') + i
      <3>1. i + 1 \in DOMAIN buffer_ /\ buffer_'[i] = buffer_[i + 1]
        BY <1>a, <2>4
      <3>2. buffer_[i + 1].n = count - Len(buffer_) + (i + 1)
        BY <3>1 DEF BufferInv
      <3>. QED  BY <1>a, <2>1, <2>4, <3>1, <3>2
    <2>7. Len(buffer_') <= count'
      BY <1>a, <2>1, <2>4 DEF BufferInv
    <2>8. BufferAccounted'
      BY <2>3, <2>5 DEF BufferAccounted, Bytes
    <2>. QED  BY <2>6, <2>7, <2>8 DEF BufferInv
  <1>3. CASE UNCHANGED <<buffer_, buffer_bytes_, count>>
    BY <1>3 DEF BufferInv, BufferAccounted, Bytes
  <1>4. ASSUME ~FlushNext, ~\E size \in Size : deliver(size)
        PROVE  UNCHANGED <<buffer_, buffer_bytes_, count>>
    BY <1>4 DEF Next, Writer, Server, vars, start, stop, StopJoin, StopClose, CloseClients,
       WriteOne, DeliverEnds, RunTop, TopTo, RunPoll, RunAccept, RunTakeIn, TakeIn, Connect,
       Leave, Stall, Upset, ReadOn, egress, hist
  <1>. QED  BY <1>1, <1>2, <1>3, <1>4

\* The block that the flush writes is the oldest, and the next one follows it.
LEMMA FlushedIs ==
  ASSUME EgressInv, buffer_ # <<>>
  PROVE  /\ Head(buffer_).n = count - Len(buffer_) + 1
         /\ Len(buffer_) \in Nat /\ Len(buffer_) >= 1 /\ Len(buffer_) <= count
         /\ Tail(buffer_) = <<>> => Len(buffer_) = 1
         /\ Tail(buffer_) # <<>> => Head(Tail(buffer_)).n = count - Len(buffer_) + 2
  <1>1. buffer_ \in Seq(Block) /\ Len(buffer_) \in Nat /\ Len(buffer_) >= 1 /\ count \in Nat
    BY DEF EgressInv, TypeOK
  <1>2. /\ Head(buffer_) = buffer_[1] /\ 1 \in DOMAIN buffer_
        /\ Tail(buffer_) = <<>> => Len(buffer_) = 1
    <2>1. Len(Tail(buffer_)) = Len(buffer_) - 1
      BY <1>1
    <2>. QED  BY <1>1, <2>1
  <1>3. ASSUME Tail(buffer_) # <<>>
        PROVE  Head(Tail(buffer_)) = buffer_[2] /\ 2 \in DOMAIN buffer_
    BY <1>1, <1>3
  <1>. QED  BY <1>1, <1>2, <1>3 DEF EgressInv, BufferInv

(* What a client has got stays a run of the stream without a gap or a repeat.*)
LEMMA StreamStep ==
  ASSUME EgressInv, [Next]_vars
  PROVE  StreamInv'
  <1> USE DEF EgressInv
  <1> DEFINE Sound(c) ==
               /\ \A k \in 1 .. Len(got[c]) : got[c][k] = joined[c] + k - 1
               /\ joined[c] <= (IF writing = "none" THEN count + 1 ELSE frame.n)
               /\ Live(c) => Len(got[c]) = Due(c) - joined[c]
             NotYet == /\ \A c \in Client : sock[c] = "queued" => got[c] = <<>>
                       /\ \A c \in ToSet(accepted) : got[c] = <<>>
  <1>a. /\ Members \subseteq Client /\ ToSet(accepted) \subseteq Client
        /\ ToSet(todo) \subseteq Client
    BY NoMembers DEF TypeOK, Members
  <1>b. /\ \A c \in Client : joined[c] \in Nat /\ got[c] \in Seq(Nat) /\ Len(got[c]) \in Nat
        /\ count \in Nat /\ frame.n \in Nat /\ Len(buffer_) \in Nat
    BY DEF TypeOK, Block
  <1>c. NotYet /\ \A c \in Members : Sound(c)
    BY DEF StreamInv
  <1>d. (NotYet' /\ \A c \in Members' : Sound(c)') => StreamInv'
    BY DEF StreamInv
  <1>1. ASSUME NEW size \in Size, deliver(size) PROVE StreamInv'
    <2>1. writing = "none" /\ UNCHANGED <<client_fds_, accepted, sock, got, joined>>
      BY <1>1 DEF deliver, MutexFree, egress
    <2>2. NotYet'
      BY <1>c, <2>1
    <2>3. CASE client_fds_ # <<>>
      <3>1. writing' = "deliver" /\ frame'.n = count + 1 /\ todo' = client_fds_ /\ Members' = Members
        BY <1>1, <2>1, <2>3 DEF deliver, BeginWrite, Members
      <3>2. ASSUME NEW c \in Members' PROVE Sound(c)'
        BY <1>c, <2>1, <3>1 DEF Due, Live, Members
      <3>. QED  BY <1>d, <2>2, <3>2
    <2>4. CASE client_fds_ = <<>>
      <3>1. Members' = {}
        BY <2>1, <2>4, EmptySets DEF Members
      <3>. QED  BY <1>d, <2>2, <3>1
    <2>. QED  BY <2>3, <2>4
  <1>2. CASE UNCHANGED <<client_fds_, writing, frame, todo, accepted, sock, count, got, joined>>
    <2>1. NotYet'
      BY <1>c, <1>2
    <2>2. ASSUME NEW c \in Members' PROVE Sound(c)'
      BY <1>c, <1>2 DEF Due, Live, Members
    <2>. QED  BY <1>d, <2>1, <2>2
  <1>3. CASE stop
    <2>1. UNCHANGED <<client_fds_, writing, frame, todo, accepted, count, got, joined>>
      BY <1>3 DEF stop, egress, writer, hist
    <2>2. \A c \in Client : sock'[c] \in {sock[c], "away"}
      BY <1>3 DEF stop
    <2>3. NotYet'
      BY <1>c, <2>1, <2>2
    <2>4. ASSUME NEW c \in Members' PROVE Sound(c)'
      BY <1>a, <1>c, <2>1, <2>2 DEF Due, Live, Members
    <2>. QED  BY <1>d, <2>3, <2>4
  <1>4. CASE StopClose
    <2>1. client_fds_' = <<>> /\ UNCHANGED <<accepted, got>> /\ \A c \in Client : sock'[c] = "away"
      BY <1>4 DEF StopClose, CloseClients, hist
    <2>. QED  BY <1>c, <1>d, <2>1, EmptySets DEF Members
  <1>5. CASE WriteOne
    <2>0. PICK h : h = Head(todo)
      OBVIOUS
    <2>1. /\ todo # <<>> /\ h \in Client /\ h \in Members /\ writing # "none"
          /\ ToSet(todo) = {h} \cup ToSet(Tail(todo)) /\ h \notin ToSet(Tail(todo))
          /\ UNCHANGED <<client_fds_, writing, frame, accepted, sock, count, joined>>
      BY <1>5, <2>0, TodoIs DEF WriteOne, egress
    <2>2. Members' = Members
      BY <2>1 DEF Members
    <2>3. CASE sock[h] = "open" /\ got' = [got EXCEPT ![h] = Append(@, frame.n)] /\ todo' = Tail(todo)
      <3>1. /\ got'[h] = Append(got[h], frame.n)
            /\ \A c \in Client : c # h => got'[c] = got[c]
        BY <2>1, <2>3 DEF TypeOK
      <3>2. h \notin ToSet(accepted)
        BY <2>1 DEF SocketInv
      <3>3. NotYet'
        BY <1>a, <1>c, <2>1, <2>3, <3>1, <3>2
      <3>4. Sound(h)'
        <4>1. Len(got[h]) = frame.n - joined[h]
          BY <1>c, <2>1, <2>3 DEF Due, Live
        <4>2. /\ Len(got'[h]) = Len(got[h]) + 1 /\ got'[h][Len(got[h]) + 1] = frame.n
              /\ \A k \in 1 .. Len(got[h]) : got'[h][k] = got[h][k]
          BY <1>b, <2>1, <3>1
        <4>3. ASSUME NEW k \in 1 .. Len(got'[h]) PROVE got'[h][k] = joined[h] + k - 1
          <5>1. CASE k = Len(got[h]) + 1
            BY <1>b, <2>1, <4>1, <4>2, <5>1
          <5>2. CASE k # Len(got[h]) + 1
            <6>1. k \in 1 .. Len(got[h])
              BY <1>b, <2>1, <4>2, <5>2
            <6>. QED  BY <1>c, <2>1, <4>2, <6>1
          <5>. QED  BY <5>1, <5>2
        <4>4. joined[h] <= frame.n
          BY <1>c, <2>1
        <4>5. Due(h)' = frame.n + 1
          BY <2>1, <2>3 DEF Due
        <4>6. Len(got'[h]) = Due(h)' - joined[h]
          <5>1. joined[h] \in Nat /\ frame.n \in Nat
            BY <1>b, <2>1
          <5>2. Len(got'[h]) = (frame.n + 1) - joined[h]
            BY <4>1, <4>2, <5>1
          <5>. QED  BY <4>5, <5>2, Zenon
        <4>. QED  BY <2>1, <4>3, <4>4, <4>6
      <3>5. ASSUME NEW c \in Members, c # h PROVE Sound(c)'
        <4>1. got'[c] = got[c] /\ Due(c)' = Due(c)
          BY <1>a, <2>1, <2>3, <3>1, <3>5 DEF Due
        <4>. QED  BY <1>c, <2>1, <4>1 DEF Live
      <3>. QED  BY <1>d, <2>2, <3>3, <3>4, <3>5
    <2>4. CASE sock[h] = "gone" /\ got' = got /\ todo' \in {todo, Tail(todo)}
      <3>1. NotYet'
        BY <1>c, <2>1, <2>4
      <3>2. ASSUME NEW c \in Members PROVE Sound(c)'
        <4>1. c # h => Due(c)' = Due(c)
          BY <2>1, <2>4 DEF Due
        <4>2. Live(c)' => (c # h /\ Live(c))
          BY <2>1, <2>4 DEF Live
        <4>. QED  BY <1>c, <2>1, <2>4, <4>1, <4>2
      <3>. QED  BY <1>d, <2>2, <3>1, <3>2
    <2>. QED  BY <1>5, <2>0, <2>3, <2>4 DEF WriteOne
  <1>6. CASE DeliverEnds
    <2>1. /\ writing = "deliver" /\ todo = <<>> /\ writing' = "none"
          /\ client_fds_' = LiveClients /\ UNCHANGED <<accepted, sock, count, got, joined>>
      BY <1>6 DEF DeliverEnds, Written, BeginWrite, hist
    <2>2. Members' \subseteq Members /\ frame.n = count
      BY <2>1, LiveClientsAre DEF Members, WriterInv
    <2>3. NotYet'
      BY <1>c, <2>1
    <2>4. ASSUME NEW c \in Members' PROVE Sound(c)'
      <3>1. c \in Client /\ Sound(c) /\ Due(c) = count + 1 /\ Due(c)' = count + 1
        BY <1>a, <1>c, <2>1, <2>2, EmptySets DEF Due
      <3>2. joined[c] <= count + 1
        BY <1>b, <2>1, <2>2, <3>1
      <3>. QED  BY <2>1, <3>1, <3>2 DEF Live
    <2>. QED  BY <1>d, <2>3, <2>4
  <1>7. CASE FlushNext
    <2>1. /\ writing = "flush" /\ todo = <<>> /\ buffer_ # <<>> /\ frame = Head(buffer_)
          /\ client_fds_' = LiveClients /\ UNCHANGED <<accepted, sock, count, got, joined>>
          /\ FlushLoop(Tail(buffer_), LiveClients)
      BY <1>7 DEF FlushNext, FlushTo, Written, WriterInv, hist
    <2>2. Members' \subseteq Members /\ Members' = ToSet(LiveClients)
      BY <2>1, LiveClientsAre DEF Members
    <2>3. NotYet'
      BY <1>c, <2>1
    <2>4. ASSUME NEW c \in Members' PROVE Sound(c)'
      <3>1. c \in Client /\ Sound(c) /\ Due(c) = frame.n + 1
        BY <1>a, <1>c, <2>1, <2>2, EmptySets DEF Due
      <3>2. frame.n = count - Len(buffer_) + 1 /\ Len(buffer_) >= 1 /\ joined[c] <= frame.n
        BY <2>1, <3>1, FlushedIs
      <3>3. CASE /\ Tail(buffer_) # <<>> /\ writing' = "flush" /\ todo' = LiveClients
                 /\ frame' = Head(Tail(buffer_))
        <4>1. frame'.n = frame.n + 1
          BY <1>b, <2>1, <3>2, <3>3, FlushedIs
        <4>2. Due(c)' = Due(c)
          BY <2>2, <3>1, <3>3, <4>1 DEF Due
        <4>3. joined[c] <= frame'.n
          BY <1>b, <3>1, <3>2, <4>1
        <4>. QED  BY <2>1, <3>1, <3>3, <4>2, <4>3 DEF Live
      <3>4. CASE Tail(buffer_) = <<>> /\ writing' = "none"
        <4>1. frame.n = count
          BY <1>b, <2>1, <3>2, <3>4, FlushedIs
        <4>2. Due(c)' = Due(c) /\ joined[c] <= count + 1
          BY <1>b, <2>1, <3>1, <3>2, <3>4, <4>1 DEF Due
        <4>. QED  BY <2>1, <3>1, <3>4, <4>2 DEF Live
      <3>5. LiveClients # <<>>
        BY <2>2, EmptySets
      <3>. QED  BY <2>1, <3>3, <3>4, <3>5, FlushLoopIs
    <2>. QED  BY <1>d, <2>3, <2>4
  <1>8. CASE RunAccept
    <2>1. UNCHANGED <<client_fds_, writing, frame, todo, count, got, joined>>
      BY <1>8 DEF RunAccept, egress, writer, hist
    <2>2. CASE UNCHANGED <<accepted, sock>>
      BY <1>2, <2>1, <2>2
    <2>3. ASSUME NEW c \in Client, sock[c] = "queued", accepted' = <<c>>,
                 sock' = [sock EXCEPT ![c] = "open"]
          PROVE  StreamInv'
      <3>1. ToSet(accepted') = {c}
        BY <2>3 DEF ToSet
      <3>2. sock'[c] = "open" /\ \A d \in Client : d # c => sock'[d] = sock[d]
        BY <2>3 DEF TypeOK
      <3>3. NotYet'
        BY <1>c, <2>1, <2>3, <3>1, <3>2
      <3>4. c \notin Members
        BY <2>3 DEF SocketInv, Held
      <3>5. ASSUME NEW d \in Members' PROVE Sound(d)'
        <4>1. d \in Members /\ d \in Client /\ d # c
          BY <1>a, <2>1, <3>4 DEF Members
        <4>. QED  BY <1>c, <2>1, <3>2, <4>1 DEF Live, Due
      <3>. QED  BY <1>d, <3>3, <3>5
    <2>. QED  BY <1>8, <2>2, <2>3 DEF RunAccept
  <1>9. CASE RunTakeIn
    <2>0. PICK a : a = accepted[1]
      OBVIOUS
    <2>1. /\ writing = "none" /\ accepted # <<>> /\ accepted' = <<>>
          /\ client_fds_' = client_fds_ \o accepted
          /\ joined' = [joined EXCEPT ![a] = count - Len(buffer_) + 1]
          /\ FlushLoop(buffer_, client_fds_') /\ UNCHANGED <<sock, count, got>>
      BY <1>9, <2>0 DEF RunTakeIn, TakeIn, MutexFree
    <2>2. /\ a \in Client /\ a \in ToSet(accepted) /\ a \notin Members
          /\ Members' = Members \cup {a} /\ client_fds_' # <<>>
      BY <2>0, <2>1, TakenIn DEF Members
    <2>3. /\ joined'[a] = count - Len(buffer_) + 1
          /\ \A c \in Client : c # a => joined'[c] = joined[c]
      BY <2>1, <2>2 DEF TypeOK
    <2>4. NotYet'
      BY <1>c, <2>1, EmptySets
    <2>5. /\ buffer_ # <<>> =>
               (writing' = "flush" /\ frame'.n = count - Len(buffer_) + 1 /\ todo' = client_fds_')
          /\ buffer_ = <<>> => (writing' = "none" /\ Len(buffer_) = 0)
      BY <2>1, <2>2, FlushLoopIs, FlushedIs
    <2>6. Due(a)' = count - Len(buffer_) + 1
      <3>1. a \in ToSet(client_fds_')
        BY <2>2 DEF Members
      <3>2. CASE buffer_ # <<>>
        BY <2>5, <3>1, <3>2 DEF Due
      <3>3. CASE buffer_ = <<>>
        <4>1. Due(a)' = count + 1
          BY <2>1, <2>5, <3>3 DEF Due
        <4>. QED  BY <1>b, <2>5, <3>3, <4>1
      <3>. QED  BY <3>2, <3>3
    <2>7. Sound(a)'
      <3>1. got'[a] = <<>> /\ Len(got'[a]) = 0
        BY <1>c, <2>1, <2>2
      <3>2. joined'[a] <= (IF writing = "none" THEN count + 1 ELSE frame.n)'
        BY <1>b, <2>1, <2>3, <2>5 DEF BufferInv
      <3>. QED  BY <1>b, <2>3, <2>6, <3>1, <3>2 DEF BufferInv
    <2>8. ASSUME NEW c \in Members PROVE Sound(c)'
      <3>1. buffer_ = <<>> /\ c \in Client /\ c # a
        <4>1. client_fds_ # <<>>
          BY EmptySets DEF Members
        <4>. QED  BY <1>a, <2>1, <2>2, <4>1 DEF WriterInv
      <3>2. Due(c)' = Due(c) /\ writing' = "none" /\ joined'[c] = joined[c]
        BY <2>1, <2>3, <2>5, <3>1 DEF Due
      <3>. QED  BY <1>c, <2>1, <3>2 DEF Live
    <2>. QED  BY <1>d, <2>2, <2>4, <2>7, <2>8
  <1>10. ASSUME NEW c \in Client, Connect(c) PROVE StreamInv'
    <2>1. UNCHANGED <<client_fds_, writing, frame, todo, accepted, count, joined>>
      BY <1>10 DEF Connect, egress, writer
    <2>2. /\ got'[c] = <<>> /\ \A d \in Client : d # c => (got'[d] = got[d] /\ sock'[d] = sock[d])
      BY <1>10 DEF Connect, TypeOK
    <2>3. c \notin Members
      <3>1. c \notin ToSet(client_fds_ \o accepted)
        BY <1>10, SMTT(30) DEF Connect, Contains, ToSet, TypeOK
      <3>. QED  BY <3>1, MembersOfConcat, ToSetIsRange DEF TypeOK, Members
    <2>4. NotYet'
      BY <1>a, <1>c, <2>1, <2>2
    <2>5. ASSUME NEW d \in Members' PROVE Sound(d)'
      <3>1. d \in Members /\ d \in Client /\ d # c
        BY <1>a, <2>1, <2>3 DEF Members
      <3>. QED  BY <1>c, <2>1, <2>2, <3>1 DEF Live, Due
    <2>. QED  BY <1>d, <2>4, <2>5
  <1>11. ASSUME NEW c \in Client, Leave(c) \/ Stall(c) \/ ReadOn(c) PROVE StreamInv'
    <2>1. UNCHANGED <<client_fds_, writing, frame, todo, accepted, count, got, joined>>
      BY <1>11 DEF Leave, Stall, Upset, ReadOn, egress, writer, hist
    <2>2. /\ sock[c] \in {"open", "stalled"} /\ sock'[c] \in {"open", "stalled", "gone"}
          /\ \A d \in Client : d # c => sock'[d] = sock[d]
      BY <1>11 DEF Leave, Stall, Upset, ReadOn, TypeOK
    <2>3. NotYet'
      BY <1>c, <2>1, <2>2
    <2>4. ASSUME NEW d \in Members' PROVE Sound(d)'
      <3>1. d \in Members /\ d \in Client /\ Due(d)' = Due(d) /\ (Live(d)' => Live(d))
        BY <1>a, <2>1, <2>2 DEF Members, Due, Live
      <3>. QED  BY <1>c, <2>1, <3>1
    <2>. QED  BY <1>d, <2>3, <2>4
  <1>12. CASE start \/ StopJoin \/ RunTop \/ RunPoll \/ UNCHANGED vars
    <2>1. UNCHANGED <<client_fds_, writing, frame, todo, accepted, sock, count, got, joined>>
      BY <1>12 DEF start, StopJoin, RunTop, TopTo, RunPoll, vars, egress, writer, hist
    <2>. QED  BY <1>2, <2>1
  <1>. QED
    BY <1>1, <1>3, <1>4, <1>5, <1>6, <1>7, <1>8, <1>9, <1>10, <1>11, <1>12
    DEF Next, Writer, Server
-----------------------------------------------------------------------------
(* The egress starts in a state of the invariant: no client and nothing held.*)
LEMMA EgressInit == Init => EgressInv
  <1> SUFFICES ASSUME Init PROVE EgressInv
    OBVIOUS
  <1>1. /\ <<>> \in Seq(Client) /\ <<>> \in Seq(Block) /\ <<>> \in Seq(Nat)
        /\ NoBlock \in Block /\ 0 \in Nat /\ 1 \in Nat
    BY DEF NoBlock, Block
  <1>2. TypeOK
    BY <1>1 DEF Init, TypeOK
  <1>3. CallInv /\ WriterInv
    BY DEF Init, CallInv, WriterInv
  <1>4. SocketInv
    BY EmptySets DEF Init, SocketInv, Members, Held
  <1>5. BufferInv
    BY BytesEmpty, EgressAssumption DEF Init, BufferInv, BufferAccounted
  <1>6. StreamInv
    BY EmptySets DEF Init, StreamInv, Members
  <1>. QED  BY <1>2, <1>3, <1>4, <1>5, <1>6 DEF EgressInv

(* The inductive invariant holds in every reachable state of the egress.     *)
THEOREM EgressInvariant == Spec => []EgressInv
  <1>1. EgressInv /\ [Next]_vars => EgressInv'
    BY TypeStep, CallStep, WriterStep, SocketStep, BufferStep, StreamStep DEF EgressInv
  <1>. QED  BY EgressInit, <1>1, PTL DEF Spec

(* The buffer is accounted to the byte and bounded, and holds nothing beside *)
(* connected clients between calls, for any sizes and any limit: deliver and *)
(* flush_buffer_to_clients.                                                  *)
THEOREM BufferIsSound == Spec => []BufferSound
  <1>1. EgressInv => BufferSound
    BY DEF EgressInv, BufferInv, WriterInv, BufferSound, NoBacklogBesideClients, MutexFree
  <1>. QED  BY EgressInvariant, <1>1, PTL

(* Every client reads consecutive blocks and, between calls, has all that    *)
(* were due to it; no descriptor is written to that stop() has closed.       *)
THEOREM ClientsAreServed == Spec => []ClientsServed
  <1>1. EgressInv => ClientStream
    <2> SUFFICES ASSUME EgressInv, NEW c \in Members
                 PROVE  /\ \A k \in 1 .. Len(got[c]) : got[c][k] = joined[c] + k - 1
                        /\ (MutexFree /\ sock[c] \in {"open", "stalled"})
                             => Len(got[c]) = count + 1 - joined[c]
      BY DEF ClientStream, Members
    <2>1. /\ \A k \in 1 .. Len(got[c]) : got[c][k] = joined[c] + k - 1
          /\ Live(c) => Len(got[c]) = Due(c) - joined[c]
      BY DEF EgressInv, StreamInv
    <2>2. MutexFree => Due(c) = count + 1
      BY DEF MutexFree, Due
    <2>3. c \in Client /\ count \in Nat /\ joined[c] \in Nat /\ Len(got[c]) \in Nat
      BY NoMembers DEF EgressInv, TypeOK, Members
    <2>4. (MutexFree /\ Live(c)) => Len(got[c]) = (count + 1) - joined[c]
      BY <2>1, <2>2, Zenon
    <2>. QED  BY <2>1, <2>3, <2>4 DEF Live
  <1>2. EgressInv => WritesToOpenClients
    BY DEF EgressInv, SocketInv, CallInv, Held, WritesToOpenClients
  <1>. QED  BY EgressInvariant, <1>1, <1>2, PTL DEF ClientsServed

(* The flush takes blocks from the front, and one that no client has read    *)
(* was written only to clients that had gone: flush_buffer_to_clients.       *)
THEOREM FlushLoses == Spec => FlushLosesOnlyToTheGone
  <1> DEFINE Loses ==
        (writing = "flush" /\ buffer_' # buffer_) =>
          /\ buffer_' = Tail(buffer_)
          /\ \/ \E c \in ToSet(client_fds_) : Contains(got[c], Head(buffer_).n)
             \/ \A c \in ToSet(client_fds_) : sock[c] = "gone"
  <1>1. EgressInv /\ [Next]_vars => [Loses]_vars
    <2> SUFFICES ASSUME EgressInv, Next, writing = "flush", buffer_' # buffer_
                 PROVE  /\ buffer_' = Tail(buffer_)
                        /\ \/ \E c \in ToSet(client_fds_) : Contains(got[c], Head(buffer_).n)
                           \/ \A c \in ToSet(client_fds_) : sock[c] = "gone"
      OBVIOUS
    <2>1. FlushNext
      BY DEF Next, Writer, Server, deliver, MutexFree, start, stop, StopJoin, StopClose,
         CloseClients, WriteOne, DeliverEnds, RunTop, TopTo, RunPoll, RunAccept, RunTakeIn,
         TakeIn, Connect, Leave, Stall, Upset, ReadOn, egress
    <2>2. buffer_' = Tail(buffer_) /\ todo = <<>> /\ frame = Head(buffer_)
      BY <2>1 DEF FlushNext, FlushTo, Written, EgressInv, WriterInv
    <2>3. ASSUME NEW c \in Members, sock[c] # "gone" PROVE Contains(got[c], frame.n)
      <3>1. c \in Client /\ joined[c] \in Nat /\ frame.n \in Nat /\ Len(got[c]) \in Nat
        BY NoMembers DEF EgressInv, TypeOK, Members, Block
      <3>2. Live(c)
        BY <2>3 DEF EgressInv, SocketInv, Held, Live
      <3>3. Len(got[c]) = frame.n + 1 - joined[c] /\ joined[c] <= frame.n
        <4>1. Due(c) = frame.n + 1
          BY <2>2, EmptySets DEF Due
        <4>2. Len(got[c]) = Due(c) - joined[c] /\ joined[c] <= frame.n
          BY <3>2, writing = "flush" DEF EgressInv, StreamInv
        <4>. QED  BY <3>1, <4>1, <4>2
      <3>4. Len(got[c]) \in 1 .. Len(got[c])
        BY <3>1, <3>3
      <3>5. got[c][Len(got[c])] = frame.n
        <4>1. got[c][Len(got[c])] = joined[c] + Len(got[c]) - 1
          BY <3>4 DEF EgressInv, StreamInv
        <4>. QED  BY <3>1, <3>3, <4>1
      <3>. QED  BY <3>4, <3>5 DEF Contains
    <2>. QED  BY <2>2, <2>3 DEF Members
  <1>. QED  BY EgressInvariant, <1>1, PTL DEF Spec, FlushLosesOnlyToTheGone
=============================================================================
