--------------------------- MODULE TcpIngressProofs --------------------------
(***************************************************************************)
(* Proofs about TcpIngress: the inductive invariant, one lemma per action, *)
(* and the theorems.  What the framing makes of the streams of the clients *)
(* is in FramingProofs.                                                    *)
(***************************************************************************)
EXTENDS TcpIngress, FramingProofs

(* Before start() and after stop() there is no thread and no client; events  *)
(* are at hand only while the thread accepts and serves.                     *)
Lifecycle ==
  /\ (owner = "idle" /\ ~running_) => pc = "none" /\ client_fds_ = <<>>
  /\ pc \notin {"accept", "serve"} => polled = <<>>

(* A client is on the list once, and one reported as hung up was reset.      *)
ClientsOnce ==
  /\ IsInjective(client_fds_)
  /\ \A i \in 1 .. Len(polled) : polled[i].revents = "hup" => conn[polled[i].fd] = "reset"

(* The messages taken from a client are the first that it has sent; the rest *)
(* of its stream is in its buffer and on the wire, with a part of a frame at *)
(* the end only when it has left.                                            *)
StreamOf(f) ==
  \E t \in Tails : /\ conn[f] = "open" => t = <<>>
                   /\ Parsed(sent[f], t, received[f], buffers[f] \o wire[f])
ClientStreams == \A f \in ToSet(client_fds_) : StreamOf(f)

(* No buffer has a whole message: reading takes all of them.                 *)
BuffersOpen == \A f \in Fd : ~HasMessage(buffers[f])

IngressInv ==
  TypeOK /\ PolledAreClients /\ Lifecycle /\ ClientsOnce /\ ClientStreams /\ BuffersOpen

(* A block has a frame that a prefix can measure.                            *)
LEMMA BlocksShort == Block \subseteq Short /\ Seq(Block) \subseteq Seq(Short)
  <1>1. Block \subseteq Short
    BY IngressAssumption DEF Short
  <1>. QED  BY <1>1, SeqMonotonic

(* The members of the list of clients.                                       *)
LEMMA ClientsAre ==
  ASSUME NEW s \in Seq(Fd)
  PROVE  /\ ToSet(s) \subseteq Fd /\ ToSet(s) = Range(s)
         /\ \A f : Contains(s, f) <=> f \in ToSet(s)
  BY DEF ToSet, Range, Contains

(* A list of which nothing is left.                                          *)
LEMMA NoneAre == Len(<<>>) = 0 /\ ToSet(<<>>) = {} /\ IsInjective(<<>>) /\ <<>> \in Seq(Fd)
  BY DEF ToSet, IsInjective

(* A client more on the list.                                                *)
LEMMA ClientsGrow ==
  ASSUME NEW s \in Seq(Fd), NEW f \in Fd
  PROVE  /\ Append(s, f) \in Seq(Fd) /\ ToSet(Append(s, f)) = ToSet(s) \cup {f}
         /\ (IsInjective(s) /\ f \notin ToSet(s)) => IsInjective(Append(s, f))
  <1>1. PICK t \in Seq(Fd) : /\ t = Append(s, f) /\ Len(t) = Len(s) + 1 /\ t[Len(s) + 1] = f
                             /\ \A i \in 1 .. Len(s) : t[i] = s[i]
    <2>1. /\ Append(s, f) \in Seq(Fd) /\ Len(Append(s, f)) = Len(s) + 1
          /\ Append(s, f)[Len(s) + 1] = f /\ \A i \in 1 .. Len(s) : Append(s, f)[i] = s[i]
      BY AppendIs
    <2>. QED  BY <2>1, Zenon
  <1>2. /\ Len(s) \in Nat /\ DOMAIN s = 1 .. Len(s) /\ DOMAIN t = 1 .. Len(s) + 1
    BY <1>1
  <1>3. ToSet(t) = ToSet(s) \cup {f}
    <2>1. ToSet(t) \subseteq ToSet(s) \cup {f}
      <3>1. ASSUME NEW i \in 1 .. Len(s) + 1 PROVE t[i] = f \/ t[i] \in ToSet(s)
        <4>1. CASE i = Len(s) + 1
          BY <1>1, <4>1
        <4>2. CASE i \in 1 .. Len(s)
          BY <1>1, <1>2, <4>2 DEF ToSet
        <4>. QED  BY <1>2, <4>1, <4>2
      <3>. QED  BY <1>2, <3>1 DEF ToSet
    <2>2. f \in ToSet(t)
      BY <1>1, <1>2 DEF ToSet
    <2>3. ToSet(s) \subseteq ToSet(t)
      <3>1. ASSUME NEW i \in 1 .. Len(s) PROVE s[i] = t[i] /\ i \in 1 .. Len(s) + 1
        BY <1>1, <1>2
      <3>. QED  BY <1>2, <3>1 DEF ToSet
    <2>. QED  BY <2>1, <2>2, <2>3
  <1>4. ASSUME IsInjective(s), f \notin ToSet(s) PROVE IsInjective(t)
    <2>1. \A i \in 1 .. Len(s) : s[i] # f
      BY <1>2, <1>4 DEF ToSet
    <2>2. \A i, j \in 1 .. Len(s) : s[i] = s[j] => i = j
      BY <1>2, <1>4 DEF IsInjective
    <2>3. ASSUME NEW i \in 1 .. Len(s) + 1, NEW j \in 1 .. Len(s) + 1, t[i] = t[j]
          PROVE  i = j
      <3>1. \A k \in 1 .. Len(s) + 1 : k = Len(s) + 1 \/ k \in 1 .. Len(s)
        BY <1>2
      <3>. QED  BY <1>1, <2>1, <2>2, <2>3, <3>1
    <2>. QED  BY <1>2, <2>3 DEF IsInjective
  <1>. QED  BY <1>1, <1>3, <1>4

(* A client less.                                                            *)
LEMMA ClientsShrink ==
  ASSUME NEW s \in Seq(Fd), NEW f
  PROVE  /\ Without(s, {f}) \in Seq(Fd) /\ ToSet(Without(s, {f})) = ToSet(s) \ {f}
         /\ IsInjective(s) => IsInjective(Without(s, {f}))
  <1>1. PICK D : D = {f}
    OBVIOUS
  <1>2. /\ Without(s, D) \in Seq(Fd) /\ Range(Without(s, D)) = Range(s) \ D
        /\ IsInjective(s) => IsInjective(Without(s, D))
    BY WithoutKeeps
  <1>3. ToSet(Without(s, D)) = Range(Without(s, D)) /\ ToSet(s) = Range(s)
    BY DEF ToSet, Range
  <1>. QED  BY <1>1, <1>2, <1>3

(* An event names a descriptor.                                              *)
LEMMA EventsTyped ==
  ASSUME IngressInv, NEW i \in 1 .. Len(polled)
  PROVE  polled[i].fd \in Fd /\ polled[i].revents \in {"none", "in", "hup"}
  <1>1. PICK E : E = [fd : Fd, revents : {"none", "in", "hup"}]
    OBVIOUS
  <1>2. polled \in Seq(E)
    BY <1>1 DEF IngressInv, TypeOK
  <1>3. polled[i] \in E
    BY <1>2
  <1>. QED  BY <1>1, <1>3

(* The stream of a client that a step leaves alone.                          *)
LEMMA StreamKept ==
  ASSUME NEW f, StreamOf(f), conn'[f] = conn[f] \/ conn'[f] # "open", sent'[f] = sent[f],
         received'[f] = received[f], buffers'[f] = buffers[f], wire'[f] = wire[f]
  PROVE  StreamOf(f)'
  BY DEF StreamOf

(* A step that moves only the thread and the owner.                          *)
LEMMA MovesKeep ==
  ASSUME IngressInv, UNCHANGED <<client_fds_, buffers, polled, conn, wire, hist>>,
         running_' \in BOOLEAN, listening' \in BOOLEAN, owner' \in {"idle", "join"},
         pc' \in {"none", "top", "poll", "accept", "serve", "done"}, Lifecycle'
  PROVE  IngressInv'
  <1>1. UNCHANGED <<client_fds_, buffers, polled, conn, wire, sent, received>>
    BY DEF hist
  <1>2. TypeOK'
    BY <1>1 DEF IngressInv, TypeOK
  <1>3. PolledAreClients' /\ ClientsOnce'
    BY <1>1 DEF IngressInv, PolledAreClients, ClientsOnce
  <1>4. ClientStreams' /\ BuffersOpen'
    BY <1>1 DEF IngressInv, ClientStreams, StreamOf, BuffersOpen
  <1>. QED  BY <1>2, <1>3, <1>4 DEF IngressInv

(* The empty state.                                                          *)
LEMMA InitIngressInv == Init => IngressInv
  <1> SUFFICES ASSUME Init PROVE IngressInv
    OBVIOUS
  <1>1. TypeOK
    <2>1. \A S : <<>> \in Seq(S)
      OBVIOUS
    <2>. QED  BY <2>1 DEF Init, TypeOK
  <1>2. PolledAreClients
    <2>1. {f \in Fd : conn[f] # "free"} = {}
      BY DEF Init
    <2>. QED  BY <2>1, NoneAre DEF Init, PolledAreClients
  <1>3. Lifecycle /\ ClientsOnce /\ ClientStreams /\ BuffersOpen
    BY NoneAre, NoTail DEF Init, Lifecycle, ClientsOnce, ClientStreams, BuffersOpen
  <1>. QED  BY <1>1, <1>2, <1>3 DEF IngressInv

(* start(): buffers are cleared, and there is no client.                     *)
LEMMA StartKeeps ==
  ASSUME IngressInv, start
  PROVE  IngressInv'
  <1>1. /\ owner = "idle" /\ ~running_ /\ running_' = TRUE /\ listening' = TRUE /\ pc' = "top"
        /\ buffers' = [f \in Fd |-> <<>>] /\ polled' = <<>>
        /\ UNCHANGED <<owner, client_fds_, conn, wire, sent, received>>
    BY DEF start, hist
  <1>2. client_fds_ = <<>>
    BY <1>1 DEF IngressInv, Lifecycle
  <1>3. TypeOK'
    <2>1. \A S : <<>> \in Seq(S)
      OBVIOUS
    <2>2. buffers' \in [Fd -> Seq(Byte)]
      BY <1>1, <2>1
    <2>. QED  BY <1>1, <2>1, <2>2 DEF IngressInv, TypeOK
  <1>4. PolledAreClients'
    BY <1>1, NoneAre DEF IngressInv, PolledAreClients
  <1>5. Lifecycle' /\ ClientsOnce' /\ ClientStreams'
    BY <1>1, <1>2, NoneAre DEF Lifecycle, ClientsOnce, ClientStreams
  <1>6. BuffersOpen'
    BY <1>1, NoTail DEF BuffersOpen
  <1>. QED  BY <1>3, <1>4, <1>5, <1>6 DEF IngressInv

(* stop() waits for the thread.                                              *)
LEMMA StopKeeps ==
  ASSUME IngressInv, stop
  PROVE  IngressInv'
  <1>1. /\ running_' = FALSE /\ listening' = FALSE /\ owner' = "join"
        /\ UNCHANGED <<client_fds_, buffers, pc, polled, conn, wire, hist>>
    BY DEF stop
  <1>2. Lifecycle'
    BY <1>1 DEF IngressInv, Lifecycle
  <1>. QED  BY <1>1, <1>2, MovesKeep DEF IngressInv, TypeOK

(* It closes the clients when no event is at hand.                           *)
LEMMA StopCloseKeeps ==
  ASSUME IngressInv, StopClose
  PROVE  IngressInv'
  <1>1. /\ pc = "done" /\ owner' = "idle" /\ pc' = "none"
        /\ client_fds_' = <<>> /\ conn' = [f \in Fd |-> "free"]
        /\ UNCHANGED <<running_, listening, buffers, polled, wire, sent, received>>
    BY DEF StopClose, hist
  <1>2. polled = <<>>
    BY <1>1 DEF IngressInv, Lifecycle
  <1>3. TypeOK'
    BY <1>1, NoneAre DEF IngressInv, TypeOK
  <1>4. PolledAreClients'
    <2>1. {f \in Fd : conn'[f] # "free"} = {}
      BY <1>1
    <2>. QED  BY <1>1, <1>2, <2>1, NoneAre DEF PolledAreClients
  <1>5. Lifecycle' /\ ClientsOnce' /\ ClientStreams' /\ BuffersOpen'
    BY <1>1, <1>2, NoneAre
       DEF IngressInv, Lifecycle, ClientsOnce, ClientStreams, BuffersOpen
  <1>. QED  BY <1>3, <1>4, <1>5 DEF IngressInv
-----------------------------------------------------------------------------
(* The thread.                                                               *)

(* The top of the loop.                                                      *)
LEMMA RunTopKeeps ==
  ASSUME IngressInv, RunTop
  PROVE  IngressInv'
  <1>1. /\ pc = "top" /\ pc' \in {"poll", "done"}
        /\ UNCHANGED <<running_, listening, owner>>
        /\ UNCHANGED <<client_fds_, buffers, polled, conn, wire, hist>>
    BY DEF RunTop, TopTo, life
  <1>2. Lifecycle'
    BY <1>1 DEF IngressInv, Lifecycle
  <1>3. /\ running_' \in BOOLEAN /\ listening' \in BOOLEAN /\ owner' \in {"idle", "join"}
        /\ pc' \in {"none", "top", "poll", "accept", "serve", "done"}
    BY <1>1 DEF IngressInv, TypeOK
  <1>. QED  BY <1>1, <1>2, <1>3, MovesKeep

(* Its end: all events are served.                                           *)
LEMMA RunServedKeeps ==
  ASSUME IngressInv, RunServed
  PROVE  IngressInv'
  <1>1. /\ pc = "serve" /\ polled = <<>> /\ pc' = "top"
        /\ UNCHANGED <<running_, listening, owner>>
        /\ UNCHANGED <<client_fds_, buffers, polled, conn, wire, hist>>
    BY DEF RunServed, life
  <1>2. Lifecycle'
    BY <1>1 DEF IngressInv, Lifecycle
  <1>3. /\ running_' \in BOOLEAN /\ listening' \in BOOLEAN /\ owner' \in {"idle", "join"}
        /\ pc' \in {"none", "top", "poll", "accept", "serve", "done"}
    BY <1>1 DEF IngressInv, TypeOK
  <1>. QED  BY <1>1, <1>2, <1>3, MovesKeep

(* poll() reports the clients, each once.                                    *)
LEMMA RunPollKeeps ==
  ASSUME IngressInv, RunPoll
  PROVE  IngressInv'
  <1>1. /\ pc = "poll" /\ UNCHANGED <<running_, listening, owner>>
        /\ UNCHANGED <<client_fds_, buffers, conn, wire, hist>>
    BY DEF RunPoll, life
  <1>2. /\ running_' \in BOOLEAN /\ listening' \in BOOLEAN /\ owner' \in {"idle", "join"}
    BY <1>1 DEF IngressInv, TypeOK
  <1>3. CASE pc' \in {"done", "top"} /\ UNCHANGED polled
    <2>1. Lifecycle'
      BY <1>1, <1>3 DEF IngressInv, Lifecycle
    <2>. QED  BY <1>1, <1>2, <1>3, <2>1, MovesKeep
  <1>4. CASE /\ polled' = [i \in 1 .. Len(client_fds_) |->
                             [fd |-> client_fds_[i], revents |-> Revents(client_fds_[i])]]
             /\ pc' \in {"accept", "serve"}
    <2>1. PICK n \in Nat : /\ n = Len(client_fds_) /\ DOMAIN client_fds_ = 1 .. n
                           /\ \A i \in 1 .. n : client_fds_[i] \in Fd
      BY DEF IngressInv, TypeOK
    <2>2. \A f : Revents(f) \in {"none", "in", "hup"} /\ (Revents(f) = "hup" => conn[f] = "reset")
      BY DEF Revents
    <2>3. /\ polled' \in Seq([fd : Fd, revents : {"none", "in", "hup"}]) /\ Len(polled') = n
          /\ \A i \in 1 .. n : /\ polled'[i].fd = client_fds_[i]
                               /\ polled'[i].revents = "hup" => conn[client_fds_[i]] = "reset"
      <3> DEFINE At(i) == [fd |-> client_fds_[i], revents |-> Revents(client_fds_[i])]
      <3>1. \A i \in 1 .. n : At(i) \in [fd : Fd, revents : {"none", "in", "hup"}]
        BY <2>1, <2>2
      <3>2. \A i \in 1 .. n : /\ At(i).fd = client_fds_[i]
                              /\ At(i).revents = "hup" => conn[client_fds_[i]] = "reset"
        BY <2>2
      <3>3. polled' = [i \in 1 .. n |-> At(i)]
        BY <1>4, <2>1
      <3> HIDE DEF At
      <3>. QED  BY <2>1, <3>1, <3>2, <3>3
    <2>4. TypeOK'
      BY <1>1, <1>4, <2>3 DEF IngressInv, TypeOK, hist
    <2>5. {f \in Fd : conn[f] # "free"} = ToSet(client_fds_) /\ IsInjective(client_fds_)
      BY DEF IngressInv, PolledAreClients, ClientsOnce
    <2>6. ASSUME NEW i \in 1 .. n
          PROVE  Contains(client_fds_, client_fds_[i]) /\ conn[client_fds_[i]] # "free"
      <3>1. client_fds_[i] \in ToSet(client_fds_)
        BY <2>1 DEF ToSet
      <3>. QED  BY <2>1, <2>5, <3>1 DEF Contains
    <2>7. \A i, j \in 1 .. n : i # j => client_fds_[i] # client_fds_[j]
      BY <2>1, <2>5 DEF IsInjective
    <2>8. PolledAreClients'
      BY <1>1, <2>3, <2>5, <2>6, <2>7 DEF PolledAreClients
    <2>9. ClientsOnce'
      BY <1>1, <2>3, <2>5 DEF ClientsOnce
    <2>10. Lifecycle'
      BY <1>1, <1>4 DEF IngressInv, Lifecycle
    <2>11. ClientStreams' /\ BuffersOpen'
      BY <1>1 DEF IngressInv, ClientStreams, StreamOf, BuffersOpen, hist
    <2>. QED  BY <2>4, <2>8, <2>9, <2>10, <2>11 DEF IngressInv
  <1>. QED  BY <1>3, <1>4 DEF RunPoll

(* accept(): the new client has a descriptor that no other has, and nothing  *)
(* of the one that had it before is left in its buffer.                      *)
LEMMA RunAcceptKeeps ==
  ASSUME IngressInv, RunAccept
  PROVE  IngressInv'
  <1>1. /\ pc = "accept" /\ pc' = "serve" /\ UNCHANGED <<running_, listening, owner>>
        /\ UNCHANGED polled
    BY DEF RunAccept, life
  <1>2. /\ running_' \in BOOLEAN /\ listening' \in BOOLEAN /\ owner' \in {"idle", "join"}
    BY <1>1 DEF IngressInv, TypeOK
  <1>3. Lifecycle'
    BY <1>1 DEF IngressInv, Lifecycle
  <1>4. CASE ~(listening /\ Free # {})
    <2>1. UNCHANGED <<client_fds_, buffers, conn, wire, hist>>
      BY <1>4 DEF RunAccept
    <2>. QED  BY <1>1, <1>2, <1>3, <2>1, MovesKeep
  <1>5. CASE listening /\ Free # {}
    <2> DEFINE least == CHOOSE f \in Free : \A g \in Free : f <= g
    <2>1. \E f \in Free : \A g \in Free : f <= g
      <3>1. Free \subseteq Nat
        BY IngressAssumption DEF Free
      <3>2. PICK S : S = Free
        OBVIOUS
      <3>3. \E m \in S : \A k \in S : m <= k
        BY <1>5, <3>1, <3>2, LeastNat
      <3>. QED  BY <3>2, <3>3
    <2>2. PICK f \in Free : f = least
      BY <2>1
    <2>3. /\ client_fds_' = Append(client_fds_, f) /\ buffers' = [buffers EXCEPT ![f] = <<>>]
          /\ conn' = [conn EXCEPT ![f] = "open"] /\ wire' = [wire EXCEPT ![f] = <<>>]
          /\ sent' = [sent EXCEPT ![f] = <<>>] /\ received' = [received EXCEPT ![f] = <<>>]
      BY <1>5, <2>2 DEF RunAccept
    <2> HIDE DEF least
    <2>4. TypeOK /\ PolledAreClients /\ ClientsOnce /\ ClientStreams /\ BuffersOpen
      BY DEF IngressInv
    <2>5. f \in Fd /\ conn[f] = "free" /\ f \notin ToSet(client_fds_)
      BY <2>4 DEF Free, PolledAreClients
    <2>6. /\ client_fds_' \in Seq(Fd) /\ ToSet(client_fds_') = ToSet(client_fds_) \cup {f}
          /\ IsInjective(client_fds_')
      BY <2>3, <2>4, <2>5, ClientsGrow DEF TypeOK, ClientsOnce
    <2>7. \A S : <<>> \in Seq(S)
      OBVIOUS
    <2>8. /\ buffers' \in [Fd -> Seq(Byte)] /\ wire' \in [Fd -> Seq(Byte)]
          /\ conn' \in [Fd -> {"free", "open", "fin", "reset"}]
          /\ sent' \in [Fd -> Seq(Block)] /\ received' \in [Fd -> Seq(Block)]
          /\ buffers'[f] = <<>> /\ wire'[f] = <<>> /\ conn'[f] = "open"
          /\ sent'[f] = <<>> /\ received'[f] = <<>>
          /\ \A g \in Fd \ {f} : /\ buffers'[g] = buffers[g] /\ wire'[g] = wire[g]
                                 /\ conn'[g] = conn[g] /\ sent'[g] = sent[g]
                                 /\ received'[g] = received[g]
      BY <2>3, <2>4, <2>5, <2>7 DEF TypeOK
    <2>9. TypeOK'
      BY <1>1, <1>2, <2>4, <2>6, <2>8 DEF TypeOK
    <2>10. PolledAreClients' /\ ClientsOnce'
      <3>1. \A i \in 1 .. Len(polled) : polled[i].fd \in Fd
        BY EventsTyped
      <3>2. \A i \in 1 .. Len(polled) : conn'[polled[i].fd] = conn[polled[i].fd] /\ polled[i].fd # f
        BY <2>4, <2>5, <2>8, <3>1 DEF PolledAreClients
      <3>3. \A g : Contains(client_fds_, g) => Contains(client_fds_', g)
        BY <2>4, <2>6, ClientsAre DEF TypeOK
      <3>4. {g \in Fd : conn'[g] # "free"} = ToSet(client_fds_')
        BY <2>4, <2>5, <2>6, <2>8 DEF PolledAreClients
      <3>. QED  BY <1>1, <2>4, <2>6, <3>2, <3>3, <3>4 DEF PolledAreClients, ClientsOnce
    <2>11. ClientStreams'
      <3>1. StreamOf(f)'
        BY <2>8, NoTail, ParsedNone DEF StreamOf
      <3>2. ASSUME NEW g \in ToSet(client_fds_) PROVE StreamOf(g)'
        <4>1. g \in Fd \ {f}
          BY <2>4, <2>5, ClientsAre DEF TypeOK
        <4>. QED  BY <2>4, <2>8, <4>1, StreamKept DEF ClientStreams
      <3>. QED  BY <2>6, <3>1, <3>2 DEF ClientStreams
    <2>12. BuffersOpen'
      BY <2>4, <2>8, NoTail DEF BuffersOpen
    <2>. QED  BY <1>3, <2>9, <2>10, <2>11, <2>12 DEF IngressInv
  <1>. QED  BY <1>4, <1>5

(* The client to be served, and the events that are left after it.           *)
LEMMA NextEvent ==
  ASSUME IngressInv, polled # <<>>
  PROVE  /\ polled[1].fd \in ToSet(client_fds_) /\ polled[1].fd \in Fd
         /\ conn[polled[1].fd] # "free"
         /\ polled[1].revents = "hup" => conn[polled[1].fd] = "reset"
         /\ Tail(polled) \in Seq([fd : Fd, revents : {"none", "in", "hup"}])
         /\ \A i \in 1 .. Len(Tail(polled)) :
              /\ Tail(polled)[i].fd \in ToSet(client_fds_) \ {polled[1].fd}
              /\ Tail(polled)[i].fd \in Fd /\ conn[Tail(polled)[i].fd] # "free"
              /\ Tail(polled)[i].revents = "hup" => conn[Tail(polled)[i].fd] = "reset"
         /\ \A i, j \in 1 .. Len(Tail(polled)) : i # j => Tail(polled)[i].fd # Tail(polled)[j].fd
  <1>1. PICK E : E = [fd : Fd, revents : {"none", "in", "hup"}]
    OBVIOUS
  <1>2. polled \in Seq(E)
    BY <1>1 DEF IngressInv, TypeOK
  <1>3. PICK n \in Nat : n = Len(polled) /\ n >= 1
    BY <1>2
  <1>4. PICK q \in Seq(E) : /\ q = Tail(polled) /\ Len(q) = n - 1
                            /\ \A i \in 1 .. n - 1 : q[i] = polled[i + 1]
    <2>1. /\ Tail(polled) \in Seq(E) /\ Len(Tail(polled)) = n - 1
          /\ \A i \in 1 .. n - 1 : Tail(polled)[i] = polled[i + 1]
      BY <1>2, <1>3
    <2>. QED  BY <2>1, Zenon
  <1>5. /\ \A i, j \in 1 .. n : i # j => polled[i].fd # polled[j].fd
        /\ \A i \in 1 .. n : /\ Contains(client_fds_, polled[i].fd) /\ conn[polled[i].fd] # "free"
                             /\ polled[i].revents = "hup" => conn[polled[i].fd] = "reset"
    BY <1>3 DEF IngressInv, PolledAreClients, ClientsOnce
  <1>6. \A i \in 1 .. n : polled[i].fd \in ToSet(client_fds_) /\ polled[i].fd \in Fd
    BY <1>3, <1>5, EventsTyped, ClientsAre DEF IngressInv, TypeOK
  <1>7. ASSUME NEW i \in 1 .. n - 1 PROVE i + 1 \in 1 .. n /\ i + 1 # 1 /\ q[i] = polled[i + 1]
    BY <1>3, <1>4
  <1>8. \A i \in 1 .. n - 1 :
          /\ q[i].fd \in ToSet(client_fds_) \ {polled[1].fd}
          /\ q[i].fd \in Fd /\ conn[q[i].fd] # "free"
          /\ q[i].revents = "hup" => conn[q[i].fd] = "reset"
    BY <1>3, <1>5, <1>6, <1>7
  <1>9. \A i, j \in 1 .. n - 1 : i # j => q[i].fd # q[j].fd
    BY <1>3, <1>5, <1>7
  <1>10. 1 \in 1 .. n
    BY <1>3
  <1>. QED  BY <1>1, <1>4, <1>5, <1>6, <1>8, <1>9, <1>10

(* What is left of a step that serves the client f: its own stream.          *)
LEMMA ServedKeeps ==
  ASSUME IngressInv, pc = "serve", polled # <<>>, polled' = Tail(polled),
         UNCHANGED <<life, pc, sent, conn, client_fds_>>,
         NEW f, f = polled[1].fd,
         buffers' \in [Fd -> Seq(Byte)], wire' \in [Fd -> Seq(Byte)], received' \in [Fd -> Seq(Block)],
         \A g \in Fd \ {f} : /\ buffers'[g] = buffers[g] /\ wire'[g] = wire[g]
                             /\ received'[g] = received[g],
         StreamOf(f)', ~HasMessage(buffers'[f])
  PROVE  IngressInv'
  <1>1. TypeOK /\ PolledAreClients /\ ClientsOnce /\ ClientStreams /\ BuffersOpen /\ Lifecycle
    BY DEF IngressInv
  <1>2. UNCHANGED <<running_, listening, owner, pc, sent, conn, client_fds_>>
    BY DEF life
  <1>3. TypeOK'
    BY <1>1, <1>2, NextEvent DEF TypeOK
  <1>4. \A g : Contains(client_fds_, g) <=> g \in ToSet(client_fds_)
    BY <1>1, ClientsAre DEF TypeOK
  <1>5. PolledAreClients' /\ ClientsOnce'
    BY <1>1, <1>2, <1>4, NextEvent DEF PolledAreClients, ClientsOnce
  <1>6. Lifecycle'
    BY <1>1, <1>2 DEF Lifecycle
  <1>7. ASSUME NEW g \in ToSet(client_fds_), g # f PROVE StreamOf(g)'
    <2>1. g \in Fd \ {f}
      BY <1>1, <1>7, ClientsAre DEF TypeOK
    <2>. QED  BY <1>1, <1>2, <2>1, StreamKept DEF ClientStreams
  <1>8. ClientStreams'
    BY <1>2, <1>7 DEF ClientStreams
  <1>9. BuffersOpen'
    BY <1>1 DEF BuffersOpen
  <1>. QED  BY <1>3, <1>5, <1>6, <1>8, <1>9 DEF IngressInv

(* A client without an event.                                                *)
LEMMA ServeNoneKeeps ==
  ASSUME IngressInv, pc = "serve", polled # <<>>, polled' = Tail(polled),
         UNCHANGED <<life, pc, sent, conn, buffers, client_fds_, wire, received>>
  PROVE  IngressInv'
  <1>1. PICK f : f = polled[1].fd /\ f \in ToSet(client_fds_) /\ f \in Fd
    BY NextEvent
  <1>2. StreamOf(f)' /\ ~HasMessage(buffers'[f])
    BY <1>1, StreamKept DEF IngressInv, ClientStreams, BuffersOpen
  <1>. QED  BY <1>1, <1>2, ServedKeeps DEF IngressInv, TypeOK

(* A client is closed: its descriptor is free again, and no event has it.    *)
LEMMA ServeCloseKeeps ==
  ASSUME IngressInv, pc = "serve", polled # <<>>, polled' = Tail(polled),
         UNCHANGED <<life, pc, sent>>, Close(polled[1].fd)
  PROVE  IngressInv'
  <1>1. TypeOK /\ PolledAreClients /\ ClientsOnce /\ ClientStreams /\ BuffersOpen /\ Lifecycle
    BY DEF IngressInv
  <1>2. PICK f : f = polled[1].fd /\ f \in ToSet(client_fds_) /\ f \in Fd
    BY NextEvent
  <1>3. /\ conn' = [conn EXCEPT ![f] = "free"] /\ buffers' = [buffers EXCEPT ![f] = <<>>]
        /\ client_fds_' = Without(client_fds_, {f})
        /\ UNCHANGED <<running_, listening, owner, pc, sent, wire, received>>
    BY <1>2 DEF Close, life
  <1>4. /\ client_fds_' \in Seq(Fd) /\ ToSet(client_fds_') = ToSet(client_fds_) \ {f}
        /\ IsInjective(client_fds_')
    BY <1>1, <1>3, ClientsShrink DEF TypeOK, ClientsOnce
  <1>5. /\ conn' \in [Fd -> {"free", "open", "fin", "reset"}] /\ buffers' \in [Fd -> Seq(Byte)]
        /\ conn'[f] = "free" /\ buffers'[f] = <<>>
        /\ \A g \in Fd \ {f} : conn'[g] = conn[g] /\ buffers'[g] = buffers[g]
    <2>1. <<>> \in Seq(Byte)
      OBVIOUS
    <2>. QED  BY <1>1, <1>2, <1>3, <2>1 DEF TypeOK
  <1>6. TypeOK'
    BY <1>1, <1>3, <1>4, <1>5, NextEvent DEF TypeOK
  <1>7. \A g : Contains(client_fds_', g) <=> g \in ToSet(client_fds_')
    BY <1>4, ClientsAre
  <1>8. {g \in Fd : conn'[g] # "free"} = ToSet(client_fds_')
    BY <1>1, <1>4, <1>5 DEF PolledAreClients
  <1>9. PolledAreClients' /\ ClientsOnce'
    BY <1>2, <1>4, <1>5, <1>7, <1>8, NextEvent DEF PolledAreClients, ClientsOnce
  <1>10. Lifecycle'
    BY <1>1, <1>3 DEF Lifecycle
  <1>11. ASSUME NEW g \in ToSet(client_fds_') PROVE StreamOf(g)'
    <2>1. g \in Fd \ {f} /\ g \in ToSet(client_fds_)
      BY <1>1, <1>4, ClientsAre DEF TypeOK
    <2>. QED  BY <1>1, <1>3, <1>5, <2>1, StreamKept DEF ClientStreams
  <1>12. ClientStreams' /\ BuffersOpen'
    BY <1>1, <1>5, <1>11, NoTail DEF ClientStreams, BuffersOpen
  <1>. QED  BY <1>6, <1>9, <1>10, <1>12 DEF IngressInv

(* Bytes of a client are read: the messages that they complete are the next  *)
(* of its blocks.                                                            *)
LEMMA ServeReadKeeps ==
  ASSUME IngressInv, pc = "serve", polled # <<>>, polled' = Tail(polled),
         UNCHANGED <<life, pc, sent>>, NEW f, f = polled[1].fd,
         NEW n \in 1 .. Len(wire[f]), Read(f, n)
  PROVE  IngressInv'
  <1>1. TypeOK /\ ClientStreams
    BY DEF IngressInv
  <1>2. f \in ToSet(client_fds_) /\ f \in Fd
    BY NextEvent
  <1>3. PICK b \in Seq(Byte), w \in Seq(Byte) : b = buffers[f] /\ w = wire[f] /\ n \in 1 .. Len(w)
    BY <1>1, <1>2 DEF TypeOK
  <1>4. PICK x \in Seq(Byte), y \in Seq(Byte) :
          x = b \o SubSeq(w, 1, n) /\ y = SubSeq(w, n + 1, Len(w)) /\ x \o y = b \o w
    <2>1. /\ b \o SubSeq(w, 1, n) \in Seq(Byte) /\ SubSeq(w, n + 1, Len(w)) \in Seq(Byte)
          /\ (b \o SubSeq(w, 1, n)) \o SubSeq(w, n + 1, Len(w)) = b \o w
      BY <1>3, BytesMove
    <2>. QED  BY <2>1, Zenon
  <1>5. PICK ws \in Seq(Short), found \in Seq(Short) :
          ws = sent[f] /\ found = received[f] /\ ws \in Seq(Block)
    BY <1>1, <1>2, BlocksShort DEF TypeOK
  <1>6. PICK t \in Tails : /\ conn[f] = "open" => t = <<>>
                           /\ Parsed(sent[f], t, received[f], buffers[f] \o wire[f])
    BY <1>1, <1>2 DEF ClientStreams, StreamOf
  <1>7. PICK e : e = Extracted(x)
    OBVIOUS
  <1>8. /\ e.found \in Seq(Short) /\ e.rest \in Seq(Byte) /\ ~HasMessage(e.rest)
        /\ Parsed(ws, t, found \o e.found, e.rest \o y)
    <2>1. t \in Seq(Byte) /\ Open(t)
      BY DEF Tails
    <2>2. Parsed(ws, t, found, x \o y)
      BY <1>3, <1>4, <1>5, <1>6
    <2>. QED  BY <1>7, <2>1, <2>2, ExtractedIs
  <1>9. PICK r : r = found \o e.found
    OBVIOUS
  <1>10. r \in Seq(Block)
    <2>1. r \in Seq(Short) /\ Len(r) <= Len(ws) /\ r = SubSeq(ws, 1, Len(r))
      BY <1>8, <1>9 DEF Parsed
    <2>2. PICK k \in 0 .. Len(ws) : k = Len(r)
      <3>1. Len(r) \in Nat /\ Len(ws) \in Nat
        BY <2>1
      <3>2. Len(r) \in 0 .. Len(ws)
        BY <2>1, <3>1
      <3>. QED  BY <3>2
    <2>3. SubSeq(ws, 1, k) \in Seq(Block)
      BY <1>5, FirstIs
    <2>. QED  BY <2>1, <2>2, <2>3
  <1>11. /\ received' = [received EXCEPT ![f] = r] /\ buffers' = [buffers EXCEPT ![f] = e.rest]
         /\ wire' = [wire EXCEPT ![f] = y] /\ UNCHANGED <<conn, client_fds_>>
    BY <1>3, <1>4, <1>5, <1>7, <1>9 DEF Read, Take
  <1>12. /\ buffers' \in [Fd -> Seq(Byte)] /\ wire' \in [Fd -> Seq(Byte)]
         /\ received' \in [Fd -> Seq(Block)]
         /\ buffers'[f] = e.rest /\ wire'[f] = y /\ received'[f] = r
         /\ \A g \in Fd \ {f} : /\ buffers'[g] = buffers[g] /\ wire'[g] = wire[g]
                                /\ received'[g] = received[g]
    BY <1>1, <1>2, <1>8, <1>10, <1>11 DEF TypeOK
  <1>13. StreamOf(f)'
    <2>1. sent'[f] = ws /\ conn'[f] = conn[f]
      BY <1>5, <1>11
    <2>2. Parsed(ws, t, r, e.rest \o y)
      BY <1>8, <1>9
    <2>3. Parsed(sent'[f], t, received'[f], buffers'[f] \o wire'[f])
      BY <1>12, <2>1, <2>2
    <2>. QED  BY <1>6, <2>1, <2>3 DEF StreamOf
  <1>. QED  BY <1>8, <1>11, <1>12, <1>13, ServedKeeps

(* One client of those with events.                                          *)
LEMMA RunServeKeeps ==
  ASSUME IngressInv, RunServe
  PROVE  IngressInv'
  <1>1. /\ pc = "serve" /\ polled # <<>> /\ polled' = Tail(polled)
        /\ UNCHANGED <<life, pc, sent>> /\ Serve(polled[1].fd, polled[1].revents)
    BY DEF RunServe
  <1>2. PICK f : f = polled[1].fd
    OBVIOUS
  <1>3. CASE Close(f)
    BY <1>1, <1>2, <1>3, ServeCloseKeeps
  <1>4. CASE \E n \in 1 .. Len(wire[f]) : Read(f, n)
    BY <1>1, <1>2, <1>4, ServeReadKeeps
  <1>5. CASE UNCHANGED <<conn, buffers, client_fds_, wire, received>>
    BY <1>1, <1>5, ServeNoneKeeps
  <1>. QED  BY <1>1, <1>2, <1>3, <1>4, <1>5 DEF Serve
-----------------------------------------------------------------------------
(* The clients.                                                              *)

(* A client sends, or ends its stream with t.                                *)
LEMMA SendsKeep ==
  ASSUME IngressInv, NEW f \in Fd, NEW blocks, NEW bytes, NEW then \in {"open", "fin", "reset"},
         Sends(f, blocks, bytes, then), sent[f] \o blocks \in Seq(Block),
         wire[f] \o bytes \in Seq(Byte), NEW t \in Tails, then = "open" => t = <<>>,
         f \in ToSet(client_fds_)
           => Parsed(sent[f] \o blocks, t, received[f], buffers[f] \o (wire[f] \o bytes))
  PROVE  IngressInv'
  <1>1. TypeOK /\ PolledAreClients /\ ClientsOnce /\ ClientStreams /\ BuffersOpen /\ Lifecycle
    BY DEF IngressInv
  <1>2. PICK ss \in Seq(Block), w \in Seq(Byte) : ss = sent[f] \o blocks /\ w = wire[f] \o bytes
    OBVIOUS
  <1>3. /\ conn[f] = "open" /\ wire' = [wire EXCEPT ![f] = w] /\ sent' = [sent EXCEPT ![f] = ss]
        /\ conn' = [conn EXCEPT ![f] = then]
        /\ UNCHANGED <<running_, listening, owner, client_fds_, buffers, pc, polled, received>>
    BY <1>2 DEF Sends, life
  <1>4. /\ wire' \in [Fd -> Seq(Byte)] /\ sent' \in [Fd -> Seq(Block)]
        /\ conn' \in [Fd -> {"free", "open", "fin", "reset"}]
        /\ wire'[f] = w /\ sent'[f] = ss /\ conn'[f] = then
        /\ \A g \in Fd \ {f} : wire'[g] = wire[g] /\ sent'[g] = sent[g] /\ conn'[g] = conn[g]
    BY <1>1, <1>3 DEF TypeOK
  <1>5. TypeOK'
    BY <1>1, <1>3, <1>4 DEF TypeOK
  <1>6. \A g \in Fd : /\ conn'[g] # "free" <=> conn[g] # "free"
                      /\ conn[g] = "reset" => conn'[g] = "reset"
    BY <1>3, <1>4
  <1>7. PolledAreClients' /\ ClientsOnce'
    <2>1. \A i \in 1 .. Len(polled) : polled[i].fd \in Fd
      BY EventsTyped
    <2>2. {g \in Fd : conn'[g] # "free"} = {g \in Fd : conn[g] # "free"}
      BY <1>6
    <2>. QED  BY <1>1, <1>3, <1>6, <2>1, <2>2 DEF PolledAreClients, ClientsOnce
  <1>8. Lifecycle' /\ BuffersOpen'
    BY <1>1, <1>3 DEF Lifecycle, BuffersOpen
  <1>9. ASSUME NEW g \in ToSet(client_fds_) PROVE StreamOf(g)'
    <2>1. CASE g = f
      <3>1. Parsed(sent'[f], t, received'[f], buffers'[f] \o wire'[f])
        BY <1>2, <1>3, <1>4, <2>1
      <3>. QED  BY <1>4, <2>1, <3>1 DEF StreamOf
    <2>2. CASE g # f
      <3>1. g \in Fd \ {f}
        BY <1>1, <2>2, ClientsAre DEF TypeOK
      <3>. QED  BY <1>1, <1>3, <1>4, <3>1, StreamKept DEF ClientStreams
    <2>. QED  BY <2>1, <2>2
  <1>10. ClientStreams'
    BY <1>3, <1>9 DEF ClientStreams
  <1>. QED  BY <1>5, <1>7, <1>8, <1>10 DEF IngressInv

(* The stream of a client that has not left ends with a whole frame.         *)
LEMMA OpenStream ==
  ASSUME IngressInv, NEW f \in ToSet(client_fds_), conn[f] = "open"
  PROVE  Parsed(sent[f], <<>>, received[f], buffers[f] \o wire[f])
  BY DEF IngressInv, ClientStreams, StreamOf

(* A block more.                                                             *)
LEMMA ClientSendsKeeps ==
  ASSUME IngressInv, NEW f \in Fd, NEW block \in Block, ClientSends(f, block)
  PROVE  IngressInv'
  <1>1. PICK ws \in Seq(Short), b \in Seq(Byte), w \in Seq(Byte) :
          ws = sent[f] /\ b = buffers[f] /\ w = wire[f] /\ ws \in Seq(Block)
    BY BlocksShort DEF IngressInv, TypeOK
  <1>2. PICK d \in Short : d = block
    BY BlocksShort
  <1>3. PICK frame \in Seq(Byte) : frame = frame_message(d)
    BY FrameIs
  <1>4. ws \o <<block>> = Append(ws, block) /\ Append(ws, block) \in Seq(Block)
    BY <1>1
  <1>5. w \o frame \in Seq(Byte)
    BY ConcatIs
  <1>6. Sends(f, <<block>>, frame, "open") /\ conn[f] = "open"
    BY <1>2, <1>3 DEF ClientSends, Sends
  <1>7. ASSUME f \in ToSet(client_fds_)
        PROVE  Parsed(ws \o <<block>>, <<>>, received[f], b \o (w \o frame))
    <2>1. Parsed(ws, <<>>, received[f], b \o w)
      BY <1>1, <1>6, <1>7, OpenStream
    <2>2. Parsed(Append(ws, d), <<>>, received[f], b \o (w \o frame_message(d)))
      BY <2>1, ParsedMore
    <2>. QED  BY <1>2, <1>3, <1>4, <2>2
  <1>. QED  BY <1>1, <1>4, <1>5, <1>6, <1>7, NoTail, SendsKeep

(* A client leaves with a part of a frame sent.                              *)
LEMMA ClientLeavesKeeps ==
  ASSUME IngressInv, NEW f \in Fd, NEW block \in Block,
         NEW n \in 0 .. (PrefixLen + Len(block) - 1), ClientLeaves(f, block, n)
  PROVE  IngressInv'
  <1>1. PICK ws \in Seq(Short), b \in Seq(Byte), w \in Seq(Byte) :
          ws = sent[f] /\ b = buffers[f] /\ w = wire[f] /\ ws \in Seq(Block)
    BY BlocksShort DEF IngressInv, TypeOK
  <1>2. PICK d \in Short : d = block
    BY BlocksShort
  <1>3. PICK frame \in Seq(Byte) :
          frame = frame_message(d) /\ Len(frame) = PrefixLen + Len(d) /\ Len(d) \in Nat
    BY FrameIs
  <1>4. n \in 0 .. PrefixLen + Len(d) - 1 /\ n \in 0 .. Len(frame)
    BY <1>2, <1>3, BaseFacts
  <1>5. PICK t \in Seq(Byte) : t = SubSeq(frame, 1, n)
    BY <1>4, FirstIs
  <1>6. t \in Tails
    BY <1>3, <1>4, <1>5 DEF Tails, Open
  <1>7. ws \o <<>> = ws
    BY ConcatEmptySeq
  <1>8. w \o t \in Seq(Byte)
    BY ConcatIs
  <1>9. Sends(f, <<>>, t, "fin") /\ conn[f] = "open"
    BY <1>2, <1>3, <1>5 DEF ClientLeaves, Sends
  <1>10. ASSUME f \in ToSet(client_fds_)
         PROVE  Parsed(ws \o <<>>, t, received[f], b \o (w \o t))
    <2>1. Parsed(ws, <<>>, received[f], b \o w)
      BY <1>1, <1>9, <1>10, OpenStream
    <2>2. Parsed(ws, t, received[f], b \o (w \o t))
      BY <2>1, ParsedCut
    <2>. QED  BY <1>7, <2>2
  <1>. QED  BY <1>1, <1>6, <1>7, <1>8, <1>9, <1>10, SendsKeep

(* The connection of a client is reset.                                      *)
LEMMA ClientResetsKeeps ==
  ASSUME IngressInv, NEW f \in Fd, ClientResets(f)
  PROVE  IngressInv'
  <1>1. PICK ws \in Seq(Block), w \in Seq(Byte) : ws = sent[f] /\ w = wire[f]
    BY DEF IngressInv, TypeOK
  <1>2. ws \o <<>> = ws /\ w \o <<>> = w
    BY ConcatEmptySeq
  <1>3. Sends(f, <<>>, <<>>, "reset") /\ conn[f] = "open"
    BY DEF ClientResets, Sends
  <1>4. ASSUME f \in ToSet(client_fds_)
        PROVE  Parsed(ws \o <<>>, <<>>, received[f], buffers[f] \o (w \o <<>>))
    BY <1>1, <1>2, <1>3, <1>4, OpenStream
  <1>. QED  BY <1>1, <1>2, <1>3, <1>4, NoTail, SendsKeep
-----------------------------------------------------------------------------
(* Every step keeps the invariant.                                           *)
LEMMA NextIngressInv == IngressInv /\ [Next]_vars => IngressInv'
  <1> SUFFICES ASSUME IngressInv, [Next]_vars PROVE IngressInv'
    OBVIOUS
  <1>1. CASE start
    BY <1>1, StartKeeps
  <1>2. CASE stop
    BY <1>2, StopKeeps
  <1>3. CASE StopClose
    BY <1>3, StopCloseKeeps
  <1>4. CASE Run
    BY <1>4, RunTopKeeps, RunPollKeeps, RunAcceptKeeps, RunServeKeeps, RunServedKeeps DEF Run
  <1>5. CASE \E f \in Fd, block \in Block :
               \/ ClientSends(f, block)
               \/ \E n \in 0 .. (PrefixLen + Len(block) - 1) : ClientLeaves(f, block, n)
    BY <1>5, ClientSendsKeeps, ClientLeavesKeeps
  <1>6. CASE \E f \in Fd : ClientResets(f)
    BY <1>6, ClientResetsKeeps
  <1>7. CASE UNCHANGED vars
    <2>1. /\ UNCHANGED <<running_, listening, owner, pc>>
          /\ UNCHANGED <<client_fds_, buffers, polled, conn, wire, hist>>
      BY <1>7 DEF vars, life
    <2>2. Lifecycle'
      BY <2>1 DEF IngressInv, Lifecycle
    <2>. QED  BY <2>1, <2>2, MovesKeep DEF IngressInv, TypeOK
  <1>. QED  BY <1>1, <1>2, <1>3, <1>4, <1>5, <1>6, <1>7 DEF Next

(* Whatever the clients do and whichever descriptors are used again, every   *)
(* client's stream is split between callback, buffer and wire at a message.  *)
THEOREM IngressInvariant == Spec => []IngressInv
  <1>1. Init => IngressInv
    BY InitIngressInv
  <1>2. IngressInv /\ [Next]_vars => IngressInv'
    BY NextIngressInv
  <1>. QED  BY <1>1, <1>2, PTL DEF Spec

(* Each client's blocks reach the callback whole, in order and unmixed, the  *)
(* loop serves each descriptor once, and no whole message waits in a buffer. *)
THEOREM IngressStreamsApart == Spec => []StreamsApart
  <1>1. ASSUME IngressInv PROVE StreamsApart
    <2>1. TypeOK /\ PolledAreClients /\ ClientStreams /\ BuffersOpen
      BY <1>1 DEF IngressInv
    <2>2. StreamConserved
      <3> SUFFICES ASSUME NEW f \in ToSet(client_fds_)
                   PROVE  sent[f] = received[f] \o Messages(buffers[f] \o wire[f])
        BY DEF StreamConserved
      <3>1. f \in Fd
        BY <2>1, ClientsAre DEF TypeOK
      <3>2. PICK t \in Tails : Parsed(sent[f], t, received[f], buffers[f] \o wire[f])
        BY <2>1 DEF ClientStreams, StreamOf
      <3>3. PICK ws \in Seq(Short), found \in Seq(Short) : ws = sent[f] /\ found = received[f]
        BY <2>1, <3>1, BlocksShort DEF TypeOK
      <3>4. PICK st \in Seq(Byte) : st = buffers[f] \o wire[f]
        BY <3>2 DEF Parsed
      <3>5. t \in Seq(Byte) /\ Open(t)
        BY DEF Tails
      <3>6. Parsed(ws, t, found, st)
        BY <3>2, <3>3, <3>4
      <3>7. ws = found \o Messages(st)
        BY <3>5, <3>6, RestIs
      <3>. QED  BY <3>3, <3>4, <3>7
    <2>3. NoMessageWithheld
      BY <2>1 DEF NoMessageWithheld, BuffersOpen
    <2>. QED  BY <2>1, <2>2, <2>3 DEF StreamsApart
  <1>. QED  BY <1>1, IngressInvariant, PTL

(* When the thread closes a client that left in good order, all its blocks   *)
(* have been given to the callback.                                          *)
LEMMA ClosedIsDrained ==
  ASSUME IngressInv, [Next]_vars, NEW f \in Fd,
         conn[f] = "fin", conn'[f] = "free", owner = "idle"
  PROVE  received[f] = sent[f]
  <1>1. TypeOK /\ PolledAreClients /\ ClientStreams /\ BuffersOpen
    BY DEF IngressInv
  <1>2. wire[f] = <<>>
    <2>1. CASE start \/ stop \/ RunTop \/ RunPoll \/ RunServed \/ UNCHANGED vars
      BY <2>1 DEF start, stop, RunTop, TopTo, RunPoll, RunServed, vars
    <2>2. CASE StopClose
      BY <2>2 DEF StopClose
    <2>3. CASE RunAccept
      <3>1. UNCHANGED conn \/ \E g : conn' = [conn EXCEPT ![g] = "open"]
        BY <2>3 DEF RunAccept
      <3>. QED  BY <1>1, <3>1 DEF TypeOK
    <2>4. CASE RunServe
      <3>1. PICK g, revents : /\ g = polled[1].fd /\ revents = polled[1].revents
                              /\ Serve(g, revents) /\ polled # <<>>
        BY <2>4 DEF RunServe
      <3>2. revents = "hup" => conn[g] = "reset"
        BY <3>1, NextEvent
      <3>3. CASE Close(g)
        <4>1. g = f
          BY <1>1, <3>3 DEF Close, TypeOK
        <4>2. \/ conn[g] = "reset" \/ wire[g] = <<>>
              \/ UNCHANGED conn
          BY <3>1, <3>2 DEF Serve, Read, Take
        <4>. QED  BY <4>1, <4>2
      <3>4. CASE UNCHANGED conn
        BY <3>4
      <3>. QED  BY <3>1, <3>3, <3>4 DEF Serve, Read, Take
    <2>5. ASSUME NEW g \in Fd, NEW blocks, NEW bytes, NEW then \in {"open", "fin", "reset"},
                 Sends(g, blocks, bytes, then)
          PROVE  FALSE
      BY <1>1, <2>5 DEF Sends, TypeOK
    <2>6. CASE \E g \in Fd, block \in Block :
                 \/ ClientSends(g, block)
                 \/ \E n \in 0 .. (PrefixLen + Len(block) - 1) : ClientLeaves(g, block, n)
      BY <2>5, <2>6 DEF ClientSends, ClientLeaves
    <2>7. CASE \E g \in Fd : ClientResets(g)
      BY <2>5, <2>7 DEF ClientResets
    <2>. QED  BY <2>1, <2>2, <2>3, <2>4, <2>6, <2>7 DEF Next, Run
  <1>3. f \in ToSet(client_fds_)
    BY <1>1 DEF PolledAreClients
  <1>4. PICK t \in Tails : Parsed(sent[f], t, received[f], buffers[f] \o wire[f])
    BY <1>1, <1>3 DEF ClientStreams, StreamOf
  <1>5. PICK b \in Seq(Byte) : b = buffers[f] /\ b \o <<>> = b
    BY <1>1, ConcatEmptySeq DEF TypeOK
  <1>6. PICK ws \in Seq(Short) : ws = sent[f]
    BY <1>1, BlocksShort DEF TypeOK
  <1>7. Parsed(ws, t, received[f], b) /\ ~HasMessage(b)
    BY <1>1, <1>2, <1>4, <1>5, <1>6 DEF BuffersOpen
  <1>8. t \in Seq(Byte)
    BY DEF Tails
  <1>9. received[f] = ws
    BY <1>7, <1>8, ParsedAll
  <1>. QED  BY <1>6, <1>9

(* A client that closes in good order has all its whole messages taken       *)
(* before its descriptor is closed, unless stop() closes it.                 *)
THEOREM IngressOrderlyClose == Spec => OrderlyCloseLosesNothing
  <1>1. IngressInv /\ [Next]_vars =>
          [\A f \in Fd : (conn[f] = "fin" /\ conn'[f] = "free" /\ owner = "idle")
                            => received[f] = sent[f]]_vars
    BY ClosedIsDrained
  <1>. QED  BY <1>1, IngressInvariant, PTL DEF Spec, OrderlyCloseLosesNothing
=============================================================================
