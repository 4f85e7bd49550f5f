---------------------------- MODULE ModemProofs ----------------------------
(***************************************************************************)
(* Proofs about Modem.  The two halves share the options, the flag and     *)
(* main() only, so each has an inductive invariant of its own.             *)
(***************************************************************************)
EXTENDS Modem, ListFacts, FiniteSetTheorems

-----------------------------------------------------------------------------
(* The receiving half: the inductive invariant.                              *)

Batch == [burst : Nat, part : Nat, of : Nat, clean : BOOLEAN]

(* Types, and the histories that go with each client.                        *)
OutputTypes ==
  /\ SharedTypeOK /\ OutputTypeOK
  /\ main \in {"setup", "wait", "join", "returned"}
  /\ air \in Batch /\ batches \in Nat /\ upsets \in Nat /\ late \in Nat
  /\ popped \in Seq(Nat) /\ joined \in Seq(Nat)
  /\ Len(got) = Len(client) /\ Len(joined) = Len(client)

(* Before Setup there are no threads.  A place in the middle of an attempt   *)
(* or of a write is the only one where its counter runs.                     *)
OutputPlaces ==
  /\ main = "setup" => rx_pc = "none" /\ out_pc = "none"
  /\ rx_pc # "decode" => samples_since_last_decode < MinDecode
  /\ out_pc \notin {"write", "lastwrite"} => writing = 0
  /\ out_pc # "done" => late = 0
  /\ use_udp => clients_ = <<>>

(* The buffer is trimmed to less than its limit after each attempt.          *)
RxBufferKept == Len(rx_buffer) <= MaxBuffer + samples_since_last_decode

(* The bursts that have been decoded and not been dropped.                   *)
Decoded == popped \o rx_to_output

(* What begins in the buffer has not been decoded: it is newer than what     *)
(* has, and what comes next on the air is newer still.                       *)
Newer ==
  /\ air.part = 0 => air.of = 0
  /\ \A i \in DOMAIN Decoded : Decoded[i] <= air.burst
  /\ \A k \in DOMAIN rx_buffer : rx_buffer[k].part = 1 =>
       /\ rx_buffer[k].burst <= air.burst
       /\ \A i \in DOMAIN Decoded : Decoded[i] < rx_buffer[k].burst

(* A connection is listed once; one that is still to be written to was       *)
(* there when the payload was popped.                                        *)
ClientsApart ==
  /\ IsInjective(clients_)
  /\ \A i \in DOMAIN clients_ :
       /\ joined[clients_[i]] <= Len(popped)
       /\ i <= writing => joined[clients_[i]] < Len(popped)

OutputInv ==
  /\ OutputTypes /\ OutputPlaces /\ RxBufferKept /\ Newer /\ DecodedInOrder
  /\ ClientsApart /\ OutStreams /\ DrainedAtExit

-----------------------------------------------------------------------------
(* The receiving half: each step.                                            *)

(* Nothing of the receiving half changes.                                    *)
LEMMA OutputStays ==
  ASSUME OutputInv, UNCHANGED <<outputVars, mode, use_udp, radio>>, g_running' \in BOOLEAN,
         main' \in {"setup", "wait", "join", "returned"}, main' = "setup" => main = "setup"
  PROVE  OutputInv'
  <1>1. /\ UNCHANGED <<rx_buffer, samples_since_last_decode, rx_pc, air, batches, rx_to_output>>
        /\ UNCHANGED <<out_pc, clients_, writing, got, joined, popped, client, upsets, late>>
        /\ UNCHANGED <<mode, use_udp, radio>>
    BY DEF outputVars, rxThread, outThread
  <1>2. OutputTypes'
    BY <1>1 DEF OutputInv, OutputTypes, SharedTypeOK, OutputTypeOK
  <1>3. OutputPlaces'
    BY <1>1 DEF OutputInv, OutputPlaces
  <1>4. RxBufferKept' /\ Newer' /\ DecodedInOrder'
    BY <1>1 DEF OutputInv, RxBufferKept, Newer, DecodedInOrder, Decoded
  <1>5. ClientsApart' /\ OutStreams' /\ DrainedAtExit'
    BY <1>1 DEF OutputInv, ClientsApart, OutStreams, DrainedAtExit, IsInjective
  <1>. QED  BY <1>2, <1>3, <1>4, <1>5 DEF OutputInv

(* The modem starts with nothing received.                                   *)
LEMMA InitOutput == Init => OutputInv
  <1> SUFFICES ASSUME Init PROVE OutputInv
    OBVIOUS
  <1>1. /\ rx_buffer = <<>> /\ samples_since_last_decode = 0 /\ rx_pc = "none"
        /\ rx_to_output = <<>> /\ out_pc = "none" /\ clients_ = <<>> /\ writing = 0
        /\ air = Silence /\ client = <<>> /\ upsets = 0 /\ got = <<>> /\ joined = <<>>
        /\ popped = <<>> /\ late = 0 /\ batches = 0 /\ main = "setup"
    BY DEF Init, OutputInit
  <1>2. MinDecode \in Nat \ {0} /\ MaxBuffer \in Nat /\ RxCapacity \in Nat
    BY OutputAssumption
  <1>3. OutputTypes
    <2>1. SharedTypeOK
      BY DEF Init, SharedTypeOK
    <2>2. air \in Batch
      BY <1>1 DEF Silence, Batch
    <2>3. \A T : <<>> \in Seq(T) /\ Len(<<>>) = 0
      OBVIOUS
    <2>4. got \in Seq(Seq(Nat))
      <3>1. PICK V : V = Seq(Nat)
        OBVIOUS
      <3>. QED  BY <1>1, <2>3, <3>1
    <2>5. OutputTypeOK
      BY <1>1, <1>2, <2>3, <2>4 DEF OutputTypeOK
    <2>. QED  BY <1>1, <2>1, <2>2, <2>3, <2>5 DEF OutputTypes
  <1>4. OutputPlaces /\ RxBufferKept
    BY <1>1, <1>2 DEF OutputPlaces, RxBufferKept
  <1>5. Decoded = <<>>
    BY <1>1 DEF Decoded
  <1>6. Newer /\ DecodedInOrder
    BY <1>1, <1>5 DEF Newer, DecodedInOrder, Decoded, Silence
  <1>7. ClientsApart /\ OutStreams /\ DrainedAtExit
    BY <1>1 DEF ClientsApart, OutStreams, DrainedAtExit, IsInjective
  <1>. QED  BY <1>3, <1>4, <1>6, <1>7 DEF OutputInv

(* Steps of main().                                                          *)
LEMMA MainKeepsOutput ==
  ASSUME OutputInv, Main \/ signal_handler
  PROVE  OutputInv'
  <1>1. CASE SetupFails \/ Awake \/ signal_handler
    <2>1. g_running \in BOOLEAN /\ main \in {"setup", "wait", "join", "returned"}
      BY DEF OutputInv, OutputTypes, SharedTypeOK
    <2>2. UNCHANGED <<outputVars, mode, use_udp, radio>> /\ g_running' \in BOOLEAN
      BY <1>1, <2>1 DEF SetupFails, Awake, signal_handler, shared
    <2>3. main' \in {"setup", "wait", "join", "returned"} /\ (main' = "setup" => main = "setup")
      BY <1>1, <2>1 DEF SetupFails, Awake, signal_handler
    <2>. QED  BY <2>2, <2>3, OutputStays
  <1>2. CASE Setup
    <2>1. /\ main = "setup" /\ main' = "wait"
          /\ rx_pc' \in {"none", "start"} /\ out_pc' \in {"none", "top"}
          /\ UNCHANGED <<rx_buffer, samples_since_last_decode, air, batches, rx_to_output>>
          /\ UNCHANGED <<clients_, writing, got, joined, popped, client, upsets, late>>
          /\ UNCHANGED <<mode, use_udp, radio, g_running>>
      BY <1>2 DEF Setup, shared
    <2>2. OutputTypes'
      BY <2>1 DEF OutputInv, OutputTypes, SharedTypeOK, OutputTypeOK
    <2>3. OutputPlaces' /\ DrainedAtExit'
      BY <2>1 DEF OutputInv, OutputPlaces, DrainedAtExit
    <2>4. RxBufferKept' /\ Newer' /\ DecodedInOrder'
      BY <2>1 DEF OutputInv, RxBufferKept, Newer, DecodedInOrder, Decoded
    <2>5. ClientsApart' /\ OutStreams'
      BY <2>1 DEF OutputInv, ClientsApart, OutStreams, IsInjective
    <2>. QED  BY <2>2, <2>3, <2>4, <2>5 DEF OutputInv
  <1>3. CASE Return
    <2>1. /\ main' = "returned" /\ out_pc \in {"none", "done"} /\ clients_' = <<>>
          /\ UNCHANGED <<rx_buffer, samples_since_last_decode, rx_pc, air, batches, rx_to_output>>
          /\ UNCHANGED <<out_pc, writing, got, joined, popped, client, upsets, late>>
          /\ UNCHANGED <<mode, use_udp, radio, g_running>>
      BY <1>3 DEF Return, Ended, shared, rxThread
    <2>2. writing = 0
      BY <2>1 DEF OutputInv, OutputPlaces
    <2>3. \A T : <<>> \in Seq(T) /\ Len(<<>>) = 0
      OBVIOUS
    <2>4. OutputTypes'
      <3>1. clients_' \in Seq(DOMAIN client') /\ writing' \in 0 .. Len(clients_')
        BY <2>1, <2>2, <2>3
      <3>. QED  BY <2>1, <3>1 DEF OutputInv, OutputTypes, SharedTypeOK, OutputTypeOK
    <2>5. OutputPlaces' /\ DrainedAtExit'
      BY <2>1 DEF OutputInv, OutputPlaces, DrainedAtExit
    <2>6. RxBufferKept' /\ Newer' /\ DecodedInOrder'
      BY <2>1 DEF OutputInv, RxBufferKept, Newer, DecodedInOrder, Decoded
    <2>7. ClientsApart' /\ OutStreams'
      BY <2>1 DEF ClientsApart, OutStreams, IsInjective
    <2>. QED  BY <2>4, <2>5, <2>6, <2>7 DEF OutputInv
  <1>. QED  BY <1>1, <1>2, <1>3 DEF Main

(* A step of the receiving thread that neither decodes nor receives.         *)
LEMMA RxMovesKeep ==
  ASSUME OutputInv, RxStart \/ RxIdle \/ RxTop, UNCHANGED main
  PROVE  OutputInv'
  <1>1. /\ rx_pc # "decode" /\ rx_pc' \in {"idle", "top", "recv", "done"} /\ rx_pc # "none"
        /\ UNCHANGED <<rx_buffer, samples_since_last_decode, air, batches, rx_to_output>>
        /\ UNCHANGED <<out_pc, clients_, writing, got, joined, popped, client, upsets, late>>
        /\ UNCHANGED <<mode, use_udp, radio, g_running, main>>
    BY DEF RxStart, RxIdle, RxTop, shared, outThread
  <1>2. OutputTypes'
    BY <1>1 DEF OutputInv, OutputTypes, SharedTypeOK, OutputTypeOK
  <1>3. OutputPlaces' /\ DrainedAtExit'
    BY <1>1 DEF OutputInv, OutputPlaces, DrainedAtExit
  <1>4. RxBufferKept' /\ Newer' /\ DecodedInOrder'
    BY <1>1 DEF OutputInv, RxBufferKept, Newer, DecodedInOrder, Decoded
  <1>5. ClientsApart' /\ OutStreams'
    BY <1>1 DEF OutputInv, ClientsApart, OutStreams, IsInjective
  <1>. QED  BY <1>2, <1>3, <1>4, <1>5 DEF OutputInv

(* What follows on the air is newer when it begins a burst.                  *)
LEMMA FollowsIs ==
  ASSUME NEW a \in Batch, a = air, a.part = 0 => a.of = 0, NEW b, Follows(b)
  PROVE  /\ b \in Batch /\ a.burst <= b.burst /\ (b.part = 0 => b.of = 0)
         /\ b.part = 1 => a.burst < b.burst
  <1>1. /\ a.burst \in Nat /\ a.part \in Nat /\ a.of \in Nat /\ a.clean \in BOOLEAN
        /\ a = [burst |-> a.burst, part |-> a.part, of |-> a.of, clean |-> a.clean]
    BY DEF Batch
  <1>2. CASE a.part < a.of /\ b = [a EXCEPT !.part = @ + 1]
    <2>1. b = [burst |-> a.burst, part |-> a.part + 1, of |-> a.of, clean |-> a.clean]
      BY <1>1, <1>2
    <2>2. a.part # 0
      BY <1>1, <1>2
    <2>. QED  BY <1>1, <2>1, <2>2 DEF Batch
  <1>3. CASE b = [Silence EXCEPT !.burst = a.burst]
    <2>1. b = [burst |-> a.burst, part |-> 0, of |-> 0, clean |-> FALSE]
      BY <1>3 DEF Silence
    <2>. QED  BY <1>1, <2>1 DEF Batch
  <1>4. ASSUME NEW n \in BurstLength, NEW c \in BOOLEAN,
               b = [burst |-> a.burst + 1, part |-> 1, of |-> n, clean |-> c]
        PROVE  /\ b \in Batch /\ a.burst <= b.burst /\ (b.part = 0 => b.of = 0)
               /\ b.part = 1 => a.burst < b.burst
    <2>1. n \in Nat
      BY OutputAssumption
    <2>. QED  BY <1>1, <1>4, <2>1 DEF Batch
  <1>. QED  BY <1>2, <1>3, <1>4 DEF Follows

(* recv() returns a batch, which is appended, or it is lost.                 *)
LEMMA RxRecvKeeps ==
  ASSUME OutputInv, RxRecv, UNCHANGED main
  PROVE  OutputInv'
  <1>1. /\ rx_pc = "recv" /\ rx_pc' \in {"top", "decode"}
        /\ UNCHANGED <<out_pc, clients_, writing, got, joined, popped, client, late, rx_to_output>>
        /\ UNCHANGED <<mode, use_udp, radio, g_running, main>>
    BY DEF RxRecv, shared, outThread
  <1>2. PICK a \in Batch : a = air /\ (a.part = 0 => a.of = 0)
    BY DEF OutputInv, OutputTypes, Newer
  <1>3. \/ batches' = batches + 1 /\ Follows(air')
        \/ UNCHANGED <<batches, air>>
    BY DEF RxRecv
  <1>4. PICK b \in Batch : /\ b = air' /\ a.burst <= b.burst /\ (b.part = 0 => b.of = 0)
                           /\ Follows(b) => (b.part = 1 => a.burst < b.burst)
    <2>1. CASE Follows(air')
      BY <1>2, <2>1, FollowsIs
    <2>2. CASE air' = air /\ ~Follows(air')
      <3>1. a.burst \in Nat
        BY DEF Batch
      <3>. QED  BY <1>2, <2>2, <3>1
    <2>. QED  BY <1>3, <2>1, <2>2
  <1>5. batches' \in Nat /\ upsets' \in Nat
    <2>1. batches \in Nat /\ upsets \in Nat
      BY DEF OutputInv, OutputTypes
    <2>. QED  BY <2>1 DEF RxRecv
  <1>6. /\ samples_since_last_decode \in Nat /\ samples_since_last_decode < MinDecode
        /\ MinDecode \in Nat /\ MaxBuffer \in Nat /\ rx_buffer \in Seq(Batch)
        /\ Len(rx_buffer) <= MaxBuffer + samples_since_last_decode
    BY <1>1, OutputAssumption
       DEF OutputInv, OutputTypes, OutputTypeOK, OutputPlaces, RxBufferKept, Batch
  <1>7. Decoded' = Decoded /\ Decoded \in Seq(Nat)
    BY <1>1 DEF Decoded, OutputInv, OutputTypes, OutputTypeOK
  <1>8. ClientsApart' /\ OutStreams' /\ DrainedAtExit' /\ DecodedInOrder'
    BY <1>1 DEF OutputInv, ClientsApart, OutStreams, IsInjective, DrainedAtExit, DecodedInOrder
  <1>9. \A i \in DOMAIN Decoded : Decoded[i] <= b.burst
    <2>1. \A i \in DOMAIN Decoded : Decoded[i] <= a.burst /\ Decoded[i] \in Nat
      BY <1>2, <1>7 DEF OutputInv, Newer
    <2>2. a.burst \in Nat /\ b.burst \in Nat
      BY DEF Batch
    <2>. QED  BY <1>4, <2>1, <2>2
  <1>10. \A k \in DOMAIN rx_buffer : rx_buffer[k].part = 1 =>
           /\ rx_buffer[k].burst <= b.burst
           /\ \A i \in DOMAIN Decoded : Decoded[i] < rx_buffer[k].burst
    <2>1. \A k \in DOMAIN rx_buffer : rx_buffer[k].burst \in Nat
      <3>1. \A k \in DOMAIN rx_buffer : rx_buffer[k] \in Batch
        BY <1>6
      <3>. QED  BY <3>1 DEF Batch
    <2>2. a.burst \in Nat /\ b.burst \in Nat
      BY DEF Batch
    <2>. QED  BY <1>2, <1>4, <2>1, <2>2 DEF OutputInv, Newer
  <1>11. CASE /\ batches < MaxBatches[setting] /\ rx_buffer' = Append(rx_buffer, air')
              /\ samples_since_last_decode' = samples_since_last_decode + 1
              /\ rx_pc' = IF samples_since_last_decode + 1 < MinDecode THEN "top" ELSE "decode"
    <2>1. Follows(b)
      BY <1>4, <1>11 DEF RxRecv
    <2>2. PICK B \in Seq(Batch) : /\ B = rx_buffer' /\ Len(B) = Len(rx_buffer) + 1
                                  /\ B[Len(rx_buffer) + 1] = b
                                  /\ \A i \in 1 .. Len(rx_buffer) : B[i] = rx_buffer[i]
      <3>1. PICK o \in Seq(Batch) : o = rx_buffer
        BY <1>4, <1>6
      <3>2. /\ Append(o, b) \in Seq(Batch) /\ Len(Append(o, b)) = Len(o) + 1
            /\ Append(o, b)[Len(o) + 1] = b /\ \A i \in 1 .. Len(o) : Append(o, b)[i] = o[i]
        BY <1>4, AppendIs
      <3>3. rx_buffer' = Append(o, b)
        BY <1>4, <1>11, <3>1
      <3>. QED  BY <3>1, <3>2, <3>3, Zenon
    <2>3. /\ samples_since_last_decode' \in 0 .. MinDecode
          /\ rx_pc' # "decode" => samples_since_last_decode' < MinDecode
      BY <1>6, <1>11
    <2>4. OutputTypes'
      BY <1>1, <1>4, <1>5, <2>2, <2>3 DEF OutputInv, OutputTypes, SharedTypeOK, OutputTypeOK, Batch
    <2>5. OutputPlaces'
      BY <1>1, <2>3 DEF OutputInv, OutputPlaces
    <2>6. RxBufferKept'
      BY <1>6, <1>11, <2>2 DEF RxBufferKept
    <2>7. ASSUME NEW k \in DOMAIN B, B[k].part = 1
          PROVE  B[k].burst <= b.burst /\ \A i \in DOMAIN Decoded : Decoded[i] < B[k].burst
      <3>1. CASE k \in 1 .. Len(rx_buffer)
        BY <1>6, <1>10, <2>2, <2>7, <3>1
      <3>2. CASE k = Len(rx_buffer) + 1
        <4>1. a.burst < b.burst /\ a.burst \in Nat /\ b.burst \in Nat
          BY <1>4, <2>1, <2>2, <2>7, <3>2 DEF Batch
        <4>2. \A i \in DOMAIN Decoded : Decoded[i] <= a.burst /\ Decoded[i] \in Nat
          BY <1>2, <1>7 DEF OutputInv, Newer
        <4>3. \A i \in DOMAIN Decoded : Decoded[i] < b.burst
          BY <4>1, <4>2
        <4>. QED  BY <2>2, <3>2, <4>1, <4>3
      <3>3. k \in 1 .. Len(rx_buffer) \/ k = Len(rx_buffer) + 1
        <4>1. Len(rx_buffer) \in Nat /\ DOMAIN B = 1 .. Len(rx_buffer) + 1
          BY <1>6, <2>2
        <4>. QED  BY <4>1
      <3>. QED  BY <3>1, <3>2, <3>3
    <2>8. Newer'
      BY <1>4, <1>7, <1>9, <2>2, <2>7 DEF Newer
    <2>. QED  BY <1>8, <2>4, <2>5, <2>6, <2>8 DEF OutputInv
  <1>12. CASE rx_pc' = "top" /\ UNCHANGED <<rx_buffer, samples_since_last_decode>>
    <2>1. OutputTypes'
      BY <1>1, <1>4, <1>5, <1>12 DEF OutputInv, OutputTypes, SharedTypeOK, OutputTypeOK, Batch
    <2>2. OutputPlaces' /\ RxBufferKept'
      BY <1>1, <1>12 DEF OutputInv, OutputPlaces, RxBufferKept
    <2>3. Newer'
      BY <1>4, <1>7, <1>9, <1>10, <1>12 DEF Newer
    <2>. QED  BY <1>8, <2>1, <2>2, <2>3 DEF OutputInv
  <1>. QED  BY <1>11, <1>12 DEF RxRecv

(* One burst more, newer than the others, keeps their order.                 *)
LEMMA OneNewer ==
  ASSUME NEW D \in Seq(Nat), NEW x \in Nat, \A i \in DOMAIN D : D[i] < x,
         \A i, j \in DOMAIN D : i < j => D[i] < D[j]
  PROVE  /\ Append(D, x) \in Seq(Nat)
         /\ \A i, j \in DOMAIN Append(D, x) : i < j => Append(D, x)[i] < Append(D, x)[j]
         /\ \A i \in DOMAIN Append(D, x) : Append(D, x)[i] <= x
  <1>1. PICK E \in Seq(Nat) : /\ E = Append(D, x) /\ Len(E) = Len(D) + 1 /\ E[Len(D) + 1] = x
                              /\ \A i \in 1 .. Len(D) : E[i] = D[i]
    <2>1. /\ Append(D, x) \in Seq(Nat) /\ Len(Append(D, x)) = Len(D) + 1
          /\ Append(D, x)[Len(D) + 1] = x /\ \A i \in 1 .. Len(D) : Append(D, x)[i] = D[i]
      OBVIOUS
    <2>. QED  BY <2>1, Zenon
  <1>2. Len(D) \in Nat /\ DOMAIN D = 1 .. Len(D) /\ DOMAIN E = 1 .. Len(D) + 1
    BY <1>1
  <1>3. \A i \in 1 .. Len(D) : D[i] \in Nat /\ D[i] < x /\ E[i] = D[i]
    BY <1>1, <1>2
  <1>4. \A i, j \in DOMAIN E : i < j => E[i] < E[j]
    <2> SUFFICES ASSUME NEW i \in DOMAIN E, NEW j \in DOMAIN E, i < j PROVE E[i] < E[j]
      OBVIOUS
    <2>1. i \in 1 .. Len(D)
      BY <1>2
    <2>2. CASE j = Len(D) + 1
      BY <1>1, <1>3, <2>1, <2>2
    <2>3. CASE j \in 1 .. Len(D)
      BY <1>2, <1>3, <2>1, <2>3
    <2>. QED  BY <1>2, <2>2, <2>3
  <1>5. \A i \in DOMAIN E : E[i] <= x
    <2> SUFFICES ASSUME NEW i \in DOMAIN E PROVE E[i] <= x
      OBVIOUS
    <2>1. i \in 1 .. Len(D) \/ i = Len(D) + 1
      BY <1>2
    <2>. QED  BY <1>1, <1>3, <2>1
  <1>. QED  BY <1>1, <1>4, <1>5

(* A buffer is trimmed to its newer part.                                    *)
LEMMA TrimmedIs ==
  ASSUME NEW B \in Seq(Batch)
  PROVE  /\ Trimmed(B) \in Seq(Batch) /\ Len(Trimmed(B)) <= MaxBuffer
         /\ Len(Trimmed(B)) <= Len(B)
         /\ \A k \in DOMAIN Trimmed(B) : Trimmed(B)[k] = B[k + (Len(B) - Len(Trimmed(B)))]
         /\ Len(B) <= MaxBuffer => Trimmed(B) = B
         /\ Len(B) > MaxBuffer => Len(Trimmed(B)) = MaxBuffer \div 2
  <1>1. Len(B) \in Nat /\ MaxBuffer \in Nat
    BY OutputAssumption
  <1>2. CASE Len(B) <= MaxBuffer
    <2>1. Trimmed(B) = B
      BY <1>1, <1>2 DEF Trimmed
    <2>2. \A k \in DOMAIN B : k + (Len(B) - Len(B)) = k
      BY <1>1
    <2>. QED  BY <1>1, <1>2, <2>1, <2>2
  <1>3. CASE Len(B) > MaxBuffer
    <2>1. PICK h \in Nat : h = MaxBuffer \div 2 /\ h <= MaxBuffer
      BY <1>1
    <2>2. PICK m \in 0 .. Len(B) : m = Len(B) - h /\ Len(B) - m = h
      <3>1. Len(B) - h \in 0 .. Len(B) /\ Len(B) - (Len(B) - h) = h
        BY <1>1, <1>3, <2>1
      <3>. QED  BY <3>1
    <2>3. Trimmed(B) = SubSeq(B, m + 1, Len(B))
      BY <1>3, <2>1, <2>2 DEF Trimmed
    <2>4. PICK S \in Seq(Batch) : /\ S = SubSeq(B, m + 1, Len(B)) /\ Len(S) = h
                                  /\ \A i \in 1 .. h : S[i] = B[m + i]
      <3>1. /\ SubSeq(B, m + 1, Len(B)) \in Seq(Batch)
            /\ Len(SubSeq(B, m + 1, Len(B))) = Len(B) - m
            /\ \A i \in 1 .. Len(B) - m : SubSeq(B, m + 1, Len(B))[i] = B[m + i]
        BY SuffixIs
      <3>. QED  BY <2>2, <3>1, Zenon
    <2>5. \A k \in DOMAIN S : k \in 1 .. h /\ k + (Len(B) - Len(S)) = m + k
      BY <1>1, <2>2, <2>4
    <2>6. \A k \in DOMAIN S : S[k] = B[k + (Len(B) - Len(S))]
      BY <2>4, <2>5
    <2>. QED  BY <1>1, <1>3, <2>1, <2>3, <2>4, <2>6
  <1>. QED  BY <1>1, <1>2, <1>3

(* An attempt to decode: a payload is pushed and the buffer cleared, or it   *)
(* fails and the buffer is trimmed.                                          *)
LEMMA RxDecodeKeeps ==
  ASSUME OutputInv, RxDecode, UNCHANGED main
  PROVE  OutputInv'
  <1>1. /\ rx_pc = "decode" /\ rx_pc' = "top" /\ samples_since_last_decode' = 0
        /\ UNCHANGED <<out_pc, clients_, writing, got, joined, popped, client, upsets>>
        /\ UNCHANGED <<air, batches, mode, use_udp, radio, g_running, main>>
    BY DEF RxDecode, DecodeThen, shared, outThread
  <1>2. /\ samples_since_last_decode \in Nat /\ MinDecode \in Nat \ {0} /\ MaxBuffer \in Nat
        /\ RxCapacity \in Nat /\ rx_buffer \in Seq(Batch)
        /\ rx_to_output \in Seq(Nat) /\ Len(rx_to_output) <= RxCapacity /\ popped \in Seq(Nat)
        /\ late \in Nat
    BY OutputAssumption DEF OutputInv, OutputTypes, OutputTypeOK, Batch
  <1>3. PICK D \in Seq(Nat) : D = Decoded
    <2>1. popped \o rx_to_output \in Seq(Nat)
      BY <1>2
    <2>. QED  BY <2>1 DEF Decoded
  <1>4. /\ \A i, j \in DOMAIN D : i < j => D[i] < D[j]
        /\ \A i \in DOMAIN D : D[i] <= air.burst
    BY <1>3 DEF OutputInv, Newer, DecodedInOrder, Decoded
  <1>5. ClientsApart' /\ OutStreams'
    BY <1>1 DEF OutputInv, ClientsApart, OutStreams, IsInjective
  <1>6. air'.part = 0 => air'.of = 0
    BY <1>1 DEF OutputInv, Newer
  <1>7. CASE /\ UNCHANGED <<rx_to_output, late>>
             /\ rx_buffer' \in Seq(Batch) /\ Len(rx_buffer') <= MaxBuffer
             /\ \A k \in DOMAIN rx_buffer' : \E m \in DOMAIN rx_buffer : rx_buffer'[k] = rx_buffer[m]
    <2>1. OutputTypes'
      BY <1>1, <1>2, <1>7 DEF OutputInv, OutputTypes, SharedTypeOK, OutputTypeOK, Batch
    <2>2. OutputPlaces' /\ RxBufferKept' /\ DrainedAtExit'
      BY <1>1, <1>2, <1>7 DEF OutputInv, OutputPlaces, RxBufferKept, DrainedAtExit
    <2>3. Decoded' = D
      BY <1>1, <1>3, <1>7 DEF Decoded
    <2>4. DecodedInOrder'
      BY <1>4, <2>3 DEF DecodedInOrder, Decoded
    <2>5. \A k \in DOMAIN rx_buffer : rx_buffer[k].part = 1 =>
            rx_buffer[k].burst <= air.burst /\ \A i \in DOMAIN D : D[i] < rx_buffer[k].burst
      BY <1>3 DEF OutputInv, Newer
    <2>6. Newer'
      BY <1>1, <1>4, <1>6, <1>7, <2>3, <2>5 DEF Newer
    <2>. QED  BY <1>5, <2>1, <2>2, <2>4, <2>6 DEF OutputInv
  <1>8. ASSUME NEW k \in Decodable(rx_buffer), RxPush(rx_buffer[k].burst), rx_buffer' = <<>>
        PROVE  OutputInv'
    <2>1. CASE UNCHANGED <<rx_to_output, late>>
      <3>1. <<>> \in Seq(Batch) /\ Len(<<>>) = 0 /\ DOMAIN <<>> = {}
        OBVIOUS
      <3>. QED  BY <1>2, <1>7, <1>8, <2>1, <3>1
    <2>2. CASE /\ Len(rx_to_output) < RxCapacity
               /\ rx_to_output' = Append(rx_to_output, rx_buffer[k].burst)
               /\ late' = IF out_pc = "done" THEN late + 1 ELSE late
      <3>1. k \in DOMAIN rx_buffer /\ rx_buffer[k].part = 1 /\ rx_buffer[k] \in Batch
        BY <1>2 DEF Decodable, Starts
      <3>2. PICK x \in Nat : x = rx_buffer[k].burst
        BY <3>1 DEF Batch
      <3>3. x <= air.burst /\ \A i \in DOMAIN D : D[i] < x
        BY <1>3, <3>1, <3>2 DEF OutputInv, Newer
      <3>4. PICK q \in Seq(Nat) : q = rx_to_output' /\ Len(q) = Len(rx_to_output) + 1
        BY <1>2, <2>2, <3>2, AppendIs
      <3>5. Len(rx_to_output) \in Nat /\ Len(q) <= RxCapacity
        BY <1>2, <2>2, <3>4
      <3>6. rx_buffer' \in Seq(Batch) /\ Len(rx_buffer') = 0 /\ DOMAIN rx_buffer' = {}
        BY <1>8
      <3>7. late' \in Nat /\ (out_pc # "done" => late' = late) /\ (out_pc = "done" => late' = late + 1)
        BY <1>2, <2>2
      <3>8. OutputTypes'
        BY <1>1, <1>2, <3>4, <3>5, <3>6, <3>7
           DEF OutputInv, OutputTypes, SharedTypeOK, OutputTypeOK, Batch
      <3>9. OutputPlaces' /\ RxBufferKept'
        BY <1>1, <1>2, <3>6, <3>7 DEF OutputInv, OutputPlaces, RxBufferKept
      <3>10. DrainedAtExit'
        BY <1>1, <3>4, <3>7 DEF OutputInv, DrainedAtExit
      <3>11. Decoded' = Append(D, x)
        <4>1. Append(Cat(popped, rx_to_output), x) = Cat(popped, Append(rx_to_output, x))
          BY <1>2, AppendBehind
        <4>2. Decoded' = Cat(popped, Append(rx_to_output, x)) /\ D = Cat(popped, rx_to_output)
          BY <1>1, <1>3, <2>2, <3>2 DEF Decoded, Cat
        <4>. QED  BY <4>1, <4>2
      <3>12. PICK E \in Seq(Nat) : /\ E = Append(D, x) /\ \A i \in DOMAIN E : E[i] <= x
                                   /\ \A i, j \in DOMAIN E : i < j => E[i] < E[j]
        BY <1>4, <3>3, OneNewer
      <3>13. DecodedInOrder'
        <4>1. E = (popped \o rx_to_output)'
          BY <3>11, <3>12 DEF Decoded
        <4>. QED  BY <3>12, <4>1 DEF DecodedInOrder
      <3>14. Newer'
        <4>1. air.burst \in Nat
          BY DEF OutputInv, OutputTypes, Batch
        <4>2. \A i \in DOMAIN E : E[i] <= air.burst
          BY <3>3, <3>12, <4>1
        <4>. QED  BY <1>1, <1>6, <3>6, <3>11, <3>12, <4>2 DEF Newer
      <3>. QED  BY <1>5, <3>8, <3>9, <3>10, <3>13, <3>14 DEF OutputInv
    <2>. QED  BY <1>8, <2>1, <2>2 DEF RxPush
  <1>9. CASE rx_buffer' = Trimmed(rx_buffer) /\ UNCHANGED <<rx_to_output, late>>
    <2>1. PICK S \in Seq(Batch) :
            /\ S = rx_buffer' /\ Len(S) <= MaxBuffer /\ Len(S) <= Len(rx_buffer)
            /\ \A k \in DOMAIN S : S[k] = rx_buffer[k + (Len(rx_buffer) - Len(S))]
      BY <1>2, <1>9, TrimmedIs
    <2>2. \A k \in DOMAIN S : k + (Len(rx_buffer) - Len(S)) \in DOMAIN rx_buffer
      BY <1>2, <2>1
    <2>3. \A k \in DOMAIN rx_buffer' : \E m \in DOMAIN rx_buffer : rx_buffer'[k] = rx_buffer[m]
      BY <2>1, <2>2
    <2>. QED  BY <1>7, <1>9, <2>1, <2>3
  <1>. QED  BY <1>8, <1>9 DEF RxDecode, DecodeThen

(* The output thread goes to another place, and writes nothing.              *)
LEMMA OutGoKeeps ==
  ASSUME OutputInv, UNCHANGED main, NEW place, OutGo(place),
         place \in {"top", "drain", "last", "done"}, out_pc \notin {"none", "done"}, writing = 0,
         place = "done" => rx_to_output = <<>>
  PROVE  OutputInv'
  <1>1. /\ out_pc' = place
        /\ UNCHANGED <<rx_buffer, samples_since_last_decode, rx_pc, air, batches, rx_to_output>>
        /\ UNCHANGED <<clients_, writing, got, joined, popped, client, upsets, late>>
        /\ UNCHANGED <<mode, use_udp, radio, g_running, main>>
    BY DEF OutGo, shared, rxThread
  <1>2. OutputTypes'
    BY <1>1 DEF OutputInv, OutputTypes, SharedTypeOK, OutputTypeOK
  <1>3. OutputPlaces'
    BY <1>1 DEF OutputInv, OutputPlaces
  <1>4. DrainedAtExit'
    <2>1. late = 0 /\ Len(<<>>) = 0
      BY DEF OutputInv, OutputPlaces
    <2>. QED  BY <1>1, <2>1 DEF DrainedAtExit
  <1>5. RxBufferKept' /\ Newer' /\ DecodedInOrder'
    BY <1>1 DEF OutputInv, RxBufferKept, Newer, DecodedInOrder, Decoded
  <1>6. ClientsApart' /\ OutStreams'
    BY <1>1 DEF OutputInv, ClientsApart, OutStreams, IsInjective
  <1>. QED  BY <1>2, <1>3, <1>4, <1>5, <1>6 DEF OutputInv

(* An element of a list.                                                     *)
LEMMA ElementIn ==
  ASSUME NEW T, NEW s \in Seq(T), NEW i \in 1 .. Len(s)
  PROVE  s[i] \in T
  OBVIOUS

(* accept(): a client more, which has got nothing of what was popped.        *)
LEMMA OutAcceptKeeps ==
  ASSUME OutputInv, UNCHANGED main, out_pc = "top", ~use_udp, out_pc' = "drain",
         client' = Append(client, "ok"), clients_' = Append(clients_, Len(client) + 1),
         got' = Append(got, <<>>), joined' = Append(joined, Len(popped)),
         UNCHANGED <<shared, rxThread, rx_to_output, writing, popped, upsets, late>>
  PROVE  OutputInv'
  <1>1. /\ UNCHANGED <<rx_buffer, samples_since_last_decode, rx_pc, air, batches, rx_to_output>>
        /\ UNCHANGED <<writing, popped, upsets, late, mode, use_udp, radio, g_running, main>>
    BY DEF shared, rxThread
  <1>2. /\ client \in Seq({"ok", "stalled", "gone"}) /\ clients_ \in Seq(DOMAIN client)
        /\ got \in Seq(Seq(Nat)) /\ joined \in Seq(Nat) /\ popped \in Seq(Nat) /\ writing = 0
        /\ Len(got) = Len(client) /\ Len(joined) = Len(client)
    BY DEF OutputInv, OutputTypes, OutputTypeOK, OutputPlaces
  <1>3. PICK n \in Nat, m \in Nat, p \in Nat : n = Len(client) /\ m = Len(clients_) /\ p = Len(popped)
    BY <1>2
  <1>4. PICK cl \in Seq({"ok", "stalled", "gone"}) : cl = client' /\ Len(cl) = n + 1
    <2>1. PICK V : V = {"ok", "stalled", "gone"}
      OBVIOUS
    <2>2. "ok" \in V /\ client \in Seq(V)
      BY <1>2, <2>1
    <2>3. Append(client, "ok") \in Seq(V) /\ Len(Append(client, "ok")) = Len(client) + 1
      BY <2>2, AppendIs
    <2>. QED  BY <1>3, <2>1, <2>3, Zenon
  <1>5. PICK cs \in Seq(1 .. n + 1) : /\ cs = clients_' /\ Len(cs) = m + 1 /\ cs[m + 1] = n + 1
                                      /\ \A i \in 1 .. m : cs[i] = clients_[i]
    <2>1. clients_ \in Seq(1 .. n + 1)
      <3>1. DOMAIN client \subseteq 1 .. n + 1
        BY <1>2, <1>3
      <3>. QED  BY <1>2, <3>1, SeqMonotonic
    <2>2. n + 1 \in 1 .. n + 1
      OBVIOUS
    <2>3. PICK s \in Seq(1 .. n + 1) : s = clients_
      BY <2>1
    <2>4. /\ Append(s, n + 1) \in Seq(1 .. n + 1) /\ Len(Append(s, n + 1)) = Len(s) + 1
          /\ Append(s, n + 1)[Len(s) + 1] = n + 1 /\ \A i \in 1 .. Len(s) : Append(s, n + 1)[i] = s[i]
      BY <2>2, AppendIs
    <2>5. clients_' = Append(s, n + 1) /\ Len(s) = m
      BY <1>3, <2>3
    <2>. QED  BY <2>3, <2>4, <2>5, Zenon
  <1>6. PICK g \in Seq(Seq(Nat)) : /\ g = got' /\ Len(g) = n + 1 /\ g[n + 1] = <<>>
                                   /\ \A c \in 1 .. n : g[c] = got[c]
    <2>1. PICK V : V = Seq(Nat)
      OBVIOUS
    <2>2. PICK s \in Seq(V) : s = got /\ Len(s) = n
      BY <1>2, <1>3, <2>1
    <2>3. <<>> \in V
      BY <2>1
    <2>4. /\ Append(s, <<>>) \in Seq(V) /\ Len(Append(s, <<>>)) = Len(s) + 1
          /\ Append(s, <<>>)[Len(s) + 1] = <<>> /\ \A c \in 1 .. Len(s) : Append(s, <<>>)[c] = s[c]
      BY <2>3, AppendIs
    <2>. QED  BY <2>1, <2>2, <2>4, Zenon
  <1>7. PICK jn \in Seq(Nat) : /\ jn = joined' /\ Len(jn) = n + 1 /\ jn[n + 1] = p
                               /\ \A c \in 1 .. n : jn[c] = joined[c]
    <2>1. /\ Append(joined, p) \in Seq(Nat) /\ Len(Append(joined, p)) = Len(joined) + 1
          /\ Append(joined, p)[Len(joined) + 1] = p
          /\ \A c \in 1 .. Len(joined) : Append(joined, p)[c] = joined[c]
      BY <1>2, AppendIs
    <2>2. Len(joined) = n /\ joined' = Append(joined, p)
      BY <1>2, <1>3
    <2>. QED  BY <2>1, <2>2, Zenon
  <1>8. DOMAIN client' = 1 .. n + 1 /\ DOMAIN clients_' = 1 .. m + 1 /\ DOMAIN clients_ = 1 .. m
        /\ \A i \in 1 .. m : clients_[i] \in 1 .. n
    <2>1. DOMAIN clients_' = 1 .. m + 1
      BY <1>5
    <2>2. DOMAIN client' = 1 .. n + 1
      BY <1>3, <1>4
    <2>3. DOMAIN clients_ = 1 .. m /\ \A i \in 1 .. m : clients_[i] \in 1 .. n
      <3>1. DOMAIN client = 1 .. n
        BY <1>2, <1>3
      <3>2. clients_ \in Seq(1 .. n)
        BY <1>2, <3>1
      <3>3. PICK V : V = 1 .. n
        OBVIOUS
      <3>4. PICK s \in Seq(V) : s = clients_ /\ m = Len(s)
        BY <1>3, <3>2, <3>3
      <3>5. DOMAIN s = 1 .. Len(s) /\ \A i \in 1 .. Len(s) : s[i] \in V
        BY ElementIn
      <3>. QED  BY <3>3, <3>4, <3>5
    <2>. QED  BY <2>1, <2>2, <2>3
  <1>9. OutputTypes'
    <2>1. writing' \in 0 .. Len(clients_')
      BY <1>1, <1>2, <1>5
    <2>. QED  BY <1>1, <1>4, <1>5, <1>6, <1>7, <1>8, <2>1
                DEF OutputInv, OutputTypes, SharedTypeOK, OutputTypeOK
  <1>10. OutputPlaces' /\ DrainedAtExit'
    BY <1>1, <1>2 DEF OutputInv, OutputPlaces, DrainedAtExit
  <1>11. RxBufferKept' /\ Newer' /\ DecodedInOrder'
    BY <1>1 DEF OutputInv, RxBufferKept, Newer, DecodedInOrder, Decoded
  <1>12. \A i \in 1 .. m + 1 : i \in 1 .. m \/ i = m + 1
    OBVIOUS
  <1>13. ClientsApart'
    <2>1. IsInjective(clients_')
      <3>1. \A i, j \in 1 .. m : clients_[i] = clients_[j] => i = j
        BY <1>8 DEF OutputInv, ClientsApart, IsInjective
      <3>2. \A i \in 1 .. m : cs[i] # n + 1
        BY <1>5, <1>8
      <3>3. \A i, j \in 1 .. m + 1 : cs[i] = cs[j] => i = j
        BY <1>5, <1>12, <3>1, <3>2
      <3>. QED  BY <1>5, <1>8, <3>3 DEF IsInjective
    <2>2. ASSUME NEW i \in 1 .. m + 1 PROVE jn[cs[i]] <= p
      <3>1. CASE i \in 1 .. m
        BY <1>3, <1>5, <1>7, <1>8, <3>1 DEF OutputInv, ClientsApart
      <3>2. CASE i = m + 1
        BY <1>5, <1>7, <3>2
      <3>. QED  BY <1>12, <3>1, <3>2
    <2>3. \A i \in 1 .. m + 1 : ~(i <= writing')
      BY <1>1, <1>2
    <2>. QED  BY <1>1, <1>3, <1>5, <1>7, <1>8, <2>1, <2>2, <2>3 DEF ClientsApart
  <1>14. OutStreams'
    <2>1. ASSUME NEW i \in 1 .. m + 1 PROVE g[cs[i]] = SubSeq(popped, jn[cs[i]] + 1, p - 0)
      <3>1. CASE i \in 1 .. m
        <4>1. ~(i <= writing)
          BY <1>2
        <4>2. got[clients_[i]] = SubSeq(popped, joined[clients_[i]] + 1, p - 0)
          BY <1>3, <1>8, <3>1, <4>1 DEF OutputInv, OutStreams
        <4>3. cs[i] = clients_[i] /\ clients_[i] \in 1 .. n
          BY <1>5, <1>8, <3>1
        <4>4. g[cs[i]] = got[clients_[i]] /\ jn[cs[i]] = joined[clients_[i]]
          BY <1>6, <1>7, <4>3
        <4>. QED  BY <4>2, <4>4
      <3>2. CASE i = m + 1
        <4>1. SubSeq(popped, p + 1, p) = <<>> /\ p - 0 = p
          BY <1>2, <1>3
        <4>. QED  BY <1>5, <1>6, <1>7, <3>2, <4>1
      <3>. QED  BY <1>12, <3>1, <3>2
    <2>2. \A i \in 1 .. m + 1 : ~(i <= writing')
      BY <1>1, <1>2
    <2>3. /\ got' = g /\ clients_' = cs /\ joined' = jn /\ popped' = popped
          /\ Len(popped') = p /\ DOMAIN clients_' = 1 .. m + 1
      BY <1>1, <1>3, <1>5, <1>6, <1>7, <1>8
    <2>. QED  BY <2>1, <2>2, <2>3 DEF OutStreams
  <1>. QED  BY <1>9, <1>10, <1>11, <1>13, <1>14 DEF OutputInv

(* The same part of two lists that agree so far.                             *)
LEMMA SamePart ==
  \A s, t \in Seq(Nat) : \A p \in Nat : \A j \in 0 .. p :
    (p <= Len(s) /\ p <= Len(t) /\ \A h \in 1 .. p : s[h] = t[h])
      => SubSeq(s, j + 1, p) = SubSeq(t, j + 1, p)
  <1> SUFFICES ASSUME NEW s \in Seq(Nat), NEW t \in Seq(Nat), NEW p \in Nat, NEW j \in 0 .. p,
                      p <= Len(s) /\ p <= Len(t) /\ \A h \in 1 .. p : s[h] = t[h]
               PROVE  SubSeq(s, j + 1, p) = SubSeq(t, j + 1, p)
    BY Zenon
  <1>1. /\ SubSeq(s, j + 1, p) \in Seq(Nat) /\ Len(SubSeq(s, j + 1, p)) = p - j
        /\ \A i \in 1 .. p - j : SubSeq(s, j + 1, p)[i] = s[j + i]
    OBVIOUS
  <1>2. /\ SubSeq(t, j + 1, p) \in Seq(Nat) /\ Len(SubSeq(t, j + 1, p)) = p - j
        /\ \A i \in 1 .. p - j : SubSeq(t, j + 1, p)[i] = t[j + i]
    OBVIOUS
  <1>3. \A i \in 1 .. p - j : j + i \in 1 .. p
    OBVIOUS
  <1>. QED  BY <1>1, <1>2, <1>3

(* A payload is popped, for every client that is there.                      *)
LEMMA DrainKeeps ==
  ASSUME OutputInv, UNCHANGED main, NEW place, NEW then, Drain(place, then),
         place \in {"top", "drain", "last"}, then \in {"top", "last", "write", "lastwrite"},
         then \in {"top", "last"} => use_udp
  PROVE  OutputInv'
  <1>1. /\ out_pc = place /\ rx_to_output # <<>> /\ out_pc' = then
        /\ rx_to_output' = Tail(rx_to_output) /\ popped' = Append(popped, Head(rx_to_output))
        /\ writing' = Len(clients_)
        /\ UNCHANGED <<rx_buffer, samples_since_last_decode, rx_pc, air, batches>>
        /\ UNCHANGED <<clients_, got, joined, client, upsets, late, mode, use_udp, radio>>
        /\ UNCHANGED <<g_running, main>>
    BY DEF Drain, shared, rxThread
  <1>2. /\ clients_ \in Seq(DOMAIN client) /\ joined \in Seq(Nat) /\ popped \in Seq(Nat)
        /\ rx_to_output \in Seq(Nat) /\ Len(rx_to_output) <= RxCapacity /\ RxCapacity \in Nat
        /\ writing = 0 /\ client \in Seq({"ok", "stalled", "gone"}) /\ Len(joined) = Len(client)
    BY <1>1, OutputAssumption DEF OutputInv, OutputTypes, OutputTypeOK, OutputPlaces
  <1>3. PICK p \in Nat, m \in Nat : p = Len(popped) /\ m = Len(clients_)
    BY <1>2
  <1>4. PICK x \in Nat : x = Head(rx_to_output)
    BY <1>1, <1>2
  <1>5. PICK q \in Seq(Nat) : q = popped' /\ Len(q) = p + 1
                              /\ \A i \in 1 .. p : q[i] = popped[i]
    <2>1. /\ Append(popped, x) \in Seq(Nat) /\ Len(Append(popped, x)) = Len(popped) + 1
          /\ \A i \in 1 .. Len(popped) : Append(popped, x)[i] = popped[i]
      BY <1>2, AppendIs
    <2>2. popped' = Append(popped, x)
      BY <1>1, <1>4
    <2>. QED  BY <1>3, <2>1, <2>2, Zenon
  <1>6. rx_to_output' \in Seq(Nat) /\ Len(rx_to_output') <= RxCapacity
    BY <1>1, <1>2
  <1>7. Decoded' = Decoded
    <2>1. Cat(popped, rx_to_output) = Cat(Append(popped, Head(rx_to_output)), Tail(rx_to_output))
      BY <1>1, <1>2, HeadMoves
    <2>. QED  BY <1>1, <2>1 DEF Decoded, Cat
  <1>8. DOMAIN clients_ = 1 .. m /\ \A i \in 1 .. m :
          joined[clients_[i]] \in Nat /\ joined[clients_[i]] <= p
    <2>1. DOMAIN clients_ = 1 .. m /\ \A i \in 1 .. m : clients_[i] \in DOMAIN joined
      BY <1>2, <1>3
    <2>2. \A i \in 1 .. m : joined[clients_[i]] \in Nat
      BY <1>2, <2>1
    <2>3. \A i \in 1 .. m : joined[clients_[i]] <= p
      BY <1>3, <2>1 DEF OutputInv, ClientsApart
    <2>. QED  BY <2>1, <2>2, <2>3
  <1>9. OutputTypes'
    <2>1. writing' \in 0 .. Len(clients_')
      BY <1>1, <1>3
    <2>. QED  BY <1>1, <1>5, <1>6, <2>1 DEF OutputInv, OutputTypes, SharedTypeOK, OutputTypeOK
  <1>10. OutputPlaces'
    <2>1. use_udp => writing' = 0
      <3>1. Len(<<>>) = 0
        OBVIOUS
      <3>. QED  BY <1>1, <3>1 DEF OutputInv, OutputPlaces
    <2>2. late = 0 /\ main # "setup"
      BY <1>1 DEF OutputInv, OutputPlaces
    <2>. QED  BY <1>1, <2>1, <2>2 DEF OutputInv, OutputPlaces
  <1>11. DrainedAtExit'
    BY <1>1 DEF DrainedAtExit
  <1>12. RxBufferKept' /\ Newer' /\ DecodedInOrder'
    BY <1>1, <1>7 DEF OutputInv, RxBufferKept, Newer, DecodedInOrder, Decoded
  <1>13. ClientsApart'
    <2>1. \A i \in 1 .. m : joined[clients_[i]] < p + 1 /\ joined[clients_[i]] <= p + 1
      BY <1>8
    <2>. QED  BY <1>1, <1>5, <1>8, <2>1 DEF OutputInv, ClientsApart, IsInjective
  <1>14. OutStreams'
    <2>1. ASSUME NEW i \in 1 .. m
          PROVE  got[clients_[i]] = SubSeq(q, joined[clients_[i]] + 1, (p + 1) - 1)
      <3>1. PICK j \in Nat : j = joined[clients_[i]] /\ j <= p
        BY <1>8
      <3>2. ~(i <= writing)
        BY <1>2
      <3>3. got[clients_[i]] = SubSeq(popped, j + 1, p - 0)
        BY <1>3, <1>8, <3>1, <3>2 DEF OutputInv, OutStreams
      <3>4. SubSeq(popped, j + 1, p) = SubSeq(q, j + 1, p)
        <4>1. PICK s \in Seq(Nat) : s = popped
          BY <1>2
        <4>2. p <= Len(s) /\ p <= Len(q) /\ \A h \in 1 .. p : s[h] = q[h]
          <5>1. p = Len(s)
            BY <1>3, <4>1
          <5>2. Len(q) = p + 1 /\ \A h \in 1 .. p : s[h] = q[h]
            BY <1>3, <1>5, <4>1
          <5>3. p \in Nat
            BY <1>3, <4>1
          <5>. QED  BY <5>1, <5>2, <5>3
        <4>3. SubSeq(s, j + 1, p) = SubSeq(q, j + 1, p)
          <5>1. j \in 0 .. p
            BY <3>1
          <5>. QED  BY <4>2, <5>1, SamePart, Zenon
        <4>. QED  BY <4>1, <4>3
      <3>5. p - 0 = p /\ (p + 1) - 1 = p
        OBVIOUS
      <3>. QED  BY <3>1, <3>3, <3>4, <3>5
    <2>2. \A i \in 1 .. m : i <= writing'
      BY <1>1, <1>3
    <2>. QED  BY <1>1, <1>5, <1>8, <2>1, <2>2 DEF OutStreams
  <1>. QED  BY <1>9, <1>10, <1>11, <1>12, <1>13, <1>14 DEF OutputInv

(* A list without its element at w.                                          *)
LEMMA RemoveAtIs ==
  ASSUME NEW T, NEW s \in Seq(T), NEW w \in 1 .. Len(s)
  PROVE  /\ RemoveAt(s, w) \in Seq(T) /\ Len(RemoveAt(s, w)) = Len(s) - 1
         /\ \A i \in 1 .. Len(s) - 1 : RemoveAt(s, w)[i] = IF i < w THEN s[i] ELSE s[i + 1]
  <1>1. Len(s) \in Nat /\ w \in Nat /\ w <= Len(s) /\ w >= 1
    OBVIOUS
  <1>2. PICK k \in 0 .. Len(s) : k = w - 1
    BY <1>1
  <1>3. PICK a \in Seq(T) : a = SubSeq(s, 1, w - 1) /\ Len(a) = w - 1
                            /\ \A i \in 1 .. w - 1 : a[i] = s[i]
    <2>1. /\ SubSeq(s, 1, k) \in Seq(T) /\ Len(SubSeq(s, 1, k)) = k
          /\ \A i \in 1 .. k : SubSeq(s, 1, k)[i] = s[i]
      BY FirstIs
    <2>. QED  BY <1>2, <2>1, Zenon
  <1>4. PICK b \in Seq(T) : b = SubSeq(s, w + 1, Len(s)) /\ Len(b) = Len(s) - w
                            /\ \A i \in 1 .. Len(s) - w : b[i] = s[w + i]
    <2>1. w \in 0 .. Len(s)
      BY <1>1
    <2>2. /\ SubSeq(s, w + 1, Len(s)) \in Seq(T) /\ Len(SubSeq(s, w + 1, Len(s))) = Len(s) - w
          /\ \A i \in 1 .. Len(s) - w : SubSeq(s, w + 1, Len(s))[i] = s[w + i]
      BY <2>1, SuffixIs
    <2>. QED  BY <2>2, Zenon
  <1>5. PICK r \in Seq(T) : /\ r = RemoveAt(s, w) /\ Len(r) = Len(a) + Len(b)
                            /\ \A i \in 1 .. Len(a) : r[i] = a[i]
                            /\ \A i \in 1 .. Len(b) : r[Len(a) + i] = b[i]
    <2>1. /\ a \o b \in Seq(T) /\ Len(a \o b) = Len(a) + Len(b)
          /\ \A i \in 1 .. Len(a) : (a \o b)[i] = a[i]
          /\ \A i \in 1 .. Len(b) : (a \o b)[Len(a) + i] = b[i]
      BY ConcatIs
    <2>2. RemoveAt(s, w) = a \o b
      BY <1>3, <1>4 DEF RemoveAt
    <2>. QED  BY <2>1, <2>2, Zenon
  <1>6. Len(r) = Len(s) - 1
    BY <1>1, <1>3, <1>4, <1>5
  <1>7. ASSUME NEW i \in 1 .. Len(s) - 1 PROVE r[i] = IF i < w THEN s[i] ELSE s[i + 1]
    <2>1. CASE i < w
      <3>1. i \in 1 .. w - 1
        BY <1>1, <2>1
      <3>. QED  BY <1>3, <1>5, <2>1, <3>1
    <2>2. CASE ~(i < w)
      <3>1. PICK j \in Nat : j = i - (w - 1) /\ j >= 1 /\ j <= Len(s) - w /\ i = (w - 1) + j
                             /\ w + j = i + 1
        <4>1. i - (w - 1) \in Nat /\ i - (w - 1) >= 1 /\ i - (w - 1) <= Len(s) - w
              /\ i = (w - 1) + (i - (w - 1)) /\ w + (i - (w - 1)) = i + 1
          BY <1>1, <2>2
        <4>. QED  BY <4>1
      <3>2. j \in 1 .. Len(b)
        BY <1>1, <1>4, <3>1
      <3>3. r[Len(a) + j] = b[j] /\ b[j] = s[w + j]
        BY <1>4, <1>5, <3>2
      <3>4. Len(a) + j = i
        BY <1>3, <3>1
      <3>. QED  BY <2>2, <3>1, <3>3, <3>4
    <2>. QED  BY <2>1, <2>2
  <1>. QED  BY <1>5, <1>6, <1>7

(* The rest of a list with its last element.                                 *)
LEMMA PartAndNext ==
  ASSUME NEW T, NEW s \in Seq(T), NEW j \in Nat, NEW p \in Nat, p = Len(s), j < p
  PROVE  Append(SubSeq(s, j + 1, p - 1), Last(s)) = SubSeq(s, j + 1, p)
  <1>1. Last(s) = s[p] /\ s[p] \in T
    BY DEF Last
  <1>2. SubSeq(s, j + 1, p - 1) \in Seq(T) /\ Len(SubSeq(s, j + 1, p - 1)) = (p - 1) - j
        /\ \A i \in 1 .. (p - 1) - j : SubSeq(s, j + 1, p - 1)[i] = s[j + i]
    OBVIOUS
  <1>3. SubSeq(s, j + 1, p) \in Seq(T) /\ Len(SubSeq(s, j + 1, p)) = p - j
        /\ \A i \in 1 .. p - j : SubSeq(s, j + 1, p)[i] = s[j + i]
    OBVIOUS
  <1>4. PICK x \in T, a \in Seq(T), b \in Seq(T) :
          x = Last(s) /\ a = SubSeq(s, j + 1, p - 1) /\ b = SubSeq(s, j + 1, p)
    BY <1>1, <1>2, <1>3, Zenon
  <1>5. PICK n \in Nat : n = (p - 1) - j /\ n + 1 = p - j /\ j + (n + 1) = p
    <2>1. (p - 1) - j \in Nat /\ ((p - 1) - j) + 1 = p - j /\ j + (((p - 1) - j) + 1) = p
      OBVIOUS
    <2>. QED  BY <2>1, Zenon
  <1>6. Len(a) = n /\ \A i \in 1 .. n : a[i] = s[j + i]
    BY <1>2, <1>4, <1>5, Zenon
  <1>7. Len(b) = n + 1 /\ \A i \in 1 .. n + 1 : b[i] = s[j + i]
    BY <1>3, <1>4, <1>5, Zenon
  <1>8. PICK c \in Seq(T) : /\ c = Append(a, x) /\ Len(c) = n + 1 /\ c[n + 1] = x
                            /\ \A i \in 1 .. n : c[i] = a[i]
    <2>1. /\ Append(a, x) \in Seq(T) /\ Len(Append(a, x)) = Len(a) + 1
          /\ Append(a, x)[Len(a) + 1] = x /\ \A i \in 1 .. Len(a) : Append(a, x)[i] = a[i]
      BY AppendIs
    <2>. QED  BY <1>6, <2>1, Zenon
  <1>9. \A i \in 1 .. Len(c) : c[i] = b[i]
    <2>1. x = s[j + (n + 1)] /\ n + 1 \in 1 .. n + 1
      BY <1>1, <1>4, <1>5
    <2>2. \A i \in 1 .. n + 1 : i \in 1 .. n \/ i = n + 1
      OBVIOUS
    <2> SUFFICES ASSUME NEW i \in 1 .. n + 1 PROVE c[i] = b[i]
      BY <1>8
    <2>3. b[i] = s[j + i]
      BY <1>7, Zenon
    <2>4. CASE i \in 1 .. n
      BY <1>6, <1>8, <2>3, <2>4, Zenon
    <2>5. CASE i = n + 1
      BY <1>8, <2>1, <2>3, <2>5, Zenon
    <2>. QED  BY <2>2, <2>4, <2>5
  <1>10. c = b
    BY <1>7, <1>8, <1>9, SeqEqual
  <1>. QED  BY <1>4, <1>8, <1>10

(* write_to_all() for one client: it gets the payload, or it has gone and is *)
(* removed, and those behind it, which have got it, move up.                 *)
LEMMA OutWriteKeeps ==
  ASSUME OutputInv, UNCHANGED main, OutWrite
  PROVE  OutputInv'
  <1>1. /\ out_pc \in {"write", "lastwrite"} /\ writing > 0 /\ writing' = writing - 1
        /\ UNCHANGED <<rx_buffer, samples_since_last_decode, rx_pc, air, batches, rx_to_output>>
        /\ UNCHANGED <<out_pc, joined, popped, client, upsets, late, mode, use_udp, radio>>
        /\ UNCHANGED <<g_running, main>>
    BY DEF OutWrite, OutWriteTo, shared, rxThread
  <1>2. /\ clients_ \in Seq(DOMAIN client) /\ joined \in Seq(Nat) /\ popped \in Seq(Nat)
        /\ writing \in 0 .. Len(clients_) /\ client \in Seq({"ok", "stalled", "gone"})
        /\ Len(joined) = Len(client) /\ got \in Seq(Seq(Nat)) /\ Len(got) = Len(client)
    BY DEF OutputInv, OutputTypes, OutputTypeOK
  <1>3. PICK p \in Nat, m \in Nat, w \in Nat : p = Len(popped) /\ m = Len(clients_) /\ w = writing
    BY <1>2
  <1>4. w \in 1 .. m /\ w - 1 \in 0 .. m /\ DOMAIN clients_ = 1 .. m
    BY <1>1, <1>2, <1>3
  <1>6. \A i \in 1 .. m : clients_[i] \in DOMAIN client /\ joined[clients_[i]] \in Nat
    <2>1. PICK V : V = DOMAIN client
      OBVIOUS
    <2>2. \A i \in 1 .. m : clients_[i] \in DOMAIN client
      <3>1. PICK s \in Seq(V) : s = clients_ /\ Len(s) = m
        BY <1>2, <1>3, <2>1
      <3>2. \A i \in 1 .. Len(s) : s[i] \in V
        BY ElementIn
      <3>. QED  BY <2>1, <3>1, <3>2
    <2>3. DOMAIN client = 1 .. Len(joined)
      BY <1>2
    <2>4. \A d \in 1 .. Len(joined) : joined[d] \in Nat
      BY <1>2
    <2>. QED  BY <2>2, <2>3, <2>4
  <1>5. PICK c \in DOMAIN client : c = clients_[w]
    BY <1>4, <1>6
  <1>7. \A i, j \in 1 .. m : clients_[i] = clients_[j] => i = j
    BY <1>4 DEF OutputInv, ClientsApart, IsInjective
  <1>8. \A i \in 1 .. m : /\ joined[clients_[i]] <= p
                          /\ i <= w => joined[clients_[i]] < p
    BY <1>3, <1>4 DEF OutputInv, ClientsApart
  <1>9. \A i \in 1 .. m : got[clients_[i]] =
          SubSeq(popped, joined[clients_[i]] + 1, p - (IF i <= w THEN 1 ELSE 0))
    BY <1>3, <1>4 DEF OutputInv, OutStreams
  <1>10. RxBufferKept' /\ Newer' /\ DecodedInOrder' /\ DrainedAtExit'
    BY <1>1 DEF OutputInv, RxBufferKept, Newer, DecodedInOrder, Decoded, DrainedAtExit
  <1>11. ~use_udp
    <2>1. Len(<<>>) = 0
      OBVIOUS
    <2>. QED  BY <1>3, <1>4, <2>1 DEF OutputInv, OutputPlaces
  <1>12. CASE got' = [got EXCEPT ![c] = Append(@, Last(popped))] /\ UNCHANGED clients_
    <2>1. PICK j \in Nat : j = joined[c] /\ j < p
      <3>1. w <= w
        OBVIOUS
      <3>. QED  BY <1>4, <1>5, <1>6, <1>8, <3>1
    <2>2. got[c] = SubSeq(popped, j + 1, p - 1)
      <3>1. w <= w
        OBVIOUS
      <3>2. got[clients_[w]] = SubSeq(popped, joined[clients_[w]] + 1, p - 1)
        BY <1>4, <1>9, <3>1
      <3>. QED  BY <1>5, <2>1, <3>2
    <2>3. Append(got[c], Last(popped)) = SubSeq(popped, j + 1, p)
      <3>1. Append(SubSeq(popped, j + 1, p - 1), Last(popped)) = SubSeq(popped, j + 1, p)
        BY <1>2, <1>3, <2>1, PartAndNext
      <3>. QED  BY <2>2, <3>1
    <2>4. SubSeq(popped, j + 1, p) \in Seq(Nat)
      <3>1. j \in 0 .. Len(popped)
        BY <1>3, <2>1
      <3>. QED  BY <1>2, <1>3, <3>1, SuffixIs
    <2>5. PICK g \in Seq(Seq(Nat)) : /\ g = got' /\ Len(g) = Len(got)
                                     /\ g[c] = SubSeq(popped, j + 1, p)
                                     /\ \A d \in DOMAIN client : d # c => g[d] = got[d]
      <3>1. PICK V : V = Seq(Nat)
        OBVIOUS
      <3>2. got \in Seq(V) /\ c \in 1 .. Len(got) /\ DOMAIN client = 1 .. Len(got)
        BY <1>2, <1>5, <3>1
      <3>3. PICK x \in V : x = SubSeq(popped, j + 1, p)
        BY <2>4, <3>1
      <3>4. got' = [got EXCEPT ![c] = x]
        BY <1>12, <2>3, <3>3
      <3>5. /\ [got EXCEPT ![c] = x] \in Seq(V) /\ Len([got EXCEPT ![c] = x]) = Len(got)
            /\ [got EXCEPT ![c] = x][c] = x
            /\ \A d \in 1 .. Len(got) : d # c => [got EXCEPT ![c] = x][d] = got[d]
        BY <3>2
      <3>. QED  BY <3>1, <3>2, <3>3, <3>4, <3>5, Zenon
    <2>6. OutputTypes'
      <3>1. writing' \in 0 .. Len(clients_')
        BY <1>1, <1>3, <1>4, <1>12
      <3>. QED  BY <1>1, <1>2, <1>12, <2>5, <3>1
                  DEF OutputInv, OutputTypes, SharedTypeOK, OutputTypeOK
    <2>7. OutputPlaces'
      BY <1>1, <1>12 DEF OutputInv, OutputPlaces
    <2>8. ClientsApart'
      <3>1. \A i \in 1 .. m : i <= w - 1 => i <= w
        BY <1>3
      <3>. QED  BY <1>1, <1>3, <1>4, <1>8, <1>12, <3>1 DEF OutputInv, ClientsApart, IsInjective
    <2>9. ASSUME NEW i \in 1 .. m
          PROVE  g[clients_[i]] = SubSeq(popped, joined[clients_[i]] + 1,
                                         p - (IF i <= w - 1 THEN 1 ELSE 0))
      <3>1. CASE i = w
        <4>1. ~(i <= w - 1) /\ p - 0 = p
          BY <1>3, <3>1
        <4>. QED  BY <1>5, <2>1, <2>5, <3>1, <4>1
      <3>2. CASE i # w
        <4>1. (i <= w) = (i <= w - 1)
          BY <1>3, <3>2
        <4>2. clients_[i] # c
          BY <1>4, <1>5, <1>7, <3>2
        <4>3. g[clients_[i]] = got[clients_[i]]
          BY <1>6, <2>5, <4>2
        <4>. QED  BY <1>9, <4>1, <4>3
      <3>. QED  BY <3>1, <3>2
    <2>10. OutStreams'
      BY <1>1, <1>3, <1>4, <1>12, <2>5, <2>9 DEF OutStreams
    <2>. QED  BY <1>10, <2>6, <2>7, <2>8, <2>10 DEF OutputInv
  <1>13. CASE remove_client(w) /\ UNCHANGED got
    <2>1. PICK cs \in Seq(DOMAIN client) :
            /\ cs = clients_' /\ Len(cs) = m - 1
            /\ \A i \in 1 .. m - 1 : cs[i] = IF i < w THEN clients_[i] ELSE clients_[i + 1]
      <3>1. PICK V : V = DOMAIN client
        OBVIOUS
      <3>2. PICK s \in Seq(V) : s = clients_ /\ Len(s) = m
        BY <1>2, <1>3, <3>1
      <3>3. w \in 1 .. Len(s)
        BY <1>4, <3>2
      <3>4. /\ RemoveAt(s, w) \in Seq(V) /\ Len(RemoveAt(s, w)) = Len(s) - 1
            /\ \A i \in 1 .. Len(s) - 1 : RemoveAt(s, w)[i] = IF i < w THEN s[i] ELSE s[i + 1]
        BY <3>3, RemoveAtIs
      <3>5. clients_' = RemoveAt(s, w)
        BY <1>13, <3>2 DEF remove_client
      <3>. QED  BY <3>1, <3>2, <3>4, <3>5, Zenon
    <2>2. DOMAIN cs = 1 .. m - 1 /\ \A i \in 1 .. m - 1 : i \in 1 .. m /\ i + 1 \in 1 .. m
      BY <1>3, <2>1
    <2>3. OutputTypes'
      <3>1. writing' \in 0 .. Len(clients_')
        BY <1>1, <1>3, <1>4, <2>1
      <3>. QED  BY <1>1, <1>2, <1>13, <2>1, <3>1
                  DEF OutputInv, OutputTypes, SharedTypeOK, OutputTypeOK
    <2>4. OutputPlaces'
      BY <1>1, <1>11 DEF OutputInv, OutputPlaces
    <2> DEFINE Old(i) == IF i < w THEN i ELSE i + 1
    <2>5. \A i \in 1 .. m - 1 : /\ Old(i) \in 1 .. m /\ cs[i] = clients_[Old(i)]
                                /\ (Old(i) <= w) = (i <= w - 1)
      <3> SUFFICES ASSUME NEW i \in 1 .. m - 1
                   PROVE  /\ Old(i) \in 1 .. m /\ cs[i] = clients_[Old(i)]
                          /\ (Old(i) <= w) = (i <= w - 1)
        OBVIOUS
      <3>1. cs[i] = IF i < w THEN clients_[i] ELSE clients_[i + 1]
        BY <2>1
      <3>2. CASE i < w
        <4>1. i <= w /\ i <= w - 1
          BY <1>3, <3>2
        <4>. QED  BY <2>2, <3>1, <3>2, <4>1
      <3>3. CASE ~(i < w)
        <4>1. ~(i + 1 <= w) /\ ~(i <= w - 1)
          BY <1>3, <3>3
        <4>. QED  BY <2>2, <3>1, <3>3, <4>1
      <3>. QED  BY <3>2, <3>3
    <2>6. \A i, j \in 1 .. m - 1 : Old(i) = Old(j) => i = j
      BY <1>3
    <2> HIDE DEF Old
    <2>7. ClientsApart'
      <3>1. \A i, j \in 1 .. m - 1 : cs[i] = cs[j] => i = j
        BY <1>7, <2>5, <2>6
      <3>2. IsInjective(cs)
        BY <2>2, <3>1 DEF IsInjective
      <3>3. \A i \in 1 .. m - 1 : joined[cs[i]] <= p /\ (i <= w - 1 => joined[cs[i]] < p)
        BY <1>8, <2>5
      <3>4. cs = clients_' /\ writing' = w - 1 /\ joined' = joined /\ Len(popped') = p
        BY <1>1, <1>3, <2>1
      <3>. QED  BY <2>2, <3>2, <3>3, <3>4 DEF ClientsApart
    <2>8. OutStreams'
      <3>1. \A i \in 1 .. m - 1 : got[cs[i]] =
              SubSeq(popped, joined[cs[i]] + 1, p - (IF i <= w - 1 THEN 1 ELSE 0))
        BY <1>9, <2>5
      <3>2. cs = clients_' /\ writing' = w - 1 /\ joined' = joined /\ popped' = popped
            /\ Len(popped') = p /\ got' = got
        BY <1>1, <1>3, <1>13, <2>1
      <3>. QED  BY <2>2, <3>1, <3>2 DEF OutStreams
    <2>. QED  BY <1>10, <2>3, <2>4, <2>7, <2>8 DEF OutputInv
  <1>. QED  BY <1>1, <1>3, <1>5, <1>12, <1>13 DEF OutWrite, OutWriteTo

(* Steps of the output thread.                                               *)
LEMMA OutputThreadKeeps ==
  ASSUME OutputInv, OutputThread, UNCHANGED main
  PROVE  OutputInv'
  <1>0. out_pc \notin {"write", "lastwrite"} => writing = 0
    BY DEF OutputInv, OutputPlaces
  <1>1. CASE OutEnd
    BY <1>0, <1>1, OutGoKeeps DEF OutEnd
  <1>2. CASE OutPoll
    <2>1. CASE OutGo("drain")
      BY <1>0, <1>2, <2>1, OutGoKeeps DEF OutPoll
    <2>2. CASE ~OutGo("drain")
      <3>1. /\ out_pc = "top" /\ ~use_udp /\ out_pc' = "drain"
            /\ client' = Append(client, "ok") /\ clients_' = Append(clients_, Len(client) + 1)
            /\ got' = Append(got, <<>>) /\ joined' = Append(joined, Len(popped))
            /\ UNCHANGED <<shared, rxThread, rx_to_output, writing, popped, upsets, late>>
        BY <1>2, <2>2 DEF OutPoll
      <3>. QED  BY <3>1, OutAcceptKeeps
    <2>. QED  BY <2>1, <2>2
  <1>3. CASE OutPop
    BY <1>3, DrainKeeps DEF OutPop
  <1>4. CASE OutDrained
    BY <1>0, <1>4, OutGoKeeps DEF OutDrained
  <1>5. CASE OutLastPop
    <2>1. CASE use_udp
      BY <1>5, <2>1, DrainKeeps DEF OutLastPop
    <2>2. CASE ~use_udp
      BY <1>5, <2>2, DrainKeeps DEF OutLastPop
    <2>. QED  BY <2>1, <2>2
  <1>6. CASE OutLast
    BY <1>0, <1>6, OutGoKeeps DEF OutLast
  <1>7. CASE OutDatagram
    BY <1>7, DrainKeeps DEF OutDatagram
  <1>8. CASE OutWrite
    BY <1>8, OutWriteKeeps
  <1>9. CASE OutWritten
    <2>1. CASE out_pc = "write"
      BY <1>9, <2>1, OutGoKeeps DEF OutWritten
    <2>2. CASE out_pc = "lastwrite"
      BY <1>9, <2>2, OutGoKeeps DEF OutWritten
    <2>. QED  BY <1>9, <2>1, <2>2 DEF OutWritten
  <1>. QED
    BY <1>1, <1>2, <1>3, <1>4, <1>5, <1>6, <1>7, <1>8, <1>9 DEF OutputThread

(* Clients stall, go on, and go.                                             *)
LEMMA OutputClientsKeep ==
  ASSUME OutputInv, OutputClients, UNCHANGED main
  PROVE  OutputInv'
  <1>1. PICK c \in DOMAIN client, how \in {"ok", "stalled", "gone"} : ClientTurns(c, how)
    BY DEF OutputClients
  <1>2. /\ client' = [client EXCEPT ![c] = how]
        /\ UNCHANGED <<rx_buffer, samples_since_last_decode, rx_pc, air, batches, rx_to_output>>
        /\ UNCHANGED <<out_pc, clients_, writing, got, joined, popped, late>>
        /\ UNCHANGED <<mode, use_udp, radio, g_running, main>>
    BY <1>1 DEF ClientTurns, shared, rxThread, outThread
  <1>3. upsets' \in Nat
    <2>1. upsets \in Nat
      BY DEF OutputInv, OutputTypes
    <2>. QED  BY <1>1, <2>1 DEF ClientTurns
  <1>4. /\ client' \in Seq({"ok", "stalled", "gone"}) /\ DOMAIN client' = DOMAIN client
        /\ Len(client') = Len(client)
    <2>1. client \in Seq({"ok", "stalled", "gone"})
      BY DEF OutputInv, OutputTypes, OutputTypeOK
    <2>. QED  BY <1>2, <2>1
  <1>5. OutputTypes'
    BY <1>2, <1>3, <1>4 DEF OutputInv, OutputTypes, SharedTypeOK, OutputTypeOK
  <1>6. OutputPlaces' /\ DrainedAtExit'
    BY <1>2 DEF OutputInv, OutputPlaces, DrainedAtExit
  <1>7. RxBufferKept' /\ Newer' /\ DecodedInOrder'
    BY <1>2 DEF OutputInv, RxBufferKept, Newer, DecodedInOrder, Decoded
  <1>8. ClientsApart' /\ OutStreams'
    BY <1>2 DEF OutputInv, ClientsApart, OutStreams, IsInjective
  <1>. QED  BY <1>5, <1>6, <1>7, <1>8 DEF OutputInv

(* The input half leaves the options, the flag and the output half alone.    *)
LEMMA InputLeavesShared ==
  ASSUME InputThread \/ TxThread \/ InputClients
  PROVE  UNCHANGED <<mode, use_udp, radio, g_running>>
  <1>1. CASE InputThread
    BY <1>1 DEF InputThread, InEnd, InPoll, InRecv, InFrame, InFrameOf, InFlushGone, InFlushIdle,
                InWait, RestDone, InDatagram, shared
  <1>2. CASE TxThread
    BY <1>2 DEF TxThread, TxEnd, TxPop, TxSend, shared
  <1>3. CASE InputClients
    BY <1>3 DEF InputClients, Connect, Writes, Leaves, Datagram, Client, shared
  <1>. QED  BY <1>1, <1>2, <1>3

(* Every step of the modem keeps the invariant of the receiving half.        *)
LEMMA NextOutput == OutputInv /\ [Next]_vars => OutputInv'
  <1> SUFFICES ASSUME OutputInv, [Next]_vars PROVE OutputInv'
    OBVIOUS
  <1>0. g_running \in BOOLEAN /\ main \in {"setup", "wait", "join", "returned"}
    BY DEF OutputInv, OutputTypes, SharedTypeOK
  <1>1. CASE Main \/ signal_handler
    BY <1>1, MainKeepsOutput
  <1>2. CASE InputStep(InputThread \/ TxThread \/ InputClients)
    <2>1. UNCHANGED <<outputVars, main>> /\ UNCHANGED <<mode, use_udp, radio, g_running>>
      BY <1>2, InputLeavesShared DEF InputStep
    <2>. QED  BY <1>0, <2>1, OutputStays
  <1>3. CASE OutputStep(RxThread \/ OutputThread \/ OutputClients)
    <2>1. UNCHANGED main /\ (RxThread \/ OutputThread \/ OutputClients)
      BY <1>3 DEF OutputStep
    <2>2. CASE RxThread
      BY <2>1, <2>2, RxMovesKeep, RxRecvKeeps, RxDecodeKeeps DEF RxThread
    <2>. QED  BY <2>1, <2>2, OutputThreadKeeps, OutputClientsKeep
  <1>4. CASE UNCHANGED vars
    BY <1>0, <1>4, OutputStays DEF vars, shared
  <1>. QED  BY <1>1, <1>2, <1>3, <1>4 DEF Next

(* The bound on the buffer is the one of the attempt under way.              *)
LEMMA OutputInvImplies == OutputInv => ReceivedInOrder /\ OutputDelivered
  <1> SUFFICES ASSUME OutputInv PROVE ReceivedInOrder /\ OutputDelivered
    OBVIOUS
  <1>1. OutputTypeOK /\ DecodedInOrder /\ OutStreams /\ DrainedAtExit
    BY DEF OutputInv, OutputTypes
  <1>2. RxBufferBounded
    <2>1. /\ samples_since_last_decode \in 0 .. MinDecode /\ MinDecode \in Nat
          /\ MaxBuffer \in Nat /\ Len(rx_buffer) \in Nat
      BY <1>1, OutputAssumption DEF OutputTypeOK
    <2>2. Len(rx_buffer) <= MaxBuffer + samples_since_last_decode
      BY DEF OutputInv, RxBufferKept
    <2>. QED  BY <2>1, <2>2 DEF RxBufferBounded
  <1>. QED  BY <1>1, <1>2 DEF ReceivedInOrder, OutputDelivered

(* OutputInv is an invariant of the modem.                                   *)
THEOREM OutputInvariant == Spec => []OutputInv
  BY InitOutput, NextOutput, PTL DEF Spec

(* rx_thread_fn: the buffer stays bounded, and payloads leave it in the      *)
(* order of their bursts, once each.                                         *)
THEOREM ModemReceivesInOrder == Spec => []ReceivedInOrder
  BY OutputInvariant, OutputInvImplies, PTL

(* tcp_output_thread_fn and write_to_all: every client gets every payload    *)
(* from its accept on, whichever of the others are removed meanwhile; at the *)
(* end the queue holds late payloads only.                                   *)
THEOREM ModemDeliversOutput == Spec => []OutputDelivered
  BY OutputInvariant, OutputInvImplies, PTL

-----------------------------------------------------------------------------
(* The receiving half: what leaves the buffer undecoded.                     *)

(* The step that LostOnlyBehindAnother allows.                               *)
ForAGoodReason ==
  \A i \in Starts(rx_buffer) :
    \/ ~Sure(rx_buffer, i)
         /\ ~(/\ i + Cardinality(Parts(rx_buffer, i)) = Len(rx_buffer) + 1
              /\ ~Whole(rx_buffer, i) /\ rx_buffer[i].of <= MaxBuffer \div 2 + 1)
    \/ \E j \in Starts(rx_buffer) : j < i
    \/ \A j \in Parts(rx_buffer, i) : Contains(rx_buffer', rx_buffer[j])
    \/ Whole(rx_buffer, i) /\ rx_buffer' = <<>>

(* A burst that is still coming in is all there is from its beginning on.    *)
LEMMA ComingIn ==
  ASSUME NEW B \in Seq(Batch), NEW i \in 1 .. Len(B),
         i + Cardinality(Parts(B, i)) = Len(B) + 1
  PROVE  Parts(B, i) = i .. Len(B)
  <1>1. i \in Int /\ Len(B) \in Int /\ i <= Len(B)
    OBVIOUS
  <1>2. IsFiniteSet(i .. Len(B)) /\ Cardinality(i .. Len(B)) = Len(B) - i + 1
    BY <1>1, FS_Interval
  <1>3. Parts(B, i) \in SUBSET (i .. Len(B))
    BY DEF Parts
  <1>4. IsFiniteSet(Parts(B, i)) /\ (Cardinality(i .. Len(B)) = Cardinality(Parts(B, i))
                                       => i .. Len(B) = Parts(B, i))
    BY <1>2, <1>3, FS_Subset
  <1>5. Cardinality(Parts(B, i)) \in Nat
    BY <1>4, FS_CardinalityType
  <1>6. Cardinality(Parts(B, i)) = Len(B) - i + 1
    BY <1>1, <1>5
  <1>. QED  BY <1>2, <1>4, <1>6

(* An attempt that fails: the first burst was not sure to be found, and the  *)
(* parts of one that is coming in are among those that are kept.             *)
LEMMA FailureKeeps ==
  ASSUME NEW B \in Seq(Batch), MayFail(B), NEW i \in Starts(B), \A j \in Starts(B) : ~(j < i),
         NEW S, S = Trimmed(B)
  PROVE  \/ /\ ~Sure(B, i)
            /\ ~(/\ i + Cardinality(Parts(B, i)) = Len(B) + 1
                 /\ ~Whole(B, i) /\ B[i].of <= MaxBuffer \div 2 + 1)
         \/ \A j \in Parts(B, i) : Contains(S, B[j])
  <1>1. i \in 1 .. Len(B) /\ B[i] \in Batch /\ Len(B) \in Nat /\ MaxBuffer \in Nat
    BY OutputAssumption DEF Starts
  <1>2. \A j \in Starts(B) : i <= j
    <2>1. \A j \in Starts(B) : j \in Nat
      BY DEF Starts
    <2>. QED  BY <1>1, <2>1
  <1>3. ~Sure(B, i)
    BY <1>2 DEF MayFail
  <1>4. SUFFICES ASSUME i + Cardinality(Parts(B, i)) = Len(B) + 1,
                        ~Whole(B, i), B[i].of <= MaxBuffer \div 2 + 1
                 PROVE  \A j \in Parts(B, i) : Contains(S, B[j])
    BY <1>3, Zenon
  <1>5. Parts(B, i) = i .. Len(B)
    BY <1>1, <1>4, ComingIn
  <1>6. PICK n \in Nat : n = B[i].of
    BY <1>1 DEF Batch
  <1>7. PICK h \in Nat : h = MaxBuffer \div 2
    BY <1>1
  <1>8. PICK k \in 1 .. n : i + k - 1 \notin Parts(B, i)
    BY <1>4, <1>6 DEF Whole
  <1>9. Len(B) - i + 1 <= h
    <2>1. i + k - 1 > Len(B)
      BY <1>1, <1>5, <1>8
    <2>2. n <= h + 1
      BY <1>4, <1>6, <1>7
    <2>. QED  BY <1>1, <2>1, <2>2
  <1>10. /\ S \in Seq(Batch) /\ Len(S) <= Len(B)
         /\ \A m \in DOMAIN S : S[m] = B[m + (Len(B) - Len(S))]
         /\ Len(S) = Len(B) \/ Len(S) = h
    <2>1. /\ Trimmed(B) \in Seq(Batch) /\ Len(Trimmed(B)) <= Len(B)
          /\ \A m \in DOMAIN Trimmed(B) : Trimmed(B)[m] = B[m + (Len(B) - Len(Trimmed(B)))]
          /\ Len(B) <= MaxBuffer => Trimmed(B) = B
          /\ Len(B) > MaxBuffer => Len(Trimmed(B)) = MaxBuffer \div 2
      BY TrimmedIs
    <2>2. Len(B) <= MaxBuffer \/ Len(B) > MaxBuffer
      BY <1>1
    <2>3. Len(S) = Len(B) \/ Len(S) = h
      BY <1>7, <2>1, <2>2
    <2>. QED  BY <2>1, <2>3
  <1>11. ASSUME NEW j \in i .. Len(B) PROVE Contains(S, B[j])
    <2>1. PICK m \in Int : m = j - (Len(B) - Len(S)) /\ m + (Len(B) - Len(S)) = j
      <3>1. Len(S) \in Nat /\ j \in Nat
        BY <1>1, <1>10
      <3>2. j - (Len(B) - Len(S)) \in Int /\ (j - (Len(B) - Len(S))) + (Len(B) - Len(S)) = j
        BY <1>1, <3>1
      <3>. QED  BY <3>2
    <2>2. m \in 1 .. Len(S)
      <3>1. Len(S) \in Nat /\ j <= Len(B) /\ i <= j /\ j \in Nat /\ i >= 1
        BY <1>1, <1>10
      <3>2. CASE Len(S) = Len(B)
        BY <1>1, <2>1, <3>1, <3>2
      <3>3. CASE Len(S) = h
        BY <1>1, <1>9, <2>1, <3>1, <3>3
      <3>. QED  BY <1>10, <3>2, <3>3
    <2>3. S[m] = B[j]
      <3>1. m \in DOMAIN S
        BY <1>10, <2>2
      <3>. QED  BY <1>10, <2>1, <3>1
    <2>. QED  BY <2>2, <2>3 DEF Contains
  <1>. QED  BY <1>5, <1>11

(* A burst that is decoded is the first one, or those before it are neither  *)
(* sure to be found nor still coming in: it begins behind them.              *)
LEMMA DecodedFirst ==
  ASSUME NEW B \in Seq(Batch), NEW d \in Decodable(B), NEW i \in Starts(B),
         \A j \in Starts(B) : ~(j < i)
  PROVE  \/ /\ ~Sure(B, i)
            /\ ~(i + Cardinality(Parts(B, i)) = Len(B) + 1)
         \/ Whole(B, i)
  <1>1. i \in 1 .. Len(B) /\ d \in 1 .. Len(B) /\ d \in Starts(B) /\ Len(B) \in Nat
    BY DEF Starts, Decodable
  <1>2. CASE d = i
    BY <1>2 DEF Decodable
  <1>3. CASE d # i
    <2>1. i < d
      BY <1>1, <1>3
    <2>2. ~Sure(B, i)
      BY <2>1 DEF Decodable
    <2>3. ASSUME i + Cardinality(Parts(B, i)) = Len(B) + 1 PROVE FALSE
      <3>1. d \in Parts(B, i)
        BY <1>1, <2>1, <2>3, ComingIn
      <3>2. B[d].part = d - i + 1
        BY <3>1 DEF Parts
      <3>3. B[d].part = 1
        BY <1>1 DEF Starts
      <3>. QED  BY <1>1, <2>1, <3>2, <3>3
    <2>. QED  BY <2>2, <2>3
  <1>. QED  BY <1>2, <1>3

(* Every step that changes rx_buffer is of that kind.                        *)
LEMMA LeavesForAGoodReason == OutputInv /\ [Next]_vars => [ForAGoodReason]_rx_buffer
  <1> SUFFICES ASSUME OutputInv, [Next]_vars, rx_buffer' # rx_buffer PROVE ForAGoodReason
    OBVIOUS
  <1>0. rx_buffer \in Seq(Batch)
    BY DEF OutputInv, OutputTypes, OutputTypeOK, Batch
  <1>1. RxRecv \/ RxDecode
    <2>1. CASE Main \/ signal_handler
      BY <2>1 DEF Main, SetupFails, Setup, Awake, Return, signal_handler, outputVars, rxThread
    <2>2. CASE InputStep(InputThread \/ TxThread \/ InputClients)
      BY <2>2 DEF InputStep, outputVars, rxThread
    <2>3. CASE OutputStep(RxThread \/ OutputThread \/ OutputClients)
      <3>1. CASE RxThread
        BY <3>1 DEF RxThread, RxStart, RxIdle, RxTop
      <3>2. CASE OutputThread
        BY <3>2 DEF OutputThread, OutEnd, OutPoll, OutPop, OutDrained, OutLastPop, OutLast,
                    OutDatagram, OutWrite, OutWritten, OutGo, Drain, OutWriteTo, rxThread
      <3>3. CASE OutputClients
        BY <3>3 DEF OutputClients, ClientTurns, rxThread
      <3>. QED  BY <2>3, <3>1, <3>2, <3>3 DEF OutputStep
    <2>4. CASE UNCHANGED vars
      BY <2>4 DEF vars, outputVars, rxThread
    <2>. QED  BY <2>1, <2>2, <2>3, <2>4 DEF Next
  <1>2. CASE RxRecv
    <2>1. rx_buffer' = Append(rx_buffer, air')
      BY <1>2 DEF RxRecv
    <2>2. \A j \in 1 .. Len(rx_buffer) : Contains(rx_buffer', rx_buffer[j])
      <3>1. Len(rx_buffer') = Len(rx_buffer) + 1 /\ Len(rx_buffer) \in Nat
            /\ \A j \in 1 .. Len(rx_buffer) : rx_buffer'[j] = rx_buffer[j]
        BY <1>0, <2>1
      <3>2. \A j \in 1 .. Len(rx_buffer) : j \in 1 .. Len(rx_buffer')
        BY <3>1
      <3>. QED  BY <3>1, <3>2 DEF Contains
    <2>3. \A i \in Starts(rx_buffer) : Parts(rx_buffer, i) \subseteq 1 .. Len(rx_buffer)
      BY <1>0 DEF Starts, Parts
    <2>. QED  BY <2>2, <2>3 DEF ForAGoodReason
  <1>3. CASE RxDecode
    <2> SUFFICES ASSUME NEW i \in Starts(rx_buffer), \A j \in Starts(rx_buffer) : ~(j < i)
                 PROVE  \/ ~Sure(rx_buffer, i)
                             /\ ~(/\ i + Cardinality(Parts(rx_buffer, i)) = Len(rx_buffer) + 1
                                  /\ ~Whole(rx_buffer, i)
                                  /\ rx_buffer[i].of <= MaxBuffer \div 2 + 1)
                        \/ \A j \in Parts(rx_buffer, i) : Contains(rx_buffer', rx_buffer[j])
                        \/ Whole(rx_buffer, i) /\ rx_buffer' = <<>>
      BY DEF ForAGoodReason
    <2>1. PICK B \in Seq(Batch) : B = rx_buffer
      BY <1>0
    <2>2. i \in Starts(B) /\ \A j \in Starts(B) : ~(j < i)
      BY <2>1
    <2>3. CASE \E d \in Decodable(rx_buffer) : rx_buffer' = <<>>
      <3>1. PICK d \in Decodable(B) : rx_buffer' = <<>>
        BY <2>1, <2>3
      <3>2. \/ ~Sure(B, i) /\ ~(i + Cardinality(Parts(B, i)) = Len(B) + 1)
            \/ Whole(B, i)
        BY <2>2, DecodedFirst
      <3>. QED  BY <2>1, <3>1, <3>2
    <2>4. CASE MayFail(rx_buffer) /\ rx_buffer' = Trimmed(rx_buffer)
      <3>1. PICK S : S = Trimmed(B) /\ S = rx_buffer'
        BY <2>1, <2>4
      <3>2. MayFail(B)
        BY <2>1, <2>4
      <3>3. \/ /\ ~Sure(B, i)
               /\ ~(/\ i + Cardinality(Parts(B, i)) = Len(B) + 1
                    /\ ~Whole(B, i) /\ B[i].of <= MaxBuffer \div 2 + 1)
            \/ \A j \in Parts(B, i) : Contains(S, B[j])
        BY <2>2, <3>1, <3>2, FailureKeeps
      <3>. QED  BY <2>1, <3>1, <3>3
    <2>. QED  BY <1>3, <2>3, <2>4 DEF RxDecode, DecodeThen
  <1>. QED  BY <1>1, <1>2, <1>3

(* rx_thread_fn: a clean burst leaves the buffer undecoded only behind       *)
(* another one that was decoded or hid it.                                   *)
THEOREM ModemLosesBehindAnother == Spec => LostOnlyBehindAnother
  <1>1. OutputInv /\ [Next]_vars => [ForAGoodReason]_rx_buffer
    BY LeavesForAGoodReason
  <1>. QED  BY <1>1, OutputInvariant, PTL DEF Spec, LostOnlyBehindAnother, ForAGoodReason

-----------------------------------------------------------------------------
(* The transmitting half: the inductive invariant.                           *)

Bytes == Seq(Nat \X Nat)
Offer == [data : Bytes, kept : BOOLEAN]

(* Types.                                                                    *)
InputTypes ==
  /\ SharedTypeOK /\ main \in {"setup", "wait", "join", "returned"}
  /\ client_fd_ \in 0 .. Len(conn) /\ buffer_ \in Bytes
  /\ was_connected \in BOOLEAN /\ last_buffered \in 0 .. FrameSize
  /\ in_pc \in {"none", "top", "recv", "frames", "done"}
  /\ tx_pc \in {"none", "top", "send", "done"} /\ payload \in Bytes
  /\ input_to_tx \in Seq(Bytes) /\ Len(input_to_tx) <= TxCapacity
  /\ conn \in Seq({"open", "fin", "reset", "replaced"}) /\ written \in Seq(Nat)
  /\ backlog \in Seq(1 .. Len(conn)) /\ Len(written) = Len(conn)
  /\ datagrams \in Seq(Bytes) /\ inputs \in Nat
  /\ taken \in Bytes /\ offered \in Seq(Offer) /\ handled \in Seq(Bytes)

(* Where the input thread stands with its client: what a client left behind  *)
(* is there only until the round ends, in which it went.                     *)
InputPlaces ==
  /\ main = "setup" => in_pc = "none" /\ tx_pc = "none"
  /\ in_pc = "none" => buffer_ = <<>> /\ client_fd_ = 0 /\ ~was_connected
  /\ use_udp => buffer_ = <<>> /\ in_pc \in {"none", "top", "done"}
  /\ in_pc = "top" => (was_connected <=> client_fd_ # 0)
  /\ in_pc = "recv" => was_connected /\ client_fd_ # 0
  /\ client_fd_ = 0 /\ buffer_ # <<>> => in_pc = "frames" /\ was_connected

(* A change of connections within a frame is a replacement; and so it is     *)
(* between the buffer and what the client c writes next.                     *)
Joined(cn, data) ==
  /\ \A j \in 1 .. Len(data) : data[j][1] \in 1 .. Len(cn)
  /\ \A j \in 1 .. Len(data) - 1 :
       data[j][1] # data[j + 1][1] => cn[data[j][1]] = "replaced"
JoinedTo(cn, data, c) ==
  c # 0 /\ data # <<>> /\ data[Len(data)][1] # c => cn[data[Len(data)][1]] = "replaced"
BufferJoined ==
  ~use_udp =>
    /\ Joined(conn, buffer_) /\ JoinedTo(conn, buffer_, client_fd_)
    /\ \A i \in DOMAIN offered : Joined(conn, offered[i].data)

(* The frames of a list of offers, and of those that the queue has taken.    *)
FramesOf(o) == [i \in DOMAIN o |-> o[i].data]
KeptOf(o) == FramesOf(Without(o, Dropped))

(* What the transmitting thread has in its hand.                             *)
InHand == IF tx_pc = "send" THEN <<payload>> ELSE <<>>

InputInv ==
  /\ InputTypes /\ InputPlaces /\ BufferJoined /\ InputConserved /\ PayloadsFit /\ TransmitOrder

-----------------------------------------------------------------------------
(* The transmitting half: lists of bytes and of frames.                      *)

(* One frame more is offered.                                                *)
LEMMA OfferAppend ==
  ASSUME NEW o \in Seq(Offer), NEW x \in Offer
  PROVE  /\ FramesOf(o) \in Seq(Bytes)
         /\ FramesOf(Append(o, x)) = Append(FramesOf(o), x.data)
  <1>1. x.data \in Bytes /\ \A i \in 1 .. Len(o) : o[i] \in Offer
    <2>1. x.data \in Bytes
      BY DEF Offer
    <2>2. \A i \in 1 .. Len(o) : o[i] \in Offer
      BY ElementIn
    <2>. QED  BY <2>1, <2>2
  <1>2. \A i \in 1 .. Len(o) : o[i].data \in Bytes
    BY <1>1 DEF Offer
  <1>3. DOMAIN o = 1 .. Len(o) /\ Len(o) \in Nat
    OBVIOUS
  <1>4. PICK t \in Seq(Offer) : /\ t = Append(o, x) /\ Len(t) = Len(o) + 1 /\ t[Len(o) + 1] = x
                                /\ \A i \in 1 .. Len(o) : t[i] = o[i]
    <2>1. /\ Append(o, x) \in Seq(Offer) /\ Len(Append(o, x)) = Len(o) + 1
          /\ Append(o, x)[Len(o) + 1] = x /\ \A i \in 1 .. Len(o) : Append(o, x)[i] = o[i]
      BY AppendIs
    <2>. QED  BY <2>1, Zenon
  <1>5. PICK f \in Seq(Bytes) : /\ f = FramesOf(o) /\ Len(f) = Len(o)
                                /\ \A i \in 1 .. Len(o) : f[i] = o[i].data
    <2>1. FramesOf(o) = [i \in 1 .. Len(o) |-> o[i].data]
      BY <1>3 DEF FramesOf
    <2>2. [i \in 1 .. Len(o) |-> o[i].data] \in [1 .. Len(o) -> Bytes]
      BY <1>2
    <2>3. FramesOf(o) \in Seq(Bytes) /\ Len(FramesOf(o)) = Len(o)
      BY <1>3, <2>1, <2>2
    <2>4. \A i \in 1 .. Len(o) : FramesOf(o)[i] = o[i].data
      BY <2>1
    <2>. QED  BY <2>3, <2>4, Zenon
  <1>6. PICK g : g = FramesOf(t) /\ DOMAIN g = 1 .. Len(o) + 1
                 /\ \A i \in 1 .. Len(o) + 1 : g[i] = t[i].data
    <2>1. DOMAIN t = 1 .. Len(o) + 1
      BY <1>4
    <2>2. FramesOf(t) = [i \in 1 .. Len(o) + 1 |-> t[i].data]
      BY <2>1 DEF FramesOf
    <2>. QED  BY <2>2, Zenon
  <1>7. PICK y \in Bytes : y = x.data
    BY <1>1
  <1>8. PICK h \in Seq(Bytes) : /\ h = Append(f, y) /\ Len(h) = Len(f) + 1 /\ h[Len(f) + 1] = y
                                /\ \A i \in 1 .. Len(f) : h[i] = f[i]
    <2>1. /\ Append(f, y) \in Seq(Bytes) /\ Len(Append(f, y)) = Len(f) + 1
          /\ Append(f, y)[Len(f) + 1] = y /\ \A i \in 1 .. Len(f) : Append(f, y)[i] = f[i]
      BY AppendIs
    <2>. QED  BY <2>1, Zenon
  <1>9. \A i \in 1 .. Len(o) + 1 : g[i] = h[i]
    <2> SUFFICES ASSUME NEW i \in 1 .. Len(o) + 1 PROVE g[i] = h[i]
      OBVIOUS
    <2>1. i \in 1 .. Len(o) \/ i = Len(o) + 1
      BY <1>3
    <2>. QED  BY <1>4, <1>5, <1>6, <1>7, <1>8, <2>1
  <1>10. g = h
    <2>1. DOMAIN h = 1 .. Len(o) + 1
      BY <1>5, <1>8
    <2>2. g = [i \in 1 .. Len(o) + 1 |-> g[i]]
      BY <1>6, <2>1 DEF FramesOf
    <2>. QED  BY <1>6, <1>9, <2>1, <2>2
  <1>. QED  BY <1>4, <1>5, <1>6, <1>7, <1>8, <1>10

(* It is added to the bytes that were framed, and to the kept ones when the  *)
(* queue takes it.                                                           *)
LEMMA OfferedIs ==
  ASSUME NEW o \in Seq(Offer), NEW x \in Offer
  PROVE  /\ FlattenSeq(FramesOf(o)) \in Bytes
         /\ FlattenSeq(FramesOf(Append(o, x))) = FlattenSeq(FramesOf(o)) \o x.data
         /\ KeptOf(o) \in Seq(Bytes)
         /\ KeptOf(Append(o, x)) = IF x.kept THEN Append(KeptOf(o), x.data) ELSE KeptOf(o)
  <1>1. PICK f \in Seq(Bytes), y \in Bytes :
          f = FramesOf(o) /\ y = x.data /\ FramesOf(Append(o, x)) = Append(f, y)
    BY OfferAppend DEF Offer
  <1>2. FlattenSeq(f) \in Bytes
    BY FlattenTyped DEF Bytes
  <1>3. FlattenSeq(Append(f, y)) = FlattenSeq(f) \o y
    BY FlattenAppend DEF Bytes
  <1>4. PICK k \in Seq(Offer) : k = Without(o, Dropped)
    BY WithoutKeeps
  <1>5. FramesOf(k) \in Seq(Bytes) /\ FramesOf(Append(k, x)) = Append(FramesOf(k), y)
    BY <1>1, OfferAppend
  <1>6. (x \in Dropped) = ~x.kept
    <2>1. x = [data |-> x.data, kept |-> x.kept] /\ x.kept \in BOOLEAN /\ x.data \in Bytes
      BY DEF Offer
    <2>2. x \in Dropped <=> x.kept = FALSE
      <3>1. PICK z \in Bytes, b \in BOOLEAN : b = x.kept /\ x = [data |-> z, kept |-> b]
        BY <2>1
      <3>2. [data |-> z, kept |-> b] \in [data : Bytes, kept : {FALSE}] <=> b = FALSE
        BY <3>1
      <3>. QED  BY <3>1, <3>2 DEF Dropped, Bytes
    <2>. QED  BY <2>1, <2>2
  <1>7. Without(Append(o, x), Dropped) = IF x \in Dropped THEN k ELSE Append(k, x)
    BY <1>4, WithoutAppend
  <1>8. KeptOf(Append(o, x)) = IF x.kept THEN Append(FramesOf(k), y) ELSE FramesOf(k)
    BY <1>5, <1>6, <1>7 DEF KeptOf
  <1>. QED  BY <1>1, <1>2, <1>3, <1>4, <1>5, <1>8 DEF KeptOf

(* Bytes can be joined in any order.                                         *)
LEMMA Associative ==
  ASSUME NEW s \in Bytes, NEW t \in Bytes, NEW u \in Bytes
  PROVE  Cat(Cat(s, t), u) = Cat(s, t \o u) /\ t \o u \in Bytes /\ Cat(s, t) \in Bytes
  <1>1. (s \o t) \o u = s \o (t \o u) /\ t \o u \in Bytes /\ s \o t \in Bytes
    <2>1. PICK T : T = Nat \X Nat
      OBVIOUS
    <2>2. Bytes = Seq(T)
      BY <2>1 DEF Bytes
    <2>3. s \in Seq(T) /\ t \in Seq(T) /\ u \in Seq(T)
      BY <2>2
    <2>4. (s \o t) \o u = s \o (t \o u)
      BY <2>3, ConcatAssociative
    <2>5. t \o u \in Seq(T) /\ s \o t \in Seq(T)
      BY <2>3, ConcatIs
    <2>. QED  BY <2>2, <2>4, <2>5
  <1>. QED  BY <1>1, Zenon DEF Cat

(* A list is its first k members and the others.                             *)
LEMMA CutInTwo ==
  ASSUME NEW s \in Bytes, NEW k \in 0 .. Len(s), NEW t \in Bytes
  PROVE  /\ SubSeq(s, 1, k) \in Bytes /\ SubSeq(s, k + 1, Len(s)) \in Bytes
         /\ Cat(Cat(t, SubSeq(s, 1, k)), SubSeq(s, k + 1, Len(s))) = Cat(t, s)
  <1>1. PICK a \in Bytes : /\ a = SubSeq(s, 1, k) /\ Len(a) = k
                           /\ \A i \in 1 .. k : a[i] = s[i]
    <2>1. /\ SubSeq(s, 1, k) \in Bytes /\ Len(SubSeq(s, 1, k)) = k
          /\ \A i \in 1 .. k : SubSeq(s, 1, k)[i] = s[i]
      BY FirstIs DEF Bytes
    <2>. QED  BY <2>1, Zenon
  <1>2. PICK b \in Bytes : /\ b = SubSeq(s, k + 1, Len(s)) /\ Len(b) = Len(s) - k
                           /\ \A i \in 1 .. Len(s) - k : b[i] = s[k + i]
    <2>1. /\ SubSeq(s, k + 1, Len(s)) \in Bytes /\ Len(SubSeq(s, k + 1, Len(s))) = Len(s) - k
          /\ \A i \in 1 .. Len(s) - k : SubSeq(s, k + 1, Len(s))[i] = s[k + i]
      BY SuffixIs DEF Bytes
    <2>. QED  BY <2>1, Zenon
  <1>3. a \o b = s
    <2>1. PICK T : T = Nat \X Nat
      OBVIOUS
    <2>2. a \in Seq(T) /\ b \in Seq(T) /\ s \in Seq(T)
      BY <2>1 DEF Bytes
    <2>3. PICK r \in Seq(T) : /\ r = a \o b /\ Len(r) = Len(a) + Len(b)
                              /\ \A i \in 1 .. Len(a) : r[i] = a[i]
                              /\ \A i \in 1 .. Len(b) : r[Len(a) + i] = b[i]
      <3>1. /\ a \o b \in Seq(T) /\ Len(a \o b) = Len(a) + Len(b)
            /\ \A i \in 1 .. Len(a) : (a \o b)[i] = a[i]
            /\ \A i \in 1 .. Len(b) : (a \o b)[Len(a) + i] = b[i]
        BY <2>2, ConcatIs
      <3>. QED  BY <3>1, Zenon
    <2>4. Len(s) \in Nat /\ k \in Nat /\ Len(r) = Len(s)
      <3>1. Len(r) = k + (Len(s) - k)
        BY <1>1, <1>2, <2>3, Zenon
      <3>2. Len(s) \in Nat
        BY <2>2
      <3>. QED  BY <3>1, <3>2
    <2>5. ASSUME NEW i \in 1 .. Len(s) PROVE r[i] = s[i]
      <3>1. CASE i <= k
        <4>1. i \in 1 .. k
          BY <2>4, <3>1
        <4>. QED  BY <1>1, <2>3, <4>1
      <3>2. CASE i > k
        <4>1. PICK j \in 1 .. Len(s) - k : i = k + j
          <5>1. i - k \in 1 .. Len(s) - k /\ i = k + (i - k)
            BY <2>4, <3>2
          <5>. QED  BY <5>1
        <4>2. j \in 1 .. Len(b) /\ b[j] = s[k + j]
          BY <1>2, <4>1
        <4>3. r[Len(a) + j] = b[j]
          BY <2>3, <4>2, Zenon
        <4>. QED  BY <1>1, <4>1, <4>2, <4>3, Zenon
      <3>. QED  BY <2>4, <3>1, <3>2
    <2>. QED  BY <2>2, <2>3, <2>4, <2>5, SeqEqual
  <1>4. Cat(Cat(t, a), b) = Cat(t, a \o b)
    BY Associative
  <1>. QED  BY <1>1, <1>2, <1>3, <1>4

(* More connections, and more that are replaced, join what was joined.       *)
LEMMA JoinedStays ==
  ASSUME NEW cn, NEW dn, Len(cn) \in Nat, Len(dn) \in Nat, Len(cn) <= Len(dn),
         \A c \in 1 .. Len(cn) : cn[c] = "replaced" => dn[c] = "replaced",
         NEW data \in Bytes, Joined(cn, data)
  PROVE  Joined(dn, data) /\ \A c : JoinedTo(cn, data, c) => JoinedTo(dn, data, c)
  <1>1. /\ \A j \in 1 .. Len(data) : data[j][1] \in 1 .. Len(cn)
        /\ \A j \in 1 .. Len(data) - 1 : j \in 1 .. Len(data)
        /\ \A j \in 1 .. Len(cn) : j \in 1 .. Len(dn)
        /\ data # <<>> => Len(data) \in 1 .. Len(data)
    <2>1. Len(data) \in Nat /\ (data # <<>> => Len(data) > 0)
      BY DEF Bytes
    <2>2. data # <<>> => Len(data) \in 1 .. Len(data)
      BY <2>1
    <2>3. \A j \in 1 .. Len(data) - 1 : j \in 1 .. Len(data)
      BY <2>1
    <2>4. \A j \in 1 .. Len(cn) : j \in 1 .. Len(dn)
      OBVIOUS
    <2>. QED  BY <2>2, <2>3, <2>4 DEF Joined
  <1>2. Joined(dn, data)
    <2>1. \A j \in 1 .. Len(data) : data[j][1] \in 1 .. Len(dn)
      BY <1>1
    <2>2. \A j \in 1 .. Len(data) - 1 :
            data[j][1] # data[j + 1][1] => dn[data[j][1]] = "replaced"
      BY <1>1 DEF Joined
    <2>. QED  BY <2>1, <2>2 DEF Joined
  <1>3. \A c : JoinedTo(cn, data, c) => JoinedTo(dn, data, c)
    BY <1>1 DEF JoinedTo
  <1>. QED  BY <1>2, <1>3

(* The parts of a list are joined as the list is.                            *)
LEMMA JoinedParts ==
  ASSUME NEW cn, NEW data \in Bytes, Joined(cn, data), NEW k \in 0 .. Len(data), NEW c
  PROVE  /\ Joined(cn, SubSeq(data, 1, k)) /\ Joined(cn, SubSeq(data, k + 1, Len(data)))
         /\ JoinedTo(cn, data, c) => JoinedTo(cn, SubSeq(data, k + 1, Len(data)), c)
  <1>1. PICK a \in Bytes : /\ a = SubSeq(data, 1, k) /\ Len(a) = k
                           /\ \A i \in 1 .. k : a[i] = data[i]
    <2>1. /\ SubSeq(data, 1, k) \in Bytes /\ Len(SubSeq(data, 1, k)) = k
          /\ \A i \in 1 .. k : SubSeq(data, 1, k)[i] = data[i]
      BY FirstIs DEF Bytes
    <2>. QED  BY <2>1, Zenon
  <1>2. PICK b \in Bytes : /\ b = SubSeq(data, k + 1, Len(data)) /\ Len(b) = Len(data) - k
                           /\ \A i \in 1 .. Len(data) - k : b[i] = data[k + i]
    <2>1. /\ SubSeq(data, k + 1, Len(data)) \in Bytes
          /\ Len(SubSeq(data, k + 1, Len(data))) = Len(data) - k
          /\ \A i \in 1 .. Len(data) - k : SubSeq(data, k + 1, Len(data))[i] = data[k + i]
      BY SuffixIs DEF Bytes
    <2>. QED  BY <2>1, Zenon
  <1>3. Len(data) \in Nat /\ k \in Nat /\ k <= Len(data)
    BY DEF Bytes
  <1>4. Joined(cn, a)
    <2>1. \A j \in 1 .. k : j \in 1 .. Len(data)
      BY <1>3
    <2>2. \A j \in 1 .. k - 1 : j \in 1 .. Len(data) - 1 /\ j \in 1 .. k /\ j + 1 \in 1 .. k
      BY <1>3
    <2>. QED  BY <1>1, <2>1, <2>2 DEF Joined
  <1>5. Joined(cn, b)
    <2>1. \A j \in 1 .. Len(b) : j \in 1 .. Len(data) - k /\ k + j \in 1 .. Len(data)
      BY <1>2, <1>3
    <2>2. \A j \in 1 .. Len(b) - 1 : k + j \in 1 .. Len(data) - 1 /\ j \in 1 .. Len(b)
                                     /\ j + 1 \in 1 .. Len(b) /\ k + (j + 1) = (k + j) + 1
      BY <1>2, <1>3
    <2>3. \A j \in 1 .. Len(b) : b[j] = data[k + j]
      BY <1>2, <2>1
    <2>4. \A j \in 1 .. Len(b) : b[j][1] \in 1 .. Len(cn)
      BY <2>1, <2>3 DEF Joined
    <2>5. ASSUME NEW j \in 1 .. Len(b) - 1, b[j][1] # b[j + 1][1]
          PROVE  cn[b[j][1]] = "replaced"
      <3>1. b[j] = data[k + j] /\ b[j + 1] = data[(k + j) + 1] /\ k + j \in 1 .. Len(data) - 1
        BY <2>2, <2>3
      <3>. QED  BY <2>5, <3>1 DEF Joined
    <2>. QED  BY <2>4, <2>5 DEF Joined
  <1>6. ASSUME JoinedTo(cn, data, c) PROVE JoinedTo(cn, b, c)
    <2>1. CASE b = <<>>
      BY <2>1 DEF JoinedTo
    <2>2. CASE b # <<>>
      <3>1. Len(b) \in 1 .. Len(b) /\ Len(b) > 0
        BY <2>2 DEF Bytes
      <3>2. k + Len(b) = Len(data) /\ data # <<>> /\ b[Len(b)] = data[k + Len(b)]
        <4>1. k + Len(b) = Len(data) /\ Len(data) > 0 /\ Len(b) \in 1 .. Len(data) - k
          BY <1>2, <1>3, <3>1
        <4>2. Len(<<>>) = 0
          OBVIOUS
        <4>3. data # <<>>
          BY <4>1, <4>2
        <4>4. b[Len(b)] = data[k + Len(b)]
          BY <1>2, <4>1, Zenon
        <4>. QED  BY <4>1, <4>3, <4>4
      <3>. QED  BY <1>6, <3>2 DEF JoinedTo
    <2>. QED  BY <2>1, <2>2
  <1>. QED  BY <1>1, <1>2, <1>4, <1>5, <1>6

(* What the client c writes is joined to a buffer that is joined to it.      *)
LEMMA JoinedNext ==
  ASSUME NEW cn, NEW data \in Bytes, Joined(cn, data), NEW c \in 1 .. Len(cn), c # 0,
         JoinedTo(cn, data, c), NEW more \in Bytes, more # <<>>,
         \A i \in 1 .. Len(more) : more[i][1] = c
  PROVE  Joined(cn, data \o more) /\ JoinedTo(cn, data \o more, c)
  <1>1. PICK s \in Bytes : /\ s = data \o more /\ Len(s) = Len(data) + Len(more)
                           /\ \A i \in 1 .. Len(data) : s[i] = data[i]
                           /\ \A i \in 1 .. Len(more) : s[Len(data) + i] = more[i]
    <2>1. /\ data \o more \in Bytes /\ Len(data \o more) = Len(data) + Len(more)
          /\ \A i \in 1 .. Len(data) : (data \o more)[i] = data[i]
          /\ \A i \in 1 .. Len(more) : (data \o more)[Len(data) + i] = more[i]
      BY ConcatIs DEF Bytes
    <2>. QED  BY <2>1, Zenon
  <1>2. Len(data) \in Nat /\ Len(more) \in Nat /\ Len(more) > 0
    BY DEF Bytes
  <1>3. ASSUME NEW i \in 1 .. Len(s)
        PROVE  (i \in 1 .. Len(data) /\ s[i] = data[i]) \/ (i > Len(data) /\ s[i][1] = c)
    <2>1. CASE i <= Len(data)
      BY <1>1, <1>2, <2>1
    <2>2. CASE i > Len(data)
      <3>1. PICK j \in 1 .. Len(more) : i = Len(data) + j
        <4>1. i - Len(data) \in 1 .. Len(more) /\ i = Len(data) + (i - Len(data))
          BY <1>1, <1>2, <2>2
        <4>. QED  BY <4>1
      <3>2. s[i] = more[j] /\ more[j][1] = c
        BY <1>1, <3>1
      <3>. QED  BY <2>2, <3>2
    <2>. QED  BY <1>2, <2>1, <2>2
  <1>4. \A i \in 1 .. Len(s) : s[i][1] \in 1 .. Len(cn)
    BY <1>3 DEF Joined
  <1>5. ASSUME NEW i \in 1 .. Len(s) - 1, s[i][1] # s[i + 1][1]
        PROVE  cn[s[i][1]] = "replaced"
    <2>1. i \in 1 .. Len(s) /\ i + 1 \in 1 .. Len(s) /\ i + 1 > i
      BY <1>1, <1>2
    <2>2. CASE i > Len(data)
      <3>1. s[i][1] = c
        <4>1. ~(i \in 1 .. Len(data))
          BY <1>2, <2>2
        <4>. QED  BY <1>3, <2>1, <4>1
      <3>2. s[i + 1][1] = c
        <4>1. ~(i + 1 \in 1 .. Len(data))
          BY <1>2, <2>2
        <4>. QED  BY <1>3, <2>1, <4>1
      <3>. QED  BY <1>5, <3>1, <3>2
    <2>3. CASE i = Len(data)
      <3>1. s[i] = data[Len(data)] /\ data # <<>>
        <4>1. i \in 1 .. Len(data) /\ Len(data) # 0
          BY <1>2, <2>3
        <4>2. Len(<<>>) = 0
          OBVIOUS
        <4>. QED  BY <1>1, <2>3, <4>1, <4>2
      <3>2. s[i + 1][1] = c
        <4>1. ~(i + 1 \in 1 .. Len(data))
          BY <1>2, <2>3
        <4>. QED  BY <1>3, <2>1, <4>1
      <3>. QED  BY <1>5, <3>1, <3>2 DEF JoinedTo
    <2>4. CASE i < Len(data)
      <3>1. i \in 1 .. Len(data) - 1 /\ i \in 1 .. Len(data) /\ i + 1 \in 1 .. Len(data)
        BY <1>2, <2>4
      <3>2. s[i] = data[i] /\ s[i + 1] = data[i + 1]
        BY <1>1, <3>1
      <3>. QED  BY <1>5, <3>1, <3>2 DEF Joined
    <2>. QED  BY <1>2, <2>2, <2>3, <2>4
  <1>6. Joined(cn, s)
    BY <1>4, <1>5 DEF Joined
  <1>7. s[Len(s)][1] = c
    <2>1. Len(s) = Len(data) + Len(more) /\ Len(more) \in 1 .. Len(more)
      BY <1>1, <1>2
    <2>. QED  BY <1>1, <2>1
  <1>8. JoinedTo(cn, s, c)
    BY <1>7 DEF JoinedTo
  <1>. QED  BY <1>1, <1>6, <1>8

-----------------------------------------------------------------------------
(* The transmitting half: each step.                                         *)

(* The conservation of bytes and the order of frames, in the terms above.    *)
LEMMA InTheseTerms ==
  /\ InputConserved <=> IF in_pc = "done" THEN IsPrefix(FlattenSeq(FramesOf(offered)), taken)
                        ELSE Cat(FlattenSeq(FramesOf(offered)), buffer_) = taken
  /\ TransmitOrder <=> KeptOf(offered) = Cat(handled \o InHand, input_to_tx)
  BY DEF InputConserved, TransmitOrder, FramesOf, KeptOf, InHand, Cat

(* The same after a step.                                                    *)
LEMMA InTheseTermsNext ==
  /\ InputConserved' <=> IF in_pc' = "done" THEN IsPrefix(FlattenSeq(FramesOf(offered')), taken')
                         ELSE Cat(FlattenSeq(FramesOf(offered')), buffer_') = taken'
  /\ TransmitOrder' <=> KeptOf(offered') = Cat(handled' \o InHand', input_to_tx')
  BY DEF InputConserved, TransmitOrder, FramesOf, KeptOf, InHand, Cat

(* What is left alone stays conserved and in order.                          *)
LEMMA FramesStay ==
  ASSUME InputInv, UNCHANGED <<offered, use_udp>>
  PROVE  /\ PayloadsFit'
         /\ UNCHANGED <<in_pc, taken, buffer_>> => InputConserved'
         /\ UNCHANGED <<tx_pc, payload, handled, input_to_tx>> => TransmitOrder'
  BY DEF InputInv, PayloadsFit, InputConserved, TransmitOrder

(* Nothing of the transmitting half changes.                                 *)
LEMMA InputStays ==
  ASSUME InputInv, UNCHANGED <<inputVars, mode, use_udp, radio>>, g_running' \in BOOLEAN,
         main' \in {"setup", "wait", "join", "returned"}, main' = "setup" => main = "setup"
  PROVE  InputInv'
  <1>1. /\ UNCHANGED <<client_fd_, buffer_, was_connected, last_buffered, in_pc, input_to_tx>>
        /\ UNCHANGED <<tx_pc, payload, handled, backlog, conn, written, datagrams, inputs>>
        /\ UNCHANGED <<taken, offered, mode, use_udp, radio>>
    BY DEF inputVars, server, loop, txThread, clients
  <1>2. InputTypes'
    BY <1>1 DEF InputInv, InputTypes, SharedTypeOK
  <1>3. InputPlaces'
    BY <1>1 DEF InputInv, InputPlaces
  <1>4. BufferJoined'
    BY <1>1 DEF InputInv, BufferJoined
  <1>5. InputConserved' /\ PayloadsFit' /\ TransmitOrder'
    BY <1>1, FramesStay
  <1>. QED  BY <1>2, <1>3, <1>4, <1>5 DEF InputInv

(* The modem starts with nothing read.                                       *)
LEMMA InitInput == Init => InputInv
  <1> SUFFICES ASSUME Init PROVE InputInv
    OBVIOUS
  <1>1. /\ client_fd_ = 0 /\ buffer_ = <<>> /\ was_connected = FALSE /\ last_buffered = 0
        /\ in_pc = "none" /\ input_to_tx = <<>> /\ tx_pc = "none" /\ payload = <<>>
        /\ backlog = <<>> /\ conn = <<>> /\ written = <<>> /\ datagrams = <<>> /\ inputs = 0
        /\ taken = <<>> /\ offered = <<>> /\ handled = <<>> /\ main = "setup"
    BY DEF Init, InputInit
  <1>2. FrameSize \in Nat /\ TxCapacity \in Nat
    BY InputAssumption
  <1>3. /\ \A T : <<>> \in Seq(T)
        /\ Len(<<>>) = 0 /\ DOMAIN <<>> = {} /\ <<>> \o <<>> = <<>>
    OBVIOUS
  <1>4. <<>> \in Bytes
    BY DEF Bytes
  <1>5. InputTypes
    <2>1. SharedTypeOK
      BY DEF Init, SharedTypeOK
    <2>2. 0 \in 0 .. Len(<<>>) /\ 0 \in 0 .. FrameSize /\ Len(<<>>) <= TxCapacity
      BY <1>2, <1>3
    <2>3. /\ client_fd_ \in 0 .. Len(conn) /\ last_buffered \in 0 .. FrameSize
          /\ Len(input_to_tx) <= TxCapacity /\ Len(written) = Len(conn) /\ inputs \in Nat
      BY <1>1, <2>2
    <2>4. /\ input_to_tx \in Seq(Bytes) /\ conn \in Seq({"open", "fin", "reset", "replaced"})
          /\ written \in Seq(Nat) /\ backlog \in Seq(1 .. Len(conn)) /\ datagrams \in Seq(Bytes)
          /\ offered \in Seq(Offer) /\ handled \in Seq(Bytes)
      BY <1>1, <1>3
    <2>. QED  BY <1>1, <1>4, <2>1, <2>3, <2>4 DEF InputTypes
  <1>6. InputPlaces
    BY <1>1 DEF InputPlaces
  <1>7. BufferJoined
    BY <1>1, <1>3 DEF BufferJoined, Joined, JoinedTo
  <1>8. FramesOf(<<>>) = <<>>
    BY <1>3 DEF FramesOf
  <1>9. InputConserved
    BY <1>1, <1>3, <1>8, FlattenEmpty, InTheseTerms DEF Cat
  <1>10. PayloadsFit
    BY <1>1, <1>3 DEF PayloadsFit
  <1>11. TransmitOrder
    BY <1>1, <1>3, <1>8, WithoutEmpty, InTheseTerms DEF Cat, KeptOf, InHand
  <1>. QED  BY <1>5, <1>6, <1>7, <1>9, <1>10, <1>11 DEF InputInv

(* Steps of main().                                                          *)
LEMMA MainKeepsInput ==
  ASSUME InputInv, Main \/ signal_handler
  PROVE  InputInv'
  <1>1. CASE SetupFails \/ Awake \/ signal_handler
    <2>1. g_running \in BOOLEAN /\ main \in {"setup", "wait", "join", "returned"}
      BY DEF InputInv, InputTypes, SharedTypeOK
    <2>2. UNCHANGED <<inputVars, mode, use_udp, radio>> /\ g_running' \in BOOLEAN
      BY <1>1, <2>1 DEF SetupFails, Awake, signal_handler, shared
    <2>3. main' \in {"setup", "wait", "join", "returned"} /\ (main' = "setup" => main = "setup")
      BY <1>1, <2>1 DEF SetupFails, Awake, signal_handler
    <2>. QED  BY <2>2, <2>3, InputStays
  <1>2. CASE Setup
    <2>1. /\ main = "setup" /\ main' = "wait" /\ in_pc = "none" /\ tx_pc = "none"
          /\ in_pc' \in {"none", "top"} /\ tx_pc' \in {"none", "top"}
          /\ UNCHANGED <<client_fd_, buffer_, was_connected, last_buffered, input_to_tx>>
          /\ UNCHANGED <<payload, handled, backlog, conn, written, datagrams, inputs>>
          /\ UNCHANGED <<taken, offered, mode, use_udp, radio, g_running>>
      BY <1>2 DEF Setup, shared, server, loop, clients, InputInv, InputPlaces
    <2>2. InputTypes'
      BY <2>1 DEF InputInv, InputTypes, SharedTypeOK
    <2>3. InputPlaces'
      BY <2>1 DEF InputInv, InputPlaces
    <2>4. BufferJoined'
      BY <2>1 DEF InputInv, BufferJoined
    <2>5. InputConserved'
      BY <2>1, InTheseTerms, InTheseTermsNext DEF InputInv
    <2>6. TransmitOrder'
      <3>1. InHand' = InHand
        BY <2>1 DEF InHand
      <3>. QED  BY <2>1, <3>1, InTheseTerms, InTheseTermsNext DEF InputInv
    <2>. QED  BY <2>1, <2>2, <2>3, <2>4, <2>5, <2>6, FramesStay DEF InputInv
  <1>3. CASE Return
    <2>1. /\ main' = "returned" /\ in_pc \in {"none", "done"}
          /\ client_fd_' = 0 /\ buffer_' = <<>>
          /\ UNCHANGED <<was_connected, last_buffered, in_pc, input_to_tx, tx_pc>>
          /\ UNCHANGED <<payload, handled, backlog, conn, written, datagrams, inputs>>
          /\ UNCHANGED <<taken, offered, mode, use_udp, radio, g_running>>
      BY <1>3 DEF Return, Ended, shared, loop, txThread, clients
    <2>2. InputTypes'
      <3>1. buffer_' \in Bytes
        BY <2>1 DEF Bytes
      <3>2. client_fd_' \in 0 .. Len(conn')
        BY <2>1 DEF InputInv, InputTypes
      <3>. QED  BY <2>1, <3>1, <3>2 DEF InputInv, InputTypes, SharedTypeOK
    <2>3. InputPlaces'
      BY <2>1 DEF InputInv, InputPlaces
    <2>4. BufferJoined'
      <3>1. Joined(conn, <<>>) /\ JoinedTo(conn, <<>>, 0)
        BY DEF Joined, JoinedTo
      <3>. QED  BY <2>1, <3>1 DEF InputInv, BufferJoined
    <2>5. InputConserved'
      <3>1. in_pc = "none" => buffer_ = <<>>
        BY DEF InputInv, InputPlaces
      <3>. QED  BY <2>1, <3>1, InTheseTerms, InTheseTermsNext DEF InputInv
    <2>6. TransmitOrder' /\ PayloadsFit'
      BY <2>1, FramesStay
    <2>. QED  BY <2>2, <2>3, <2>4, <2>5, <2>6 DEF InputInv
  <1>. QED  BY <1>1, <1>2, <1>3 DEF Main

(* try_push(): the frame is offered, and the queue takes it when there is    *)
(* room.                                                                     *)
LEMMA PushIs ==
  ASSUME InputInv, NEW frame \in Bytes, Push(frame), UNCHANGED <<tx_pc, payload, handled, use_udp>>
  PROVE  /\ offered' \in Seq(Offer)
         /\ input_to_tx' \in Seq(Bytes) /\ Len(input_to_tx') <= TxCapacity
         /\ FlattenSeq(FramesOf(offered)) \in Bytes
         /\ FlattenSeq(FramesOf(offered')) = Cat(FlattenSeq(FramesOf(offered)), frame)
         /\ TransmitOrder'
         /\ frame # <<>> /\ (~use_udp => Len(frame) <= FrameSize) => PayloadsFit'
         /\ \A cn : (/\ \A i \in DOMAIN offered : Joined(cn, offered[i].data)
                     /\ Joined(cn, frame))
                      => \A i \in DOMAIN offered' : Joined(cn, offered'[i].data)
  <1>1. PICK o \in Seq(Offer) : o = offered
    BY DEF InputInv, InputTypes
  <1>2. PICK q \in Seq(Bytes) : q = input_to_tx /\ Len(q) <= TxCapacity
    BY DEF InputInv, InputTypes
  <1>3. PICK room \in BOOLEAN : room <=> Len(q) < TxCapacity
    OBVIOUS
  <1>4. PICK x \in Offer : x = [data |-> frame, kept |-> room] /\ x.data = frame /\ x.kept = room
    <2>1. [data |-> frame, kept |-> room] \in Offer
      BY DEF Offer
    <2>. QED  BY <2>1
  <1>5. /\ offered' = Append(o, x)
        /\ input_to_tx' = IF room THEN Append(q, frame) ELSE q
    <2>1. (Len(q) < TxCapacity) = room
      BY <1>3
    <2>. QED  BY <1>1, <1>2, <1>4, <2>1 DEF Push
  <1>6. PICK p \in Seq(Offer) : /\ p = Append(o, x) /\ Len(p) = Len(o) + 1 /\ p[Len(o) + 1] = x
                                /\ \A i \in 1 .. Len(o) : p[i] = o[i]
    <2>1. /\ Append(o, x) \in Seq(Offer) /\ Len(Append(o, x)) = Len(o) + 1
          /\ Append(o, x)[Len(o) + 1] = x /\ \A i \in 1 .. Len(o) : Append(o, x)[i] = o[i]
      BY AppendIs
    <2>. QED  BY <2>1, Zenon
  <1>7. /\ FlattenSeq(FramesOf(o)) \in Bytes
        /\ FlattenSeq(FramesOf(Append(o, x))) = FlattenSeq(FramesOf(o)) \o x.data
        /\ KeptOf(o) \in Seq(Bytes)
        /\ KeptOf(Append(o, x)) = IF x.kept THEN Append(KeptOf(o), x.data) ELSE KeptOf(o)
    BY OfferedIs
  <1>8. input_to_tx' \in Seq(Bytes) /\ Len(input_to_tx') <= TxCapacity
    <2>1. CASE room
      <3>1. Append(q, frame) \in Seq(Bytes) /\ Len(Append(q, frame)) = Len(q) + 1
        BY AppendIs
      <3>2. Len(q) \in Nat /\ TxCapacity \in Nat /\ Len(q) < TxCapacity
        BY <1>3, <2>1, InputAssumption
      <3>. QED  BY <1>5, <2>1, <3>1, <3>2
    <2>2. CASE ~room
      BY <1>2, <1>5, <2>2
    <2>. QED  BY <2>1, <2>2
  <1>9. TransmitOrder'
    <2>1. PICK h \in Seq(Bytes) : h = handled \o InHand
      <3>1. InHand \in Seq(Bytes)
        BY DEF InHand, InputInv, InputTypes
      <3>2. handled \in Seq(Bytes)
        BY DEF InputInv, InputTypes
      <3>3. handled \o InHand \in Seq(Bytes)
        BY <3>1, <3>2, ConcatIs
      <3>. QED  BY <3>3
    <2>2. handled' \o InHand' = h
      BY <2>1 DEF InHand
    <2>3. KeptOf(o) = Cat(h, q)
      BY <1>1, <1>2, <2>1, InTheseTerms DEF InputInv
    <2>4. CASE room
      <3>1. Append(Cat(h, q), frame) = Cat(h, Append(q, frame))
        BY AppendBehind
      <3>. QED  BY <1>4, <1>5, <1>7, <2>2, <2>3, <2>4, <3>1, InTheseTermsNext
    <2>5. CASE ~room
      BY <1>4, <1>5, <1>7, <2>2, <2>3, <2>5, InTheseTermsNext
    <2>. QED  BY <2>4, <2>5
  <1>10. DOMAIN o = 1 .. Len(o) /\ DOMAIN p = 1 .. Len(o) + 1 /\ Len(o) \in Nat
    BY <1>6
  <1>11. \A i \in DOMAIN p : (i \in DOMAIN o /\ p[i] = o[i]) \/ p[i] = x
    <2>1. \A i \in 1 .. Len(o) + 1 : i \in 1 .. Len(o) \/ i = Len(o) + 1
      BY <1>10
    <2>. QED  BY <1>6, <1>10, <2>1
  <1>12. frame # <<>> /\ (~use_udp => Len(frame) <= FrameSize) => PayloadsFit'
    <2>1. \A i \in DOMAIN o : o[i].data # <<>> /\ (~use_udp => Len(o[i].data) <= FrameSize)
      BY <1>1 DEF InputInv, PayloadsFit
    <2>. QED  BY <1>4, <1>5, <1>6, <1>11, <2>1 DEF PayloadsFit
  <1>13. ASSUME NEW cn, \A i \in DOMAIN offered : Joined(cn, offered[i].data), Joined(cn, frame)
         PROVE  \A i \in DOMAIN offered' : Joined(cn, offered'[i].data)
    BY <1>1, <1>4, <1>5, <1>6, <1>11, <1>13
  <1>. QED  BY <1>1, <1>5, <1>6, <1>7, <1>4, <1>8, <1>9, <1>12, <1>13 DEF Cat

(* The bytes that are framed.                                                *)
LEMMA SentTyped ==
  ASSUME InputInv
  PROVE  FlattenSeq(FramesOf(offered)) \in Bytes
  <1>1. offered \in Seq(Offer)
    BY DEF InputInv, InputTypes
  <1>2. [data |-> <<>>, kept |-> TRUE] \in Offer
    BY DEF Offer, Bytes
  <1>. QED  BY <1>1, <1>2, OfferedIs

(* The first of two lists begins the two together.                           *)
LEMMA PrefixIs ==
  ASSUME NEW s \in Bytes, NEW b \in Bytes
  PROVE  IsPrefix(s, s \o b)
  <1>1. PICK T : T = Nat \X Nat
    OBVIOUS
  <1>2. s \in Seq(T) /\ b \in Seq(T)
    BY <1>1 DEF Bytes
  <1>3. PICK t \in Seq(T) : /\ t = s \o b /\ Len(t) = Len(s) + Len(b)
                            /\ \A i \in 1 .. Len(s) : t[i] = s[i]
    <2>1. /\ s \o b \in Seq(T) /\ Len(s \o b) = Len(s) + Len(b)
          /\ \A i \in 1 .. Len(s) : (s \o b)[i] = s[i]
      BY <1>2, ConcatIs
    <2>. QED  BY <2>1, Zenon
  <1>4. Len(s) \in Nat /\ Len(b) \in Nat
    BY <1>2
  <1>5. PICK n \in Nat, m \in Nat : n = Len(s) /\ m = Len(t) /\ n <= m
    <2>1. Len(t) \in Nat /\ Len(s) <= Len(s) + Len(b)
      BY <1>3, <1>4
    <2>2. Len(s) <= Len(t)
      BY <1>3, <2>1, Zenon
    <2>. QED  BY <1>4, <2>1, <2>2
  <1>6. n \in 0 .. Len(s) /\ n \in 0 .. Len(t)
    BY <1>5
  <1>7. /\ SubSeq(s, 1, n) \in Seq(T) /\ Len(SubSeq(s, 1, n)) = n
        /\ \A i \in 1 .. n : SubSeq(s, 1, n)[i] = s[i]
    BY <1>2, <1>6, FirstIs
  <1>8. /\ SubSeq(t, 1, n) \in Seq(T) /\ Len(SubSeq(t, 1, n)) = n
        /\ \A i \in 1 .. n : SubSeq(t, 1, n)[i] = t[i]
    BY <1>6, FirstIs
  <1>9. SubSeq(s, 1, n) = SubSeq(t, 1, n)
    <2>1. \A i \in 1 .. n : SubSeq(s, 1, n)[i] = SubSeq(t, 1, n)[i]
      BY <1>3, <1>5, <1>7, <1>8, Zenon
    <2>. QED  BY <1>7, <1>8, <2>1, SeqEqual
  <1>. QED  BY <1>3, <1>5, <1>9 DEF IsPrefix

(* The input thread ends: what is buffered then is not sent.                 *)
LEMMA InEndKeeps ==
  ASSUME InputInv, InEnd, UNCHANGED main
  PROVE  InputInv'
  <1>1. /\ in_pc = "top" /\ in_pc' = "done"
        /\ UNCHANGED <<client_fd_, buffer_, was_connected, last_buffered, input_to_tx>>
        /\ UNCHANGED <<tx_pc, payload, handled, backlog, conn, written, datagrams, inputs>>
        /\ UNCHANGED <<taken, offered, mode, use_udp, radio, g_running, main>>
    BY DEF InEnd, shared, server, loop, txThread, clients
  <1>2. InputTypes'
    BY <1>1 DEF InputInv, InputTypes, SharedTypeOK
  <1>3. InputPlaces'
    BY <1>1 DEF InputInv, InputPlaces
  <1>4. BufferJoined'
    BY <1>1 DEF InputInv, BufferJoined
  <1>5. InputConserved'
    <2>1. PICK s \in Bytes : s = FlattenSeq(FramesOf(offered))
      BY SentTyped
    <2>2. PICK b \in Bytes, t \in Bytes : b = buffer_ /\ t = taken
      BY DEF InputInv, InputTypes
    <2>3. s \o b = t
      BY <1>1, <2>1, <2>2, InTheseTerms DEF InputInv, Cat
    <2>4. IsPrefix(s, t)
      BY <2>3, PrefixIs
    <2>. QED  BY <1>1, <2>1, <2>2, <2>4, InTheseTermsNext
  <1>6. TransmitOrder' /\ PayloadsFit'
    BY <1>1, FramesStay
  <1>. QED  BY <1>2, <1>3, <1>4, <1>5, <1>6 DEF InputInv

(* A connection is accepted: the client before it is replaced, so that its   *)
(* bytes may stand before those of the new one.                              *)
LEMMA AcceptIs ==
  ASSUME InputInv, ~use_udp, in_pc = "top", backlog # <<>>, Accept
  PROVE  /\ client_fd_' \in 1 .. Len(conn) /\ backlog' \in Seq(1 .. Len(conn))
         /\ conn' \in Seq({"open", "fin", "reset", "replaced"}) /\ Len(conn') = Len(conn)
         /\ Joined(conn', buffer_) /\ JoinedTo(conn', buffer_, client_fd_')
         /\ \A i \in DOMAIN offered : Joined(conn', offered[i].data)
  <1>1. /\ conn \in Seq({"open", "fin", "reset", "replaced"}) /\ client_fd_ \in 0 .. Len(conn)
        /\ buffer_ \in Bytes /\ offered \in Seq(Offer) /\ backlog \in Seq(1 .. Len(conn))
    BY DEF InputInv, InputTypes
  <1>2. client_fd_' \in 1 .. Len(conn) /\ backlog' \in Seq(1 .. Len(conn))
    <2>1. PICK V : V = 1 .. Len(conn)
      OBVIOUS
    <2>2. backlog \in Seq(V)
      BY <1>1, <2>1
    <2>3. Head(backlog) \in V /\ Tail(backlog) \in Seq(V)
      BY <2>2
    <2>. QED  BY <2>1, <2>3 DEF Accept
  <1>3. DOMAIN conn = 1 .. Len(conn) /\ Len(conn) \in Nat
    BY <1>1
  <1>4. conn' = [c \in 1 .. Len(conn) |-> IF c = client_fd_ THEN "replaced" ELSE conn[c]]
    BY <1>3 DEF Accept
  <1>5. conn' \in Seq({"open", "fin", "reset", "replaced"}) /\ Len(conn') = Len(conn)
    <2>1. \A c \in 1 .. Len(conn) : conn[c] \in {"open", "fin", "reset", "replaced"}
      BY <1>1
    <2>2. conn' \in [1 .. Len(conn) -> {"open", "fin", "reset", "replaced"}]
      BY <1>4, <2>1
    <2>. QED  BY <1>3, <2>2
  <1>6. \A c \in 1 .. Len(conn) : /\ conn[c] = "replaced" => conn'[c] = "replaced"
                                  /\ c = client_fd_ => conn'[c] = "replaced"
    BY <1>4
  <1>7. PICK cn, dn : cn = conn /\ dn = conn'
    OBVIOUS
  <1>8. \A data \in Bytes : Joined(conn, data) => Joined(conn', data)
    <2>1. /\ Len(cn) \in Nat /\ Len(dn) \in Nat /\ Len(cn) <= Len(dn)
          /\ \A c \in 1 .. Len(cn) : cn[c] = "replaced" => dn[c] = "replaced"
      BY <1>3, <1>5, <1>6, <1>7
    <2>2. ASSUME NEW data \in Bytes, Joined(cn, data) PROVE Joined(dn, data)
      BY <2>1, <2>2, JoinedStays
    <2>. QED  BY <1>7, <2>2
  <1>9. Joined(conn', buffer_)
    BY <1>1, <1>8 DEF InputInv, BufferJoined
  <1>10. \A i \in DOMAIN offered : Joined(conn', offered[i].data)
    <2>1. \A i \in DOMAIN offered : offered[i] \in Offer
      BY <1>1
    <2>2. \A i \in DOMAIN offered : offered[i].data \in Bytes
      BY <2>1 DEF Offer
    <2>. QED  BY <1>8, <2>2 DEF InputInv, BufferJoined
  <1>11. JoinedTo(conn', buffer_, client_fd_')
    <2>1. CASE buffer_ = <<>>
      BY <2>1 DEF JoinedTo
    <2>2. CASE buffer_ # <<>>
      <3>1. client_fd_ # 0
        BY <2>2 DEF InputInv, InputPlaces
      <3>2. Len(buffer_) \in 1 .. Len(buffer_)
        <4>1. Len(buffer_) \in Nat /\ Len(buffer_) > 0
          BY <1>1, <2>2 DEF Bytes
        <4>. QED  BY <4>1
      <3>3. PICK b \in 1 .. Len(conn) : b = buffer_[Len(buffer_)][1]
        BY <3>2 DEF InputInv, BufferJoined, Joined
      <3>4. b = client_fd_ \/ conn[b] = "replaced"
        BY <2>2, <3>1, <3>3 DEF InputInv, BufferJoined, JoinedTo
      <3>5. conn'[b] = "replaced"
        BY <1>6, <3>4
      <3>. QED  BY <3>3, <3>5 DEF JoinedTo
    <2>. QED  BY <2>1, <2>2
  <1>. QED  BY <1>2, <1>5, <1>9, <1>10, <1>11

(* poll(): perhaps a connection is accepted, and perhaps recv() is called.   *)
LEMMA InPollKeeps ==
  ASSUME InputInv, InPoll, UNCHANGED main
  PROVE  InputInv'
  <1>1. /\ in_pc = "top" /\ ~use_udp /\ in_pc' \in {"frames", "recv"}
        /\ in_pc' = "recv" => client_fd_ # 0
        /\ UNCHANGED <<buffer_, was_connected, last_buffered, input_to_tx>>
        /\ UNCHANGED <<tx_pc, payload, handled, written, datagrams, inputs>>
        /\ UNCHANGED <<taken, offered, mode, use_udp, radio, g_running, main>>
    BY DEF InPoll, shared, loop, txThread
  <1>2. InputConserved' /\ PayloadsFit' /\ TransmitOrder'
    BY <1>1, FramesStay, InTheseTerms, InTheseTermsNext DEF InputInv
  <1>3. CASE UNCHANGED <<client_fd_, backlog, conn>>
    <2>1. InputTypes'
      BY <1>1, <1>3 DEF InputInv, InputTypes, SharedTypeOK
    <2>2. InputPlaces'
      BY <1>1, <1>3 DEF InputInv, InputPlaces
    <2>3. BufferJoined'
      BY <1>1, <1>3 DEF InputInv, BufferJoined
    <2>. QED  BY <1>2, <2>1, <2>2, <2>3 DEF InputInv
  <1>4. CASE backlog # <<>> /\ Accept
    <2>1. /\ client_fd_' \in 1 .. Len(conn) /\ backlog' \in Seq(1 .. Len(conn))
          /\ conn' \in Seq({"open", "fin", "reset", "replaced"}) /\ Len(conn') = Len(conn)
          /\ Joined(conn', buffer_) /\ JoinedTo(conn', buffer_, client_fd_')
          /\ \A i \in DOMAIN offered : Joined(conn', offered[i].data)
      BY <1>1, <1>4, AcceptIs
    <2>2. client_fd_' \in 0 .. Len(conn') /\ client_fd_' # 0
      <3>1. Len(conn) \in Nat
        BY DEF InputInv, InputTypes
      <3>. QED  BY <2>1, <3>1
    <2>3. InputTypes'
      BY <1>1, <2>1, <2>2 DEF InputInv, InputTypes, SharedTypeOK
    <2>4. InputPlaces'
      BY <1>1, <2>2 DEF InputInv, InputPlaces
    <2>5. BufferJoined'
      BY <1>1, <2>1 DEF BufferJoined
    <2>. QED  BY <1>2, <2>3, <2>4, <2>5 DEF InputInv
  <1>. QED  BY <1>3, <1>4 DEF InPoll

(* What a client has written and the server has not read.                    *)
LEMMA UnreadIs ==
  ASSUME taken \in Bytes, NEW c, NEW w, w = written[c]
  PROVE  \E l \in Nat : Unread(c) = w - l
  <1>1. PICK s \in Seq(Nat \X Nat) : s = taken
    BY DEF Bytes
  <1>2. Len(SelectSeq(s, LAMBDA byte : byte[1] = c)) \in Nat
    OBVIOUS
  <1>3. Unread(c) = w - Len(SelectSeq(s, LAMBDA byte : byte[1] = c))
    BY <1>1 DEF Unread
  <1>. QED  BY <1>2, <1>3, Zenon

(* recv(): bytes of the client, or its end.                                  *)
LEMMA InRecvKeeps ==
  ASSUME InputInv, InRecv, UNCHANGED main
  PROVE  InputInv'
  <1>1. /\ in_pc = "recv" /\ in_pc' = "frames"
        /\ UNCHANGED <<was_connected, last_buffered, input_to_tx>>
        /\ UNCHANGED <<tx_pc, payload, handled, backlog, conn, written, datagrams, inputs>>
        /\ UNCHANGED <<offered, mode, use_udp, radio, g_running, main>>
    BY DEF InRecv, shared, loop, txThread, clients
  <1>2. ~use_udp /\ was_connected /\ client_fd_ # 0
    BY <1>1 DEF InputInv, InputPlaces
  <1>3. TransmitOrder' /\ PayloadsFit'
    BY <1>1, FramesStay
  <1>4. CASE Disconnect
    <2>1. client_fd_' = 0 /\ UNCHANGED <<buffer_, taken>>
      BY <1>4 DEF Disconnect
    <2>2. InputTypes'
      <3>1. 0 \in 0 .. Len(conn)
        BY DEF InputInv, InputTypes
      <3>. QED  BY <1>1, <2>1, <3>1 DEF InputInv, InputTypes, SharedTypeOK
    <2>3. InputPlaces'
      BY <1>1, <1>2, <2>1 DEF InputInv, InputPlaces
    <2>4. BufferJoined'
      BY <1>1, <1>2, <2>1 DEF InputInv, BufferJoined, JoinedTo
    <2>5. InputConserved'
      BY <1>1, <2>1, InTheseTerms, InTheseTermsNext DEF InputInv
    <2>. QED  BY <1>3, <2>2, <2>3, <2>4, <2>5 DEF InputInv
  <1>5. CASE conn[client_fd_] # "reset" /\ Unread(client_fd_) > 0
    <2>1. PICK c \in 1 .. Len(conn) : c = client_fd_ /\ c \in Nat /\ c # 0
      <3>1. Len(conn) \in Nat /\ client_fd_ \in 0 .. Len(conn)
        BY DEF InputInv, InputTypes
      <3>. QED  BY <1>2, <3>1
    <2>2. PICK w \in Nat : w = written[c]
      <3>1. written \in Seq(Nat) /\ Len(written) = Len(conn)
        BY DEF InputInv, InputTypes
      <3>2. c \in 1 .. Len(written)
        BY <3>1
      <3>3. written[c] \in Nat
        BY <3>1, <3>2
      <3>. QED  BY <3>3
    <2>3. PICK l \in Nat : Unread(c) = w - l
      BY <2>2, UnreadIs DEF InputInv, InputTypes
    <2>4. PICK n \in Nat : /\ n = (IF Unread(c) < RecvMax THEN Unread(c) ELSE RecvMax)
                           /\ n >= 1
      <3>1. RecvMax \in Nat \ {0}
        BY InputAssumption
      <3>2. CASE Unread(c) < RecvMax
        <4>1. Unread(c) \in Nat /\ Unread(c) >= 1
          BY <1>5, <2>1, <2>3
        <4>. QED  BY <3>2, <4>1
      <3>3. CASE ~(Unread(c) < RecvMax)
        BY <3>1, <3>3
      <3>. QED  BY <3>2, <3>3
    <2>5. w - Unread(c) = l
      BY <2>3
    <2>6. PICK bytes : bytes = [i \in 1 .. n |-> <<c, l + i>>]
      OBVIOUS
    <2>7. /\ buffer_' = buffer_ \o bytes /\ taken' = taken \o bytes
          /\ UNCHANGED client_fd_
      <3>1. /\ buffer_' = buffer_ \o [i \in 1 .. n |-> <<c, (w - Unread(c)) + i>>]
            /\ taken' = taken \o [i \in 1 .. n |-> <<c, (w - Unread(c)) + i>>]
            /\ UNCHANGED client_fd_
        BY <1>5, <2>1, <2>2, <2>4 DEF InRecv
      <3>. QED  BY <2>5, <2>6, <3>1
    <2>8. bytes \in Bytes /\ Len(bytes) = n /\ \A i \in 1 .. n : bytes[i][1] = c
      <3>1. \A i \in 1 .. n : <<c, l + i>> \in Nat \X Nat /\ <<c, l + i>>[1] = c
        BY <2>1
      <3>2. bytes \in [1 .. n -> Nat \X Nat]
        BY <2>6, <3>1
      <3>3. bytes \in Bytes /\ Len(bytes) = n
        BY <3>2 DEF Bytes
      <3>. QED  BY <2>6, <3>1, <3>3
    <2>9. PICK b \in Bytes, t \in Bytes : b = buffer_ /\ t = taken
      BY DEF InputInv, InputTypes
    <2>10. PICK s \in Bytes : s = FlattenSeq(FramesOf(offered))
      BY SentTyped
    <2>11. Cat(s, b) = t
      BY <1>1, <2>9, <2>10, InTheseTerms DEF InputInv
    <2>12. /\ b \o bytes \in Bytes /\ t \o bytes \in Bytes
           /\ Cat(s, b \o bytes) = t \o bytes
      <3>1. Cat(Cat(s, b), bytes) = Cat(s, b \o bytes) /\ b \o bytes \in Bytes
        BY <2>8, Associative
      <3>2. t \o bytes \in Bytes
        BY <2>8, Associative
      <3>3. Cat(Cat(s, b), bytes) = t \o bytes
        BY <2>11, Zenon DEF Cat
      <3>. QED  BY <3>1, <3>2, <3>3
    <2>13. InputTypes'
      BY <1>1, <2>7, <2>9, <2>12 DEF InputInv, InputTypes, SharedTypeOK
    <2>14. InputPlaces'
      BY <1>1, <1>2, <2>7 DEF InputInv, InputPlaces
    <2>15. BufferJoined'
      <3>1. Joined(conn, b) /\ JoinedTo(conn, b, c)
        BY <1>2, <2>1, <2>9 DEF InputInv, BufferJoined
      <3>2. bytes # <<>>
        <4>1. Len(bytes) # 0 /\ Len(<<>>) = 0
          BY <2>4, <2>8
        <4>. QED  BY <4>1
      <3>3. PICK cn : cn = conn
        OBVIOUS
      <3>4. \A i \in 1 .. Len(bytes) : bytes[i][1] = c
        BY <2>8
      <3>5. c \in 1 .. Len(cn) /\ Joined(cn, b) /\ JoinedTo(cn, b, c)
        BY <3>1, <3>3
      <3>6. Joined(cn, b \o bytes) /\ JoinedTo(cn, b \o bytes, c)
        BY <2>1, <2>8, <3>2, <3>4, <3>5, JoinedNext
      <3>. QED  BY <1>1, <1>2, <2>1, <2>7, <2>9, <3>3, <3>6 DEF InputInv, BufferJoined
    <2>16. InputConserved'
      BY <1>1, <2>7, <2>9, <2>10, <2>12, InTheseTermsNext
    <2>. QED  BY <1>3, <2>13, <2>14, <2>15, <2>16 DEF InputInv
  <1>. QED  BY <1>4, <1>5 DEF InRecv

(* A full frame goes from the buffer to the queue.                           *)
LEMMA InFrameKeeps ==
  ASSUME InputInv, InFrame, UNCHANGED main
  PROVE  InputInv'
  <1>1. /\ in_pc = "frames" /\ Len(buffer_) >= FrameSize
        /\ Push(SubSeq(buffer_, 1, FrameSize))
        /\ buffer_' = SubSeq(buffer_, FrameSize + 1, Len(buffer_)) /\ last_buffered' = 0
        /\ UNCHANGED <<client_fd_, was_connected, in_pc, tx_pc, payload, handled>>
        /\ UNCHANGED <<backlog, conn, written, datagrams, inputs, taken>>
        /\ UNCHANGED <<mode, use_udp, radio, g_running, main>>
    BY DEF InFrame, InFrameOf, shared, txThread, clients
  <1>2. ~use_udp
    BY <1>1 DEF InputInv, InputPlaces
  <1>3. FrameSize \in Nat \ {0}
    BY InputAssumption
  <1>4. PICK b \in Bytes, t \in Bytes : b = buffer_ /\ t = taken
    BY DEF InputInv, InputTypes
  <1>5. PICK k \in 0 .. Len(b) : k = FrameSize /\ k # 0
    <2>1. Len(b) \in Nat /\ Len(b) >= FrameSize
      BY <1>1, <1>4 DEF Bytes
    <2>. QED  BY <1>3, <2>1
  <1>6. PICK s \in Bytes : s = FlattenSeq(FramesOf(offered))
    BY SentTyped
  <1>7. PICK frame \in Bytes, rest \in Bytes :
          /\ frame = SubSeq(b, 1, k) /\ rest = SubSeq(b, k + 1, Len(b))
          /\ Cat(Cat(s, frame), rest) = Cat(s, b)
    BY CutInTwo
  <1>8. Push(frame) /\ buffer_' = rest
    BY <1>1, <1>4, <1>5, <1>7
  <1>9. frame # <<>> /\ Len(frame) = FrameSize
    <2>1. Len(SubSeq(b, 1, k)) = k
      BY FirstIs DEF Bytes
    <2>2. Len(<<>>) = 0
      OBVIOUS
    <2>. QED  BY <1>5, <1>7, <2>1, <2>2
  <1>10. /\ offered' \in Seq(Offer)
         /\ input_to_tx' \in Seq(Bytes) /\ Len(input_to_tx') <= TxCapacity
         /\ FlattenSeq(FramesOf(offered')) = Cat(s, frame)
         /\ TransmitOrder'
         /\ frame # <<>> /\ (~use_udp => Len(frame) <= FrameSize) => PayloadsFit'
         /\ \A cn : (/\ \A i \in DOMAIN offered : Joined(cn, offered[i].data)
                     /\ Joined(cn, frame))
                      => \A i \in DOMAIN offered' : Joined(cn, offered'[i].data)
    BY <1>1, <1>6, <1>8, PushIs
  <1>11. PayloadsFit'
    <2>1. Len(frame) <= FrameSize
      BY <1>3, <1>9
    <2>. QED  BY <1>9, <1>10, <2>1
  <1>12. InputTypes'
    <2>1. last_buffered' \in 0 .. FrameSize
      BY <1>1, <1>3
    <2>. QED  BY <1>1, <1>8, <1>10, <2>1 DEF InputInv, InputTypes, SharedTypeOK
  <1>13. InputPlaces'
    <2>1. buffer_ # <<>>
      <3>1. Len(b) # 0 /\ Len(<<>>) = 0
        BY <1>5
      <3>. QED  BY <1>4, <3>1
    <2>. QED  BY <1>1, <1>2, <2>1 DEF InputInv, InputPlaces
  <1>14. BufferJoined'
    <2>1. PICK cn, c : cn = conn /\ c = client_fd_
      OBVIOUS
    <2>2. Joined(cn, b) /\ JoinedTo(cn, b, c) /\ \A i \in DOMAIN offered : Joined(cn, offered[i].data)
      BY <1>2, <1>4, <2>1 DEF InputInv, BufferJoined
    <2>3. Joined(cn, frame) /\ Joined(cn, rest) /\ JoinedTo(cn, rest, c)
      BY <1>7, <2>2, JoinedParts
    <2>4. \A i \in DOMAIN offered' : Joined(cn, offered'[i].data)
      BY <1>10, <2>2, <2>3
    <2>. QED  BY <1>1, <1>8, <2>1, <2>3, <2>4 DEF BufferJoined
  <1>15. InputConserved'
    <2>1. Cat(s, b) = t
      BY <1>1, <1>4, <1>6, InTheseTerms DEF InputInv
    <2>. QED  BY <1>1, <1>4, <1>7, <1>8, <1>10, <2>1, InTheseTermsNext
  <1>. QED  BY <1>10, <1>11, <1>12, <1>13, <1>14, <1>15 DEF InputInv

(* The rest of a round flushes the buffer: the client has gone, or is idle.  *)
LEMMA FlushKeeps ==
  ASSUME InputInv, RestDone, Flush, buffer_ # <<>>, last_buffered' = 0, UNCHANGED main
  PROVE  InputInv'
  <1>1. /\ in_pc = "frames" /\ Len(buffer_) < FrameSize /\ in_pc' = "top"
        /\ was_connected' = (client_fd_ # 0) /\ Push(buffer_) /\ buffer_' = <<>>
        /\ UNCHANGED <<client_fd_, tx_pc, payload, handled>>
        /\ UNCHANGED <<backlog, conn, written, datagrams, inputs, taken>>
        /\ UNCHANGED <<mode, use_udp, radio, g_running, main>>
    BY DEF RestDone, Flush, shared, txThread, clients
  <1>2. ~use_udp
    BY <1>1 DEF InputInv, InputPlaces
  <1>3. PICK b \in Bytes, t \in Bytes : b = buffer_ /\ t = taken
    BY DEF InputInv, InputTypes
  <1>4. PICK s \in Bytes : s = FlattenSeq(FramesOf(offered))
    BY SentTyped
  <1>5. FrameSize \in Nat /\ Len(b) \in Nat /\ Len(b) < FrameSize /\ b # <<>>
    BY <1>1, <1>3, InputAssumption DEF Bytes
  <1>6. /\ offered' \in Seq(Offer)
        /\ input_to_tx' \in Seq(Bytes) /\ Len(input_to_tx') <= TxCapacity
        /\ FlattenSeq(FramesOf(offered')) = Cat(s, b)
        /\ TransmitOrder'
        /\ b # <<>> /\ (~use_udp => Len(b) <= FrameSize) => PayloadsFit'
        /\ \A cn : (/\ \A i \in DOMAIN offered : Joined(cn, offered[i].data)
                    /\ Joined(cn, b))
                     => \A i \in DOMAIN offered' : Joined(cn, offered'[i].data)
    BY <1>1, <1>3, <1>4, PushIs
  <1>7. PayloadsFit'
    <2>1. Len(b) <= FrameSize
      BY <1>5
    <2>. QED  BY <1>5, <1>6, <2>1
  <1>8. InputTypes'
    <2>1. last_buffered' \in 0 .. FrameSize /\ buffer_' \in Bytes
      BY <1>1, <1>5 DEF Bytes
    <2>2. was_connected' \in BOOLEAN
      BY <1>1
    <2>. QED  BY <1>1, <1>6, <2>1, <2>2 DEF InputInv, InputTypes, SharedTypeOK
  <1>9. InputPlaces'
    BY <1>1, <1>2 DEF InputInv, InputPlaces
  <1>10. BufferJoined'
    <2>1. PICK cn, c : cn = conn /\ c = client_fd_
      OBVIOUS
    <2>2. Joined(cn, b) /\ \A i \in DOMAIN offered : Joined(cn, offered[i].data)
      BY <1>2, <1>3, <2>1 DEF InputInv, BufferJoined
    <2>3. Joined(cn, <<>>) /\ JoinedTo(cn, <<>>, c)
      BY DEF Joined, JoinedTo
    <2>4. \A i \in DOMAIN offered' : Joined(cn, offered'[i].data)
      BY <1>6, <2>2
    <2>. QED  BY <1>1, <2>1, <2>3, <2>4 DEF BufferJoined
  <1>11. InputConserved'
    <2>1. Cat(s, b) = t
      BY <1>1, <1>3, <1>4, InTheseTerms DEF InputInv
    <2>2. Cat(t, <<>>) = t
      BY ConcatEmptySeq DEF Cat, Bytes
    <2>. QED  BY <1>1, <1>3, <1>6, <2>1, <2>2, InTheseTermsNext
  <1>. QED  BY <1>6, <1>7, <1>8, <1>9, <1>10, <1>11 DEF InputInv

(* It leaves the buffer: there is nothing, or the client may go on.          *)
LEMMA InWaitKeeps ==
  ASSUME InputInv, InWait, UNCHANGED main
  PROVE  InputInv'
  <1>1. /\ in_pc = "frames" /\ Len(buffer_) < FrameSize /\ in_pc' = "top"
        /\ was_connected' = (client_fd_ # 0) /\ last_buffered' = Len(buffer_)
        /\ UNCHANGED <<client_fd_, buffer_, tx_pc, payload, handled, input_to_tx, offered>>
        /\ UNCHANGED <<backlog, conn, written, datagrams, inputs, taken>>
        /\ UNCHANGED <<mode, use_udp, radio, g_running, main>>
        /\ ~(was_connected /\ client_fd_ = 0 /\ buffer_ # <<>>)
    BY DEF InWait, RestDone, Gone, shared, txThread, clients
  <1>2. InputTypes'
    <2>1. Len(buffer_) \in Nat /\ FrameSize \in Nat
      BY InputAssumption DEF InputInv, InputTypes, Bytes
    <2>2. last_buffered' \in 0 .. FrameSize /\ was_connected' \in BOOLEAN
      BY <1>1, <2>1
    <2>. QED  BY <1>1, <2>2 DEF InputInv, InputTypes, SharedTypeOK
  <1>3. InputPlaces'
    BY <1>1 DEF InputInv, InputPlaces
  <1>4. BufferJoined'
    BY <1>1 DEF InputInv, BufferJoined
  <1>5. InputConserved' /\ TransmitOrder' /\ PayloadsFit'
    BY <1>1, FramesStay, InTheseTerms, InTheseTermsNext DEF InputInv
  <1>. QED  BY <1>2, <1>3, <1>4, <1>5 DEF InputInv

(* A datagram is read, and is a frame unless it is empty.                    *)
LEMMA InDatagramKeeps ==
  ASSUME InputInv, InDatagram, UNCHANGED main
  PROVE  InputInv'
  <1>1. /\ in_pc = "top" /\ use_udp
        /\ UNCHANGED <<client_fd_, buffer_, was_connected, last_buffered, in_pc>>
        /\ UNCHANGED <<tx_pc, payload, handled, backlog, conn, written, inputs>>
        /\ UNCHANGED <<mode, use_udp, radio, g_running, main>>
    BY DEF InDatagram, shared, server, loop, txThread
  <1>2. buffer_ = <<>> /\ client_fd_ \in 0 .. Len(conn) /\ datagrams \in Seq(Bytes)
    BY <1>1 DEF InputInv, InputPlaces, InputTypes
  <1>3. PICK data : /\ datagrams # <<>> /\ data = Head(datagrams) /\ datagrams' = Tail(datagrams)
                    /\ IF data = <<>> THEN UNCHANGED <<input_to_tx, taken, offered>>
                       ELSE Push(data) /\ taken' = taken \o data
    BY DEF InDatagram, recv_datagram
  <1>4. data \in Bytes /\ datagrams' \in Seq(Bytes)
    BY <1>2, <1>3
  <1>5. BufferJoined'
    BY <1>1 DEF BufferJoined
  <1>6. InputPlaces'
    BY <1>1 DEF InputInv, InputPlaces
  <1>7. CASE data = <<>>
    <2>1. UNCHANGED <<input_to_tx, taken, offered>>
      BY <1>3, <1>7
    <2>2. InputTypes'
      BY <1>1, <1>4, <2>1 DEF InputInv, InputTypes, SharedTypeOK
    <2>. QED  BY <1>1, <1>5, <1>6, <2>1, <2>2, FramesStay DEF InputInv
  <1>8. CASE data # <<>>
    <2>1. Push(data) /\ taken' = taken \o data
      BY <1>3, <1>8
    <2>2. PICK s \in Bytes, t \in Bytes : s = FlattenSeq(FramesOf(offered)) /\ t = taken
      BY SentTyped DEF InputInv, InputTypes
    <2>3. /\ offered' \in Seq(Offer)
          /\ input_to_tx' \in Seq(Bytes) /\ Len(input_to_tx') <= TxCapacity
          /\ FlattenSeq(FramesOf(offered')) = Cat(s, data)
          /\ TransmitOrder'
          /\ data # <<>> /\ (~use_udp => Len(data) <= FrameSize) => PayloadsFit'
      BY <1>1, <1>4, <2>1, <2>2, PushIs
    <2>4. t \o data \in Bytes
      BY <1>4, Associative
    <2>5. InputTypes'
      BY <1>1, <1>4, <2>1, <2>2, <2>3, <2>4 DEF InputInv, InputTypes, SharedTypeOK
    <2>6. InputConserved'
      <3>1. Cat(s, <<>>) = t
        BY <1>1, <1>2, <2>2, InTheseTerms DEF InputInv
      <3>2. s = t
        BY <3>1, ConcatEmptySeq DEF Cat, Bytes
      <3>3. t \o data = Cat(Cat(s, data), <<>>)
        <4>1. (t \o data) \o <<>> = t \o data
          BY <2>4, ConcatEmptySeq DEF Bytes
        <4>. QED  BY <3>2, <4>1, Zenon DEF Cat
      <3>. QED  BY <1>1, <1>2, <2>1, <2>2, <2>3, <3>3, InTheseTermsNext
    <2>. QED  BY <1>1, <1>5, <1>6, <1>8, <2>3, <2>5, <2>6 DEF InputInv
  <1>. QED  BY <1>7, <1>8

(* Steps of the input thread.                                                *)
LEMMA InputThreadKeeps ==
  ASSUME InputInv, InputThread, UNCHANGED main
  PROVE  InputInv'
  <1>1. CASE InFlushGone
    <2>1. RestDone /\ Flush /\ buffer_ # <<>> /\ last_buffered' = 0
      BY <1>1 DEF InFlushGone, Gone
    <2>. QED  BY <2>1, FlushKeeps
  <1>2. CASE InFlushIdle
    <2>1. RestDone /\ Flush /\ buffer_ # <<>> /\ last_buffered' = 0
      BY <1>2 DEF InFlushIdle
    <2>. QED  BY <2>1, FlushKeeps
  <1>. QED  BY <1>1, <1>2, InEndKeeps, InPollKeeps, InRecvKeeps, InFrameKeeps, InWaitKeeps,
               InDatagramKeeps DEF InputThread

(* What is handed over is behind what was.                                   *)
LEMMA HandIs ==
  ASSUME NEW T, NEW h \in Seq(T), NEW x \in T
  PROVE  h \o <<>> = h /\ h \o <<x>> = Append(h, x) /\ Append(h, x) \in Seq(T)
  OBVIOUS

(* Steps of the transmitting thread: a frame goes from the head of the queue *)
(* to its hand, and from there to send().                                    *)
LEMMA TxThreadKeeps ==
  ASSUME InputInv, TxThread, UNCHANGED main
  PROVE  InputInv'
  <1>1. /\ UNCHANGED <<client_fd_, buffer_, was_connected, last_buffered, in_pc>>
        /\ UNCHANGED <<backlog, conn, written, datagrams, inputs>>
        /\ UNCHANGED <<taken, offered, mode, use_udp, radio, g_running, main>>
        /\ tx_pc \in {"top", "send"}
    BY DEF TxThread, TxEnd, TxPop, TxSend, shared, server, loop, clients
  <1>2. InputPlaces'
    <2>1. main # "setup"
      BY <1>1 DEF InputInv, InputPlaces
    <2>. QED  BY <1>1, <2>1 DEF InputInv, InputPlaces
  <1>3. BufferJoined'
    BY <1>1 DEF InputInv, BufferJoined
  <1>4. InputConserved' /\ PayloadsFit'
    BY <1>1, FramesStay
  <1>5. PICK h \in Seq(Bytes), q \in Seq(Bytes), y \in Bytes :
          h = handled /\ q = input_to_tx /\ y = payload
    BY DEF InputInv, InputTypes
  <1>6. KeptOf(offered) = Cat(h \o InHand, q)
    BY <1>5, InTheseTerms DEF InputInv
  <1>7. CASE TxEnd
    <2>1. tx_pc = "top" /\ tx_pc' = "done" /\ UNCHANGED <<payload, handled, input_to_tx>>
      BY <1>7 DEF TxEnd
    <2>2. InputTypes'
      BY <1>1, <2>1 DEF InputInv, InputTypes, SharedTypeOK
    <2>3. InHand' = InHand
      BY <2>1 DEF InHand
    <2>4. TransmitOrder'
      BY <1>1, <1>5, <1>6, <2>1, <2>3, InTheseTermsNext
    <2>. QED  BY <1>2, <1>3, <1>4, <2>2, <2>4 DEF InputInv
  <1>8. CASE TxPop
    <2>1. /\ q # <<>> /\ tx_pc = "top" /\ tx_pc' = "send" /\ handled' = h
          /\ payload' = Head(q) /\ input_to_tx' = Tail(q)
      BY <1>5, <1>8 DEF TxPop
    <2>2. /\ Head(q) \in Bytes /\ Tail(q) \in Seq(Bytes)
          /\ Len(Tail(q)) = Len(q) - 1 /\ Len(q) \in Nat
      BY <2>1
    <2>3. InputTypes'
      <3>1. Len(q) <= TxCapacity /\ TxCapacity \in Nat
        BY <1>5, InputAssumption DEF InputInv, InputTypes
      <3>2. Len(input_to_tx') <= TxCapacity
        BY <2>1, <2>2, <3>1
      <3>. QED  BY <1>1, <1>5, <2>1, <2>2, <3>2 DEF InputInv, InputTypes, SharedTypeOK
    <2>4. PICK x \in Bytes : x = Head(q)
      BY <2>2
    <2>5. InHand = <<>> /\ InHand' = <<x>>
      BY <2>1, <2>4 DEF InHand
    <2>6. h \o <<>> = h /\ h \o <<x>> = Append(h, x)
      BY HandIs
    <2>7. Cat(h, q) = Cat(Append(h, x), Tail(q))
      BY <2>1, <2>4, HeadMoves
    <2>8. TransmitOrder'
      BY <1>1, <1>6, <2>1, <2>5, <2>6, <2>7, InTheseTermsNext
    <2>. QED  BY <1>2, <1>3, <1>4, <2>3, <2>8 DEF InputInv
  <1>9. CASE TxSend
    <2>1. /\ tx_pc = "send" /\ tx_pc' = "top" /\ payload' = <<>>
          /\ handled' = Append(h, y) /\ UNCHANGED input_to_tx
      BY <1>5, <1>9 DEF TxSend
    <2>2. h \o <<y>> = Append(h, y) /\ Append(h, y) \in Seq(Bytes)
      BY HandIs
    <2>3. InputTypes'
      <3>1. payload' \in Bytes
        BY <2>1 DEF Bytes
      <3>. QED  BY <1>1, <2>1, <2>2, <3>1 DEF InputInv, InputTypes, SharedTypeOK
    <2>4. InHand = <<y>> /\ InHand' = <<>>
      BY <1>5, <2>1 DEF InHand
    <2>5. PICK g \in Seq(Bytes) : g = Append(h, y)
      BY <2>2
    <2>6. g \o <<>> = g
      BY HandIs
    <2>7. TransmitOrder'
      BY <1>1, <1>5, <1>6, <2>1, <2>2, <2>4, <2>5, <2>6, InTheseTermsNext
    <2>. QED  BY <1>2, <1>3, <1>4, <2>3, <2>7 DEF InputInv
  <1>. QED  BY <1>7, <1>8, <1>9 DEF TxThread

(* Steps of clients and senders of datagrams leave what was read alone.      *)
LEMMA ClientIs ==
  ASSUME InputInv, Client, UNCHANGED main
  PROVE  /\ UNCHANGED <<client_fd_, buffer_, was_connected, last_buffered, in_pc, input_to_tx>>
         /\ UNCHANGED <<tx_pc, payload, handled, taken, offered>>
         /\ UNCHANGED <<mode, use_udp, radio, g_running, main>>
         /\ inputs' \in Nat /\ InputPlaces' /\ InputConserved' /\ PayloadsFit' /\ TransmitOrder'
  <1>1. /\ UNCHANGED <<client_fd_, buffer_, was_connected, last_buffered, in_pc, input_to_tx>>
        /\ UNCHANGED <<tx_pc, payload, handled, taken, offered>>
        /\ UNCHANGED <<mode, use_udp, radio, g_running, main>>
        /\ inputs' = inputs + 1
    BY DEF Client, shared, server, loop, txThread
  <1>2. inputs' \in Nat
    BY <1>1 DEF InputInv, InputTypes
  <1>3. InputPlaces'
    BY <1>1 DEF InputInv, InputPlaces
  <1>4. InputConserved' /\ PayloadsFit' /\ TransmitOrder'
    BY <1>1, FramesStay
  <1>. QED  BY <1>1, <1>2, <1>3, <1>4

(* They may add connections, and no client that was replaced comes back.     *)
LEMMA ConnectionsKeep ==
  ASSUME InputInv, Client, UNCHANGED main,
         conn' \in Seq({"open", "fin", "reset", "replaced"}), Len(conn) <= Len(conn'),
         \A c \in 1 .. Len(conn) : conn[c] = "replaced" => conn'[c] = "replaced",
         written' \in Seq(Nat), Len(written') = Len(conn'),
         backlog' \in Seq(1 .. Len(conn')), datagrams' \in Seq(Bytes)
  PROVE  InputInv'
  <1>1. /\ UNCHANGED <<client_fd_, buffer_, was_connected, last_buffered, in_pc, input_to_tx>>
        /\ UNCHANGED <<tx_pc, payload, handled, taken, offered>>
        /\ UNCHANGED <<mode, use_udp, radio, g_running, main>>
        /\ inputs' \in Nat /\ InputPlaces' /\ InputConserved' /\ PayloadsFit' /\ TransmitOrder'
    BY ClientIs
  <1>2. Len(conn) \in Nat /\ Len(conn') \in Nat
    BY DEF InputInv, InputTypes
  <1>3. InputTypes'
    <2>1. client_fd_ \in 0 .. Len(conn')
      BY <1>2 DEF InputInv, InputTypes
    <2>. QED  BY <1>1, <2>1 DEF InputInv, InputTypes, SharedTypeOK
  <1>4. BufferJoined'
    <2>1. CASE use_udp
      BY <1>1, <2>1 DEF BufferJoined
    <2>2. CASE ~use_udp
      <3>1. PICK cn, dn, c : cn = conn /\ dn = conn' /\ c = client_fd_
        OBVIOUS
      <3>2. /\ Len(cn) \in Nat /\ Len(dn) \in Nat /\ Len(cn) <= Len(dn)
            /\ \A i \in 1 .. Len(cn) : cn[i] = "replaced" => dn[i] = "replaced"
        BY <1>2, <3>1
      <3>3. PICK b \in Bytes, o \in Seq(Offer) : b = buffer_ /\ o = offered
        BY DEF InputInv, InputTypes
      <3>4. /\ Joined(cn, b) /\ JoinedTo(cn, b, c)
            /\ \A i \in DOMAIN o : Joined(cn, o[i].data)
        BY <2>2, <3>1, <3>3 DEF InputInv, BufferJoined
      <3>5. Joined(dn, b) /\ JoinedTo(dn, b, c)
        BY <3>2, <3>4, JoinedStays
      <3>6. ASSUME NEW i \in DOMAIN o PROVE Joined(dn, o[i].data)
        <4>1. o[i] \in Offer
          BY ElementIn
        <4>2. PICK d \in Bytes : d = o[i].data
          BY <4>1 DEF Offer
        <4>3. Joined(cn, d)
          BY <3>4, <4>2
        <4>4. Joined(dn, d)
          BY <3>2, <4>3, JoinedStays
        <4>. QED  BY <4>2, <4>4
      <3>. QED  BY <1>1, <3>1, <3>3, <3>5, <3>6 DEF BufferJoined
    <2>. QED  BY <2>1, <2>2
  <1>. QED  BY <1>1, <1>3, <1>4 DEF InputInv

(* Clients connect, write and go; datagrams come in.                         *)
LEMMA InputClientsKeep ==
  ASSUME InputInv, InputClients, UNCHANGED main
  PROVE  InputInv'
  <1>1. /\ conn \in Seq({"open", "fin", "reset", "replaced"}) /\ Len(conn) \in Nat
        /\ written \in Seq(Nat) /\ Len(written) = Len(conn) /\ backlog \in Seq(1 .. Len(conn))
        /\ datagrams \in Seq(Bytes) /\ inputs \in Nat
    BY DEF InputInv, InputTypes
  <1>2. ASSUME NEW n \in {0, 1}, Connect(n) PROVE InputInv'
    <2>1. /\ Client /\ conn' = Append(conn, "open") /\ written' = Append(written, n)
          /\ backlog' = Append(backlog, Len(conn) + 1) /\ UNCHANGED datagrams
      BY <1>2 DEF Connect
    <2>2. /\ conn' \in Seq({"open", "fin", "reset", "replaced"}) /\ Len(conn') = Len(conn) + 1
          /\ \A c \in 1 .. Len(conn) : conn'[c] = conn[c]
      <3>1. PICK S : S = {"open", "fin", "reset", "replaced"}
        OBVIOUS
      <3>2. conn \in Seq(S) /\ "open" \in S
        BY <1>1, <3>1
      <3>3. /\ Append(conn, "open") \in Seq(S) /\ Len(Append(conn, "open")) = Len(conn) + 1
            /\ \A c \in 1 .. Len(conn) : Append(conn, "open")[c] = conn[c]
        BY <3>2, AppendIs
      <3>. QED  BY <2>1, <3>1, <3>3
    <2>3. written' \in Seq(Nat) /\ Len(written') = Len(conn')
      <3>1. n \in Nat
        OBVIOUS
      <3>2. Append(written, n) \in Seq(Nat) /\ Len(Append(written, n)) = Len(written) + 1
        BY <1>1, <3>1, AppendIs
      <3>. QED  BY <1>1, <2>1, <2>2, <3>2
    <2>4. backlog' \in Seq(1 .. Len(conn'))
      <3>1. PICK V : V = 1 .. Len(conn) + 1
        OBVIOUS
      <3>2. 1 .. Len(conn) \subseteq V /\ Len(conn) + 1 \in V
        BY <1>1, <3>1
      <3>3. PICK W : W = 1 .. Len(conn)
        OBVIOUS
      <3>4. backlog \in Seq(W) /\ W \subseteq V
        BY <1>1, <3>2, <3>3
      <3>5. backlog \in Seq(V)
        BY <3>4
      <3>6. Append(backlog, Len(conn) + 1) \in Seq(V)
        BY <3>2, <3>5, AppendIs
      <3>. QED  BY <2>1, <2>2, <3>1, <3>6
    <2>5. Len(conn) <= Len(conn')
      BY <1>1, <2>2
    <2>. QED  BY <1>1, <2>1, <2>2, <2>3, <2>4, <2>5, ConnectionsKeep
  <1>3. ASSUME NEW c \in DOMAIN conn, NEW n \in {1, RecvMax + 1}, Writes(c, n) PROVE InputInv'
    <2>1. /\ Client /\ UNCHANGED <<backlog, conn, datagrams>>
          /\ written' = [written EXCEPT ![c] = written[c] + n]
      BY <1>3 DEF Writes
    <2>2. n \in Nat /\ c \in 1 .. Len(written)
      BY <1>1, InputAssumption
    <2>3. written' \in Seq(Nat) /\ Len(written') = Len(conn)
      BY <1>1, <2>1, <2>2
    <2>4. Len(conn) <= Len(conn)
      BY <1>1
    <2>. QED  BY <1>1, <2>1, <2>3, <2>4, ConnectionsKeep
  <1>4. ASSUME NEW c \in DOMAIN conn, NEW how \in {"fin", "reset"}, Leaves(c, how) PROVE InputInv'
    <2>1. /\ Client /\ conn[c] = "open" /\ conn' = [conn EXCEPT ![c] = how]
          /\ UNCHANGED <<backlog, written, datagrams>>
      BY <1>4 DEF Leaves
    <2>2. c \in 1 .. Len(conn)
      BY <1>1
    <2>3. /\ conn' \in Seq({"open", "fin", "reset", "replaced"}) /\ Len(conn') = Len(conn)
          /\ \A d \in 1 .. Len(conn) : d # c => conn'[d] = conn[d]
      <3>1. PICK S : S = {"open", "fin", "reset", "replaced"}
        OBVIOUS
      <3>2. conn \in Seq(S) /\ how \in S
        BY <1>1, <3>1
      <3>3. conn' \in Seq(S) /\ Len(conn') = Len(conn)
        BY <2>1, <2>2, <3>2
      <3>4. \A d \in 1 .. Len(conn) : d # c => conn'[d] = conn[d]
        BY <2>1, <2>2, <3>2
      <3>. QED  BY <3>1, <3>3, <3>4
    <2>4. \A d \in 1 .. Len(conn) : conn[d] = "replaced" => conn'[d] = "replaced"
      BY <2>1, <2>3
    <2>5. Len(conn) <= Len(conn')
      BY <1>1, <2>3
    <2>. QED  BY <1>1, <2>1, <2>3, <2>4, <2>5, ConnectionsKeep
  <1>5. ASSUME NEW n \in 0 .. FrameSize + 1, Datagram(n) PROVE InputInv'
    <2>1. /\ Client /\ UNCHANGED <<backlog, conn, written>>
          /\ datagrams' = Append(datagrams, [i \in 1 .. n |-> <<inputs + 1, i>>])
      BY <1>5 DEF Datagram
    <2>2. [i \in 1 .. n |-> <<inputs + 1, i>>] \in Bytes
      <3>1. n \in Nat
        BY InputAssumption
      <3>2. [i \in 1 .. n |-> <<inputs + 1, i>>] \in [1 .. n -> Nat \X Nat]
        BY <1>1, <3>1
      <3>. QED  BY <3>1, <3>2 DEF Bytes
    <2>3. datagrams' \in Seq(Bytes)
      BY <1>1, <2>1, <2>2, AppendIs
    <2>4. Len(conn) <= Len(conn)
      BY <1>1
    <2>. QED  BY <1>1, <2>1, <2>3, <2>4, ConnectionsKeep
  <1>. QED  BY <1>2, <1>3, <1>4, <1>5 DEF InputClients

(* The output half leaves the options and the flag alone.                    *)
LEMMA OutputLeavesShared ==
  ASSUME RxThread \/ OutputThread \/ OutputClients
  PROVE  UNCHANGED <<mode, use_udp, radio, g_running>>
  <1>1. CASE RxThread
    BY <1>1 DEF RxThread, RxStart, RxIdle, RxTop, RxRecv, RxDecode, DecodeThen, shared
  <1>2. CASE OutputThread
    BY <1>2 DEF OutputThread, OutEnd, OutPoll, OutPop, OutDrained, OutLastPop, OutLast,
                OutDatagram, OutWrite, OutWriteTo, OutWritten, OutGo, Drain, shared
  <1>3. CASE OutputClients
    BY <1>3 DEF OutputClients, ClientTurns, shared
  <1>. QED  BY <1>1, <1>2, <1>3

(* Every step of the modem keeps the invariant of the transmitting half.     *)
LEMMA NextInput == InputInv /\ [Next]_vars => InputInv'
  <1> SUFFICES ASSUME InputInv, [Next]_vars PROVE InputInv'
    OBVIOUS
  <1>0. g_running \in BOOLEAN /\ main \in {"setup", "wait", "join", "returned"}
    BY DEF InputInv, InputTypes, SharedTypeOK
  <1>1. CASE Main \/ signal_handler
    BY <1>1, MainKeepsInput
  <1>2. CASE InputStep(InputThread \/ TxThread \/ InputClients)
    BY <1>2, InputThreadKeeps, TxThreadKeeps, InputClientsKeep DEF InputStep
  <1>3. CASE OutputStep(RxThread \/ OutputThread \/ OutputClients)
    <2>1. UNCHANGED <<inputVars, main>> /\ UNCHANGED <<mode, use_udp, radio, g_running>>
      BY <1>3, OutputLeavesShared DEF OutputStep
    <2>. QED  BY <1>0, <2>1, InputStays
  <1>4. CASE UNCHANGED vars
    BY <1>0, <1>4, InputStays DEF vars, shared
  <1>. QED  BY <1>1, <1>2, <1>3, <1>4 DEF Next

(* A change of connections within a frame is a replacement.                  *)
LEMMA InputInvImplies == InputInv => InputSent
  <1> SUFFICES ASSUME InputInv PROVE InputSent
    OBVIOUS
  <1>1. SharedTypeOK /\ InputTypeOK
    BY DEF InputInv, InputTypes, InputTypeOK, Bytes
  <1>2. MixedOnlyByReplacement
    BY DEF InputInv, BufferJoined, Joined, MixedOnlyByReplacement
  <1>. QED  BY <1>1, <1>2 DEF InputInv, InputSent

(* InputInv is an invariant of the modem.                                    *)
THEOREM InputInvariant == Spec => []InputInv
  BY InitInput, NextInput, PTL DEF Spec

(* tcp_input_thread_fn, udp_input_thread_fn and tx_thread_fn: every byte     *)
(* that was read is in one frame or buffered, in its order; frames fit into  *)
(* a burst, mix clients only when one replaced another, and reach the radio  *)
(* in their order, but for those that the full queue refused.                *)
THEOREM ModemSendsInput == Spec => []InputSent
  BY InputInvariant, InputInvImplies, PTL

=============================================================================
