---------------------------- MODULE ModemOutput ----------------------------
(***************************************************************************)
(* The receiving half: the thread that collects samples and decodes them,  *)
(* the queue rx_to_output, and the thread that gives payloads to all       *)
(* clients of src/tcp_output_server.cpp, or sends them with                *)
(* src/udp_output.cpp.  Samples are counted in batches of RX_BATCH_SIZE;   *)
(* LEAD_SAMPLES of silence around each burst is a batch, so that no batch  *)
(* has samples of two bursts and one of silence lies between them.         *)
(***************************************************************************)
EXTENDS ModemShared

CONSTANTS MinDecode,    \* MIN_DECODE_SAMPLES, in batches
          MaxBuffer,    \* MAX_BUFFER_SIZE, in batches
          RxCapacity,   \* capacity of rx_to_output
          BurstLength,  \* batches that a burst takes
          MaxBatches,   \* bound, per setting: batches on the air
          MaxClients,   \* bound, per setting: clients
          MaxUpsets     \* bound, per setting: what goes wrong with clients and reception

ASSUME OutputAssumption ==
  /\ {MinDecode, MaxBuffer, RxCapacity} \subseteq Nat \ {0}
  /\ MaxBuffer % 2 = 0 /\ BurstLength \subseteq Nat \ {0}
  /\ {MaxBatches, MaxClients, MaxUpsets} \subseteq [Setting -> Nat]

VARIABLES
  rx_buffer, samples_since_last_decode,
  rx_pc, rx_to_output,
  out_pc, clients_,
  writing,        \* write_to_all(): the index of the client to be written to next
  air,            \* the batch that was last on the air
  client, upsets, \* per client "ok", "stalled" (it does not read) or "gone"; counter
  got, joined,    \* history: per client the payloads written to it, and how many had
                  \* been popped before it was accepted
  popped, late,   \* history: payloads popped; how many were pushed after the last drain
  batches         \* counter for the bound

rxThread == <<rx_buffer, samples_since_last_decode, rx_pc, air, batches>>
outThread == <<out_pc, clients_, writing, got, joined, popped>>
outputVars == <<rxThread, rx_to_output, outThread, client, upsets, late>>

\* A batch: a part of a burst, which is clean or disturbed, or silence.
Silence == [burst |-> 0, part |-> 0, of |-> 0, clean |-> FALSE]

OutputInit ==
  /\ rx_buffer = <<>> /\ samples_since_last_decode = 0 /\ rx_pc = "none"
  /\ rx_to_output = <<>> /\ out_pc = "none" /\ clients_ = <<>> /\ writing = 0
  /\ air = Silence /\ client = <<>> /\ upsets = 0 /\ got = <<>> /\ joined = <<>>
  /\ popped = <<>> /\ late = 0 /\ batches = 0
-----------------------------------------------------------------------------
(* The air, and what Decoder::decode() makes of a buffer. *)

\* A burst goes on to its end; then there is silence, and then another may begin.
\* `air.burst' counts the bursts.
Follows(next) ==
  IF air.part < air.of THEN next = [air EXCEPT !.part = @ + 1]
  ELSE \/ next = [Silence EXCEPT !.burst = air.burst]
       \/ /\ air.part = 0
          /\ \E n \in BurstLength, c \in BOOLEAN :
               next = [burst |-> air.burst + 1, part |-> 1, of |-> n, clean |-> c]

\* Where in a buffer bursts begin, and those whose parts are all there.
Starts(buffer) == {i \in DOMAIN buffer : buffer[i].part = 1}
Parts(buffer, i) ==  \* batches from i on that belong to the burst that begins there
  {j \in i .. Len(buffer) : /\ buffer[j].burst = buffer[i].burst
                            /\ buffer[j].part = j - i + 1}
Whole(buffer, i) == \A k \in 1 .. buffer[i].of : i + k - 1 \in Parts(buffer, i)
Sure(buffer, i) == Whole(buffer, i) /\ buffer[i].clean

\* The synchroniser takes the first preamble that it finds: a burst is decoded
\* when it is whole, and none before it was sure to be found.
Decodable(buffer) ==
  {i \in Starts(buffer) : Whole(buffer, i) /\ \A j \in Starts(buffer) : j < i => ~Sure(buffer, j)}
\* A disturbed burst, or one of which part is missing, may end the attempt.
MayFail(buffer) ==
  \A i \in Starts(buffer) : (\A j \in Starts(buffer) : i <= j) => ~Sure(buffer, i)
-----------------------------------------------------------------------------
(* rx_thread_fn(). *)

\* start_rx_stream() throws when there is no streamer; the thread then idles.
RxStart ==
  /\ rx_pc = "start"
  /\ rx_pc' = (IF radio = "ok" THEN "top" ELSE "idle")
  /\ UNCHANGED <<shared, rx_buffer, samples_since_last_decode, air, batches, rx_to_output,
                 outThread, client, upsets, late>>
RxIdleOn == rx_pc = "idle" /\ UNCHANGED <<shared, outputVars>>
RxIdle ==
  /\ rx_pc = "idle" /\ ~g_running /\ rx_pc' = "done"
  /\ UNCHANGED <<shared, rx_buffer, samples_since_last_decode, air, batches, rx_to_output,
                 outThread, client, upsets, late>>
RxTop ==
  /\ rx_pc = "top" /\ rx_pc' = (IF g_running THEN "recv" ELSE "done")
  /\ UNCHANGED <<shared, rx_buffer, samples_since_last_decode, air, batches, rx_to_output,
                 outThread, client, upsets, late>>

\* recv() retries for ever while no sample comes.  It returns a batch, or it
\* throws, or the device overflows, and the batch is lost.
RxRecv ==
  /\ rx_pc = "recv"
  /\ IF batches < MaxBatches[setting] THEN batches' = batches + 1 /\ Follows(air')
     ELSE UNCHANGED <<batches, air>>
  /\ \/ /\ batches < MaxBatches[setting]
        /\ rx_buffer' = Append(rx_buffer, air')
        /\ samples_since_last_decode' = samples_since_last_decode + 1
        /\ rx_pc' = IF samples_since_last_decode + 1 < MinDecode THEN "top" ELSE "decode"
        /\ UNCHANGED upsets
     \/ /\ rx_pc' = "top" /\ upsets' = IF upsets < MaxUpsets[setting] THEN upsets + 1 ELSE upsets
        /\ batches < MaxBatches[setting] => upsets < MaxUpsets[setting]
        /\ UNCHANGED <<rx_buffer, samples_since_last_decode>>
  /\ UNCHANGED <<shared, rx_to_output, outThread, client, late>>

\* After a failure, a buffer that is too long keeps its newer part only.
TrimmedShort(buffer) ==
  IF Len(buffer) > MaxBuffer THEN SubSeq(buffer, Len(buffer), Len(buffer)) ELSE buffer
Trimmed(buffer) ==
  IF Len(buffer) > MaxBuffer
    THEN SubSeq(buffer, Len(buffer) - MaxBuffer \div 2 + 1, Len(buffer)) ELSE buffer

\* try_push() of a payload, known by the number of its burst.
RxPush(burst) ==
  IF Len(rx_to_output) < RxCapacity
    THEN /\ rx_to_output' = Append(rx_to_output, burst)
         /\ late' = IF out_pc = "done" THEN late + 1 ELSE late
    ELSE UNCHANGED <<rx_to_output, late>>

DecodeThen(rest) ==
  /\ rx_pc = "decode" /\ rx_pc' = "top" /\ samples_since_last_decode' = 0
  /\ \/ \E i \in Decodable(rx_buffer) : RxPush(rx_buffer[i].burst) /\ rx_buffer' = rest
     \/ /\ MayFail(rx_buffer) /\ rx_buffer' = Trimmed(rx_buffer)
        /\ UNCHANGED <<rx_to_output, late>>
  /\ UNCHANGED <<shared, air, batches, outThread, client, upsets>>
RxDecodeKeep == DecodeThen(rx_buffer)
RxDecode == DecodeThen(<<>>)

RxThread == RxStart \/ RxIdle \/ RxTop \/ RxRecv \/ RxDecode
-----------------------------------------------------------------------------
(* tcp_output_thread_fn() with TcpOutputServer, and udp_output_thread_fn()    *)
(* with UdpOutput.                                                            *)

OutGo(place) ==
  /\ out_pc' = place
  /\ UNCHANGED <<shared, rxThread, rx_to_output, clients_, writing, got, joined, popped, client,
                 upsets, late>>

OutEnd == out_pc = "top" /\ ~g_running /\ OutGo("last")

\* poll_once(): nothing, or one client more.
OutPoll ==
  /\ out_pc = "top" /\ g_running /\ ~use_udp
  /\ \/ OutGo("drain")
     \/ /\ Len(client) < MaxClients[setting] /\ out_pc' = "drain"
        /\ client' = Append(client, "ok") /\ clients_' = Append(clients_, Len(client) + 1)
        /\ got' = Append(got, <<>>) /\ joined' = Append(joined, Len(popped))
        /\ UNCHANGED <<shared, rxThread, rx_to_output, writing, popped, upsets, late>>

\* A payload is popped: in the loop, and after it, "Drain remaining items".
Drain(place, then) ==
  /\ out_pc = place /\ rx_to_output # <<>> /\ out_pc' = then
  /\ rx_to_output' = Tail(rx_to_output) /\ popped' = Append(popped, Head(rx_to_output))
  /\ writing' = Len(clients_)
  /\ UNCHANGED <<shared, rxThread, clients_, got, joined, client, upsets, late>>
OutPop == Drain("drain", "write")
OutDrained == out_pc = "drain" /\ rx_to_output = <<>> /\ OutGo("top")
OutLastPop == Drain("last", IF use_udp THEN "last" ELSE "lastwrite")
OutLast == out_pc = "last" /\ rx_to_output = <<>> /\ OutGo("done")

\* udp_output_thread_fn(): pop_wait(), and send_datagram() whatever it returns.
OutDatagram == g_running /\ use_udp /\ Drain("top", "top")

\* remove_client().
remove_client(i) == clients_' = RemoveAt(clients_, i)

\* write_to_all(), from the last client to the first.  send() blocks for a
\* client that does not read, and fails for one that has gone, which is removed.
OutWriteTo(i, next) ==
  LET c == clients_[i] IN
  /\ client[c] # "stalled" /\ writing' = next
  /\ IF client[c] = "ok"
       THEN got' = [got EXCEPT ![c] = Append(@, Last(popped))] /\ UNCHANGED clients_
       ELSE remove_client(i) /\ UNCHANGED got
  /\ UNCHANGED <<shared, rxThread, rx_to_output, out_pc, joined, popped, client, upsets, late>>
OutWriteSkips ==
  /\ out_pc \in {"write", "lastwrite"} /\ writing > 0
  /\ OutWriteTo(writing, IF client[clients_[writing]] = "gone" /\ writing > 1 THEN writing - 2
                         ELSE writing - 1)
OutWrite == out_pc \in {"write", "lastwrite"} /\ writing > 0 /\ OutWriteTo(writing, writing - 1)
OutWritten ==
  /\ out_pc \in {"write", "lastwrite"} /\ writing = 0
  /\ OutGo(IF out_pc = "write" THEN "drain" ELSE "last")

OutputThread ==
  OutEnd \/ OutPoll \/ OutPop \/ OutDrained \/ OutLastPop \/ OutLast \/ OutDatagram \/ OutWrite
    \/ OutWritten
-----------------------------------------------------------------------------
(* Clients. *)

ClientTurns(c, how) ==
  /\ out_pc # "done" /\ client[c] # "gone" /\ client[c] # how /\ client' = [client EXCEPT ![c] = how]
  /\ IF how = "ok" THEN UNCHANGED upsets
     ELSE upsets < MaxUpsets[setting] /\ upsets' = upsets + 1
  /\ UNCHANGED <<shared, rxThread, rx_to_output, outThread, late>>

OutputClients == \E c \in DOMAIN client, how \in {"ok", "stalled", "gone"} : ClientTurns(c, how)
-----------------------------------------------------------------------------
OutputTypeOK ==
  LET Batch == [burst : Nat, part : Nat, of : Nat, clean : BOOLEAN] IN
  /\ rx_buffer \in Seq(Batch) /\ samples_since_last_decode \in 0 .. MinDecode
  /\ rx_pc \in {"none", "start", "idle", "top", "recv", "decode", "done"}
  /\ rx_to_output \in Seq(Nat) /\ Len(rx_to_output) <= RxCapacity
  /\ out_pc \in {"none", "top", "drain", "write", "last", "lastwrite", "done"}
  /\ clients_ \in Seq(DOMAIN client) /\ writing \in 0 .. Len(clients_)
  /\ client \in Seq({"ok", "stalled", "gone"}) /\ got \in Seq(Seq(Nat))

(* However long nothing can be decoded, rx_buffer stays below MAX_BUFFER_SIZE *)
(* and the samples of one attempt: it is only looked at every                 *)
(* MIN_DECODE_SAMPLES samples.                                                *)
RxBufferBounded == Len(rx_buffer) <= MaxBuffer + MinDecode

(* Payloads come out in the order of their bursts and once each: a burst      *)
(* whose samples stay in rx_buffer is never decoded a second time.            *)
DecodedInOrder ==
  LET out == popped \o rx_to_output
  IN \A i, j \in DOMAIN out : i < j => out[i] < out[j]

(* The receiving thread's buffer is bounded, and no burst is taken from it    *)
(* twice or out of turn.                                                      *)
ReceivedInOrder == OutputTypeOK /\ RxBufferBounded /\ DecodedInOrder

(* A clean burst that has come in whole, or one that is still coming in and   *)
(* takes up to half of MAX_BUFFER_SIZE, leaves rx_buffer undecoded only when  *)
(* another burst lies before it there: one that was decoded, after which the  *)
(* whole buffer is cleared, or one that hid it from the synchroniser.         *)
LostOnlyBehindAnother ==
  [][\A i \in Starts(rx_buffer) :
       \/ ~Sure(rx_buffer, i)
            /\ ~(/\ i + Cardinality(Parts(rx_buffer, i)) = Len(rx_buffer) + 1
                 /\ ~Whole(rx_buffer, i) /\ rx_buffer[i].of <= MaxBuffer \div 2 + 1)
       \/ \E j \in Starts(rx_buffer) : j < i
       \/ \A j \in Parts(rx_buffer, i) : Contains(rx_buffer', rx_buffer[j])
       \/ Whole(rx_buffer, i) /\ rx_buffer' = <<>>]_rx_buffer

(* A client of the output gets every payload from its accept() on, none       *)
(* missing, whichever of the others are removed while they are written to.    *)
OutStreams ==
  \A i \in DOMAIN clients_ :
    got[clients_[i]] = SubSeq(popped, joined[clients_[i]] + 1,
                              Len(popped) - (IF i <= writing THEN 1 ELSE 0))

(* When the output thread has ended, the queue holds the payloads only that   *)
(* were decoded after its last drain: main() joins the receiving thread       *)
(* first, but the output thread does not wait for it.                         *)
DrainedAtExit == out_pc = "done" => Len(rx_to_output) = late

(* Payloads reach every client that is there, to the last one.                *)
OutputDelivered == OutStreams /\ DrainedAtExit

\* send() has been called for a client that does not read.
OutputParked ==
  out_pc \in {"write", "lastwrite"} /\ writing > 0 /\ client[clients_[writing]] = "stalled"
=============================================================================
