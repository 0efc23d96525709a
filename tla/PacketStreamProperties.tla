----------------------- MODULE PacketStreamProperties -----------------------
(***************************************************************************)
(* What packetstream.c has to guarantee, stated of PacketStream.  After    *)
(* ps_buffer_cancel the ring is not used any more, so the safety           *)
(* properties speak of a buffer that is not cancelled.                     *)
(***************************************************************************)
EXTENDS PacketStream

-----------------------------------------------------------------------------
(* Safety.                                                                 *)

InUse(t) == packet[t].flags # {}

\* A packet whose size is not set yet.
Building(t) == "WRITE" \in packet[t].flags /\ ~SizeSet(t)

\* ps_packet_setsize moves state->write_next on from wherever it is by then,
\* not from the position the packet took from it in ps_packet_openwrite: until
\* the size is set they are the same, and nobody else has the write mutex.
WriterAtTail ==
  ~cancelled => \A t \in Threads : Building(t) =>
    mutex["write"] = t /\ packet[t].buffer_pos = write_next

\* What the packet under construction has taken from free_bytes, pending
\* ps_packet_reserve included.
Claim(t) ==
  IF call[t] = NoCall THEN packet[t].reserved
  ELSE Larger(call[t].len, packet[t].reserved)

RingEnd == IF Free("write") THEN write_next ELSE packet[mutex["write"]].buffer_pos

\* No byte is lost or counted twice by the claims, refunds, skipped ends of the
\* area and the space taken back from read packets: free_bytes is what the live
\* part of the ring, one more header and the packet under construction leave.
FreeBytesExact ==
  ~cancelled =>
    free_bytes = Size - HeaderSize - Distance(read_first, RingEnd)
                 - IF Free("write") THEN 0 ELSE Claim(mutex["write"])

\* The comment of ps_packet_openwrite: "next header is already free, NULL &
\* reserved".  A closing producer's search for closed packets ends at it.
NextHeaderNull ==
  ~cancelled /\ Free("write") => memory[write_next] = NullHeader

\* The bytes of the area that a thread may access through its packet.
Region(t) ==
  Cells(packet[t].buffer_pos,
        HeaderSize + IF Building(t) THEN packet[t].reserved
                     ELSE HeaderOf(t).size)

\* Packets in use at the same time never share a byte, nor does one that is
\* being written reach a packet that still waits for a reader.
PacketsDisjoint ==
  ~cancelled =>
    /\ \A t, u \in Threads :
         t # u /\ InUse(t) /\ InUse(u) => Region(t) \cap Region(u) = {}
    /\ \A t \in Threads : Building(t) =>
         Region(t) \cap Cells(read_next, Distance(read_next, write_next)) = {}

\* A claim that an interrupted ps_packet_reserve leaves behind is lost space; no
\* byte is ever counted free that a packet or the next header occupies.
FreeBytesNeverOver ==
  ~cancelled /\ Free("write") =>
    free_bytes <= Size - HeaderSize - Distance(read_first, write_next)

\* A consumer's packet has been closed by its producer, and its header is not
\* overwritten as long as the consumer has it open.
ReaderSeesCompletePacket ==
  ~cancelled => \A c \in Consumers : InUse(c) =>
    HeaderOf(c).flags = {"WRITTEN"}

(* Action properties.                                                      *)

\* Space is taken back only from a packet that its reader has closed, whatever
\* the order in which readers close.
FreedOnlyIfRead ==
  [][~cancelled /\ read_first' # read_first =>
       "READ" \in memory[read_first].flags]_vars

(* Liveness.                                                               *)

\* A packet closed by its producer does not stay unread, in whatever order it
\* was closed: no post of written_packets is lost.
WrittenIsOpened ==
  \A p \in HeaderPos :
    read_next = p /\ "WRITTEN" \in memory[p].flags ~> read_next # p

\* ps_packet_reserve returns, so every claim of space is met in the end.
ReserveReturns ==
  \A t \in Producers : pc[t] \in {"reserve", "drain"} ~> At(t, "open") \/ At(t, "close")

\* ps_buffer_cancel "triggers all waiting calls to wake up" (packetstream.h),
\* here those of consumers in ps_packet_open: each returns, also the ones queued
\* on read_mutex behind the one that waits for a packet.
CancelWakesConsumers ==
  \A t \in Consumers :
    cancelled /\ pc[t] \in {"lock", "wait"} ~> At(t, "idle") \/ At(t, "open")

-----------------------------------------------------------------------------
(* What packetstream.h says of the functions and the code does not do.     *)

\* "If PS_PACKET_TRY is specified, all calls return EBUSY instead of blocking":
\* a thread that opened its packet so is never at a sem_wait that blocks.
TryNeverBlocks ==
  \A t \in TryThreads : Reserving(t) /\ read_packets = 0 => Trying(t)

\* "triggers all waiting calls to wake up and return EINTR", here producers in
\* ps_packet_reserve.
CancelWakesProducers ==
  \A t \in Producers :
    cancelled /\ pc[t] \in {"reserve", "drain"} ~> pc[t] \notin {"reserve", "drain"}

\* ps_packet_setsize: "After this it is possible to open a new packet in write
\* mode", so the write mutex is given up again.
SetSizeLetsOthersOpen ==
  \A t \in Producers :
    At(t, "reserve") /\ call[t].op = "commit" ~> mutex["write"] # t
=============================================================================
