-------------------------- MODULE PacketStreamFifo --------------------------
(***************************************************************************)
(* The ring of packetstream.c read as the queue of PacketFifo: the packets *)
(* are found by walking from header to header, as every pass over the ring *)
(* in the code does, from read_first to RingEnd: a packet belongs to the   *)
(* queue once the header after it is reserved and write_mutex released.    *)
(***************************************************************************)
EXTENDS PacketStreamProperties, Sequences

\* More packets than this do not fit.
MaxPackets == Size \div HeaderSize

\* The position of the packet after the one at pos.
After == [pos \in HeaderPos |-> NextPos(pos, memory[pos].size)]

\* The position of the n-th packet after the one at read_first.
Walk[n \in 0 .. MaxPackets] == IF n = 0 THEN read_first ELSE After[Walk[n - 1]]

\* How many packets there are before the one at pos.
Before(pos) == CHOOSE n \in 0 .. MaxPackets :
  Walk[n] = pos /\ \A m \in 0 .. (n - 1) : Walk[m] # pos

\* A packet before read_next has been opened for reading.
StatusAt(pos) ==
  LET flags == memory[pos].flags
  IN  IF Distance(read_first, pos) < Distance(read_first, read_next)
      THEN IF "READ" \in flags THEN "read" ELSE "reading"
      ELSE IF "WRITTEN" \in flags THEN "written" ELSE "filling"

Queue ==
  [i \in 1 .. Before(RingEnd) |->
     [size |-> memory[Walk[i - 1]].size, status |-> StatusAt(Walk[i - 1])]]

Fifo == INSTANCE PacketFifo WITH
  ring <- Queue, Capacity <- Size, Header <- HeaderSize, Sizes <- 0 .. MaxSize

\* packetstream is a queue: packets are read once each and in the order their
\* sizes were set, whatever the order in which producers and consumers close
\* them, and only packets that have been read make room for new ones.
ImplementsFifo == Fifo!Spec

\* Where a thread that closes packets has got to, else the shared position.
PostedEnd(threads, closeMutex, pos) ==
  IF \E t \in threads : mutex[closeMutex] = t THEN cursor[mutex[closeMutex]] ELSE pos

\* Each semaphore counts exactly the packets between two positions of the ring:
\* no post is lost, made twice or made for a packet that is still open.
SemaphoresCount ==
  /\ written_packets =
       Before(PostedEnd(Producers, "write_close", write_pos))
         - Before(read_next)
  /\ read_packets = Before(PostedEnd(Consumers, "read_close", read_pos))
=============================================================================
