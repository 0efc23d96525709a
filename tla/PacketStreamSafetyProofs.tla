----------------------- MODULE PacketStreamSafetyProofs -----------------------
(***************************************************************************)
(* What PacketStreamProperties says of space, headers and readers, and     *)
(* what PacketStreamFifo says of the order of packets and of the           *)
(* semaphores, each read off the ring of PacketStreamRingProofs.  Every    *)
(* theorem has the hypothesis of RingCorrect, that no signal interrupts    *)
(* the second ps_packet_reserve of ps_packet_setsize; that free_bytes is   *)
(* exact needs that no signal interrupts a ps_packet_reserve at all.       *)
(*                                                                         *)
(* That the ring implements the queue of PacketFifo needs three things:    *)
(* the walk from header to header meets the packets of the list in order,  *)
(* so that Queue is the list from f to n (QueueIs); each step that moves   *)
(* an index or marks a header is the queue operation of that name, and no  *)
(* other changes a header of the list (StepFifo); and sizes stay within    *)
(* those the callers ask for (SizesFit).                                   *)
(***************************************************************************)
EXTENDS PacketStreamFifo, PacketStreamRingProofs, RecursionProofs, SequenceTheorems

\* What a property of a buffer that is not cancelled may start from.
LEMMA RingPicked ==
  ASSUME RingInv, ~cancelled
  PROVE  /\ PhaseInv
         /\ \E off : \E f, r, b, w, n \in Nat : Ring(off, f, r, b, w, n)
BY DEF RingInv

\* The parts of the ring used below.
LEMMA RingParts ==
  ASSUME PhaseInv, ~cancelled,
         NEW off, NEW f \in Nat, NEW r \in Nat, NEW b \in Nat, NEW w \in Nat, NEW n \in Nat,
         Ring(off, f, r, b, w, n)
  PROVE  /\ f <= r /\ r <= b /\ b <= w /\ w <= n
         /\ f \in f .. n /\ b \in f .. n /\ n \in f .. n
         /\ \A i \in f .. n : /\ off[i] \in Nat /\ off[f] <= off[i] /\ off[i] <= off[n]
                              /\ HeaderAt(off, i).size \in Nat
         /\ off[n] + HeaderSize + Met <= off[f] + Size
         /\ Met \in Nat
<1>1. TypeOK /\ f <= n /\ Laid(off, f, n) /\ Indexed(off, f, r, b, w, n) /\ Met \in Nat
  BY RingFacts
<1>2. \A i \in f .. n : /\ off[i] \in Nat /\ off[f] <= off[i] /\ off[i] <= off[n]
                        /\ HeaderAt(off, i).size \in Nat
  BY <1>1, Window
<1>3. f <= r /\ r <= b /\ b <= w /\ w <= n
  BY <1>1 DEF Indexed
<1>4. off[n] + HeaderSize + Met <= off[f] + Size
  BY <1>1 DEF Laid
<1> QED
  BY <1>1, <1>2, <1>3, <1>4

\* The part of the ring that is not free is as long as the list.
LEMMA RingLength ==
  ASSUME PhaseInv, ~cancelled,
         NEW off, NEW f \in Nat, NEW r \in Nat, NEW b \in Nat, NEW w \in Nat, NEW n \in Nat,
         Ring(off, f, r, b, w, n), NEW i \in f .. n
  PROVE  Distance(Place(off, i), Place(off, n)) = off[n] - off[i]
<1>1. /\ off[i] \in Nat /\ off[n] \in Nat /\ off[f] \in Nat /\ off[f] <= off[i]
      /\ off[i] <= off[n]
  BY RingParts
<1>2. off[n] + HeaderSize + Met <= off[f] + Size /\ Met \in Nat
  BY RingParts
<1>3. off[n] < off[i] + Size
  BY <1>1, <1>2, RingAssumption
<1> QED
  BY <1>1, <1>3, DistanceAhead DEF Place

LEMMA RingAccount ==
  ASSUME RingInv, ~cancelled
  PROVE  LET left == Size - HeaderSize - Distance(read_first, RingEnd) - Claimed
         IN  free_bytes <= left /\ (Lossless => free_bytes = left)
<1>1. PICK off : \E f, r, b, w, n \in Nat : Ring(off, f, r, b, w, n)
  BY RingPicked
<1>2. PICK f \in Nat, r \in Nat, b \in Nat, w \in Nat, n \in Nat : Ring(off, f, r, b, w, n)
  BY <1>1
<1>3. PhaseInv
  BY RingPicked
<1>4. read_first = Place(off, f) /\ RingEnd = Place(off, n) /\ Accounted(off, f, n)
  BY <1>2 DEF Ring, Indexed
<1>5. f \in f .. n
  BY <1>2, <1>3, RingParts
<1>6. Distance(read_first, RingEnd) = off[n] - off[f]
  BY <1>2, <1>3, <1>4, <1>5, RingLength
<1> QED
  BY <1>4, <1>6 DEF Accounted

\* FreeBytesExact: what producers claim, return and skip and what is taken back from
\* readers adds up.
THEOREM FreeBytesCorrect ==
  CommitUninterrupted /\ Lossless => (Spec => []FreeBytesExact)
<1>1. Lossless /\ RingInv => FreeBytesExact
  BY RingAccount DEF FreeBytesExact, Claimed
<1>2. Lossless => Lossless'
  BY DEF Lossless
<1> QED
  BY <1>1, <1>2, RingCorrect, PTL

\* FreeBytesNeverOver: also when claims are left behind, no byte counts as free that
\* a packet or the next header has.
THEOREM NeverOverCorrect == CommitUninterrupted => (Spec => []FreeBytesNeverOver)
<1>1. RingInv => FreeBytesNeverOver
  <2> SUFFICES ASSUME RingInv, ~cancelled, Free("write")
               PROVE  free_bytes <= Size - HeaderSize - Distance(read_first, write_next)
    BY DEF FreeBytesNeverOver
  <2>1. Claimed = 0 /\ RingEnd = write_next
    BY DEF Claimed, RingEnd
  <2>2. write_next \in HeaderPos /\ read_first \in HeaderPos /\ free_bytes \in Int
    BY DEF RingInv, PhaseInv, WriterInv, TypeOK
  <2>3. Size - HeaderSize - Distance(read_first, write_next) \in Int
    BY <2>2, RingAssumption DEF Distance, HeaderPos
  <2> QED
    BY <2>1, <2>3, RingAccount
<1> QED
  BY <1>1, RingCorrect, PTL

\* NextHeaderNull: the header the next producer takes, and at which a producer that
\* closes packets stops, is NULL.
THEOREM NextHeaderCorrect == CommitUninterrupted => (Spec => []NextHeaderNull)
<1>1. RingInv => NextHeaderNull
  BY RingPicked DEF NextHeaderNull, Ring, Marked, HeaderAt
<1> QED
  BY <1>1, RingCorrect, PTL

\* ReaderSeesCompletePacket: a packet is opened for reading only once it has been
\* written, and nothing is stored over its header before its reader closes it.
THEOREM ReaderCorrect == CommitUninterrupted => (Spec => []ReaderSeesCompletePacket)
<1>1. RingInv => ReaderSeesCompletePacket
  BY RingPicked DEF ReaderSeesCompletePacket, Ring, Used, HeaderAt, HeaderOf
<1> QED
  BY <1>1, RingCorrect, PTL

-----------------------------------------------------------------------------
(* Packets do not overlap.                                                 *)

\* The bytes a thread may access are those of one packet of the list.
LEMMA RegionIs ==
  ASSUME PhaseInv, ~cancelled,
         NEW off, NEW f \in Nat, NEW r \in Nat, NEW b \in Nat, NEW w \in Nat, NEW n \in Nat,
         Ring(off, f, r, b, w, n), NEW t \in Threads, InUse(t)
  PROVE  \E i \in f .. n : \E m \in Nat :
           /\ packet[t].buffer_pos = Place(off, i)
           /\ Region(t) = Cells(Place(off, i), m)
           /\ i < n => m = HeaderSize + HeaderAt(off, i).size
           /\ i = n => m <= HeaderSize + Met
<1> USE RingAssumption
<1>1. /\ Indexed(off, f, r, b, w, n) /\ Used(off, r, b, w, n) /\ Committing(t)
      /\ RingEnd = Place(off, n)
  BY DEF Ring, Indexed
<1>2. /\ f <= r /\ r <= b /\ b <= w /\ w <= n /\ n \in f .. n
      /\ (\A i \in f .. n : HeaderAt(off, i).size \in Nat) /\ Met \in Nat
  BY RingParts
<1>3. /\ FlagsFit(t) /\ BuildsAtTail(t) /\ Threads = Producers \cup Consumers
      /\ Producers \cap Consumers = {} /\ packet[t].reserved \in Nat
  BY PhaseFacts DEF Packet
<1>4. CASE mutex["write"] = t
  <2>1. /\ Met = packet[t].reserved /\ packet[t].buffer_pos = Place(off, n)
        /\ t \in Producers
    BY <1>1, <1>4, HolderFacts
  <2>2. HeaderOf(t) = HeaderAt(off, n)
    BY <2>1 DEF HeaderOf, HeaderAt
  <2>3. PICK m : m = HeaderSize + IF Building(t) THEN packet[t].reserved
                                  ELSE HeaderOf(t).size
    OBVIOUS
  <2>4. m \in Nat /\ m <= HeaderSize + Met
    <3>1. CASE Building(t)
      BY <1>3, <2>1, <2>3, <3>1
    <3>2. CASE ~Building(t)
      <4>1. SizeSet(t)
        BY <1>3, <2>1, <3>2 DEF FlagsFit, Building
      <4>2. HeaderOf(t).size <= packet[t].reserved /\ HeaderOf(t).size \in Nat
        BY <1>1, <1>2, <1>4, <2>2, <4>1 DEF Committing
      <4> QED
        BY <1>3, <2>1, <2>3, <3>2, <4>2
    <3> QED
      BY <3>1, <3>2
  <2>5. Region(t) = Cells(Place(off, n), m)
    BY <2>1, <2>3 DEF Region
  <2> QED
    BY <1>2, <2>1, <2>4, <2>5
<1>5. CASE mutex["write"] # t
  <2>1. PICK i \in f .. n : i < n /\ packet[t].buffer_pos = Place(off, i)
    <3>1. CASE t \in Producers
      <4>1. PICK i \in w .. n : i < n /\ packet[t].buffer_pos = Place(off, i)
        BY <1>1, <1>5, <3>1 DEF Used
      <4>2. i \in f .. n
        BY <1>2
      <4> QED
        BY <4>1, <4>2
    <3>2. CASE t \in Consumers
      <4>1. PICK i \in r .. b : i < b /\ packet[t].buffer_pos = Place(off, i)
        BY <1>1, <3>2 DEF Used
      <4>2. i \in f .. n /\ i < n
        BY <1>2, <4>1
      <4> QED
        BY <4>1, <4>2
    <3> QED
      BY <1>3, <3>1, <3>2
  <2>2. ~Building(t)
    BY <1>3, <1>5 DEF BuildsAtTail
  <2>3. HeaderOf(t) = HeaderAt(off, i)
    BY <2>1 DEF HeaderOf, HeaderAt
  <2>4. PICK m : m = HeaderSize + HeaderAt(off, i).size
    OBVIOUS
  <2>5. m \in Nat
    BY <1>2, <2>4
  <2>6. Region(t) = Cells(Place(off, i), m)
    BY <2>1, <2>2, <2>3, <2>4 DEF Region
  <2> QED
    BY <2>1, <2>4, <2>5, <2>6
<1> QED
  BY <1>4, <1>5

\* What follows a packet lies behind it, and ends before it begins again.
LEMMA RegionApart ==
  ASSUME PhaseInv, ~cancelled,
         NEW off, NEW f \in Nat, NEW r \in Nat, NEW b \in Nat, NEW w \in Nat, NEW n \in Nat,
         Ring(off, f, r, b, w, n),
         NEW i \in f .. n, NEW j \in f .. n, NEW m \in Nat, NEW k \in Nat,
         i < j, m = HeaderSize + HeaderAt(off, i).size,
         j < n => k = HeaderSize + HeaderAt(off, j).size,
         j = n => k <= HeaderSize + Met
  PROVE  Cells(Place(off, i), m) \cap Cells(Place(off, j), k) = {}
<1> USE RingAssumption
<1>1. /\ off[i] \in Nat /\ off[j] \in Nat /\ off[n] \in Nat /\ off[f] \in Nat
      /\ off[f] <= off[i] /\ HeaderAt(off, i).size \in Nat /\ HeaderAt(off, j).size \in Nat
      /\ off[n] + HeaderSize + Met <= off[f] + Size /\ Met \in Nat
  BY RingParts
<1>2. \A x, y \in f .. n : x < y => off[x] + HeaderSize + HeaderAt(off, x).size <= off[y]
  BY DEF Ring, Laid
<1>3. off[i] + m <= off[j]
  BY <1>1, <1>2
<1>4. off[j] + k <= off[i] + Size
  <2>1. CASE j < n
    <3>1. n \in f .. n
      OBVIOUS
    <3>2. off[j] + k <= off[n]
      BY <1>1, <1>2, <2>1, <3>1
    <3> QED
      BY <1>1, <3>2
  <2>2. CASE j = n
    BY <1>1, <2>2
  <2> QED
    BY <2>1, <2>2
<1>5. m \in Int /\ k \in Int
  OBVIOUS
<1>6. Cells(off[i] % Size, m) \cap Cells(off[j] % Size, k) = {}
  BY <1>1, <1>3, <1>4, <1>5, CellsApart
<1> QED
  BY <1>6 DEF Place

\* PacketsDisjoint: no two threads have a byte in common, and no producer reaches
\* packets that wait for a reader.
THEOREM DisjointCorrect == CommitUninterrupted => (Spec => []PacketsDisjoint)
<1>1. RingInv => PacketsDisjoint
  <2> SUFFICES ASSUME RingInv, ~cancelled
               PROVE  PacketsDisjoint
    BY DEF PacketsDisjoint
  <2>1. PICK off : \E f, r, b, w, n \in Nat : Ring(off, f, r, b, w, n)
    BY RingPicked
  <2>2. PICK f \in Nat, r \in Nat, b \in Nat, w \in Nat, n \in Nat :
          Ring(off, f, r, b, w, n)
    BY <2>1
  <2>3. PhaseInv
    BY RingPicked
  <2>4. ASSUME NEW t \in Threads, NEW u \in Threads, t # u, InUse(t), InUse(u)
        PROVE  Region(t) \cap Region(u) = {}
    <3>1. PICK i \in f .. n : \E m \in Nat :
            /\ packet[t].buffer_pos = Place(off, i)
            /\ Region(t) = Cells(Place(off, i), m)
            /\ i < n => m = HeaderSize + HeaderAt(off, i).size
            /\ i = n => m <= HeaderSize + Met
      BY <2>2, <2>3, <2>4, RegionIs
    <3>2. PICK m \in Nat :
            /\ Region(t) = Cells(Place(off, i), m)
            /\ i < n => m = HeaderSize + HeaderAt(off, i).size
            /\ i = n => m <= HeaderSize + Met
      BY <3>1
    <3>3. PICK j \in f .. n : \E k \in Nat :
            /\ packet[u].buffer_pos = Place(off, j)
            /\ Region(u) = Cells(Place(off, j), k)
            /\ j < n => k = HeaderSize + HeaderAt(off, j).size
            /\ j = n => k <= HeaderSize + Met
      BY <2>2, <2>3, <2>4, RegionIs
    <3>4. PICK k \in Nat :
            /\ Region(u) = Cells(Place(off, j), k)
            /\ j < n => k = HeaderSize + HeaderAt(off, j).size
            /\ j = n => k <= HeaderSize + Met
      BY <3>3
    <3>5. i # j
      BY <2>2, <2>4, <3>1, <3>3 DEF Ring, Used
    <3>6. (i < j => i < n) /\ (j < i => j < n) /\ (i < j \/ j < i)
      BY <3>5
    <3>7. CASE i < j
      BY <2>2, <2>3, <3>2, <3>4, <3>6, <3>7, RegionApart
    <3>8. CASE j < i
      <4>1. Region(u) \cap Region(t) = {}
        BY <2>2, <2>3, <3>2, <3>4, <3>6, <3>8, RegionApart
      <4> QED
        BY <4>1
    <3> QED
      BY <3>6, <3>7, <3>8
  <2>5. ASSUME NEW t \in Threads, Building(t)
        PROVE  Region(t) \cap Cells(read_next, Distance(read_next, write_next)) = {}
    <3>1. mutex["write"] = t /\ packet[t].buffer_pos = write_next
      BY <2>3, <2>5, PhaseFacts DEF BuildsAtTail
    <3>2. read_next = Place(off, b) /\ RingEnd = Place(off, n)
      BY <2>2 DEF Ring, Indexed
    <3>3. Met = packet[t].reserved /\ packet[t].buffer_pos = Place(off, n)
      BY <2>3, <3>1, <3>2, HolderFacts
    <3>4. /\ b \in f .. n /\ n \in f .. n /\ f \in f .. n /\ Met \in Nat
          /\ off[n] + HeaderSize + Met <= off[f] + Size
          /\ off[b] \in Nat /\ off[n] \in Nat /\ off[f] \in Nat /\ off[f] <= off[b]
          /\ off[b] <= off[n]
      BY <2>2, <2>3, RingParts
    <3>5. Distance(read_next, write_next) = off[n] - off[b]
      <4>1. Distance(Place(off, b), Place(off, n)) = off[n] - off[b]
        BY <2>2, <2>3, <3>4, RingLength
      <4> QED
        BY <3>1, <3>2, <3>3, <4>1
    <3>6. Region(t) = Cells(off[n] % Size, HeaderSize + Met)
      BY <2>5, <3>3 DEF Region, Place
    <3>7. /\ off[b] + (off[n] - off[b]) <= off[n]
          /\ off[n] + (HeaderSize + Met) <= off[b] + Size
          /\ off[n] - off[b] \in Int /\ HeaderSize + Met \in Int
      BY <3>4, RingAssumption
    <3>8. Cells(off[b] % Size, off[n] - off[b]) \cap Cells(off[n] % Size, HeaderSize + Met)
            = {}
      BY <3>4, <3>7, CellsApart
    <3> QED
      BY <3>2, <3>5, <3>6, <3>8 DEF Place
  <2> QED
    BY <2>4, <2>5 DEF PacketsDisjoint
<1> QED
  BY <1>1, RingCorrect, PTL

-----------------------------------------------------------------------------
(* Space is taken back from what has been read.                            *)

\* Only a ps_packet_reserve that has taken a read packet moves read_first.
LEMMA FirstMoves ==
  ASSUME [Next]_vars, read_first' # read_first
  PROVE  read_packets > 0
<1>1. CASE BufferCancel
  BY <1>1 DEF BufferCancel, CancelFlag, CancelPostRead, CancelPostWritten, CancelUnlockRead,
              CancelUnlockWrite, ringVars, positions
<1>2. ASSUME NEW t \in Threads, Open(t) \/ ThreadStep(t) \/ ThreadEvent(t)
      PROVE  read_packets > 0
  BY <1>2 DEF ringVars, positions, ThreadStep, ThreadEvent, ReserveStep, ReturnsIdle,
     ReserveFails, Open, OpenBusy, OpenCancelled, OpenWrite, OpenRead, ReadWait,
     ReadWaitFails, ReserveWait, ReserveCancelled, ReserveDrain, ReserveBusy,
     ReserveInterrupted, DestroyPacket, FinishWrite, FinishSetSize, CommitSize, WriteCall,
     Write, WriteSized, SetSize, CancelPacket, Close, CloseStep, LockClose, Post, ScanOn,
     ScanEnd, Kill
<1> QED
  BY <1>1, <1>2 DEF Next, vars, ringVars, positions

\* FreedOnlyIfRead: read_packets counts the packets before the first one that has not
\* been read, so whoever takes one of them off the ring takes one that was read, in
\* whatever order the readers closed theirs.
THEOREM FreedCorrect == CommitUninterrupted => (Spec => FreedOnlyIfRead)
<1>1. RingInv /\ [Next]_vars =>
        (~cancelled /\ read_first' # read_first => "READ" \in memory[read_first].flags)
  <2> SUFFICES ASSUME RingInv, [Next]_vars, ~cancelled, read_first' # read_first
               PROVE  "READ" \in memory[read_first].flags
    OBVIOUS
  <2>1. read_packets > 0
    BY FirstMoves
  <2>2. PICK off : \E f, r, b, w, n \in Nat : Ring(off, f, r, b, w, n)
    BY RingPicked
  <2>3. PICK f \in Nat, r \in Nat, b \in Nat, w \in Nat, n \in Nat :
          Ring(off, f, r, b, w, n)
    BY <2>2
  <2>4. f \in f .. n
    BY <2>3, RingPicked, RingParts
  <2>5. read_packets = r - f /\ read_first = Place(off, f)
    BY <2>3 DEF Ring, Indexed
  <2>6. f < r
    BY <2>1, <2>5
  <2> QED
    BY <2>3, <2>4, <2>5, <2>6 DEF Ring, Marked, HeaderAt
<1> QED
  BY <1>1, RingCorrect, PTL DEF Spec, FreedOnlyIfRead

-----------------------------------------------------------------------------
(* How many packets there can be.                                          *)

\* A number whose multiple of h is below (q + 1) * h is at most q.
LEMMA Quotients ==
  ASSUME NEW k \in Nat, NEW q \in Nat, NEW h \in Nat \ {0}, NEW s \in Nat,
         k * h <= s, s < (q + 1) * h
  PROVE  k <= q
<1> SUFFICES ASSUME q + 1 <= k
             PROVE  FALSE
  OBVIOUS
<1>1. (k - (q + 1)) * h >= 0
  OBVIOUS
<1>2. (k - (q + 1)) * h = k * h - (q + 1) * h
  OBVIOUS
<1> QED
  BY <1>1, <1>2

\* Every packet takes a header at least, so packet f + k lies k headers ahead.
LEMMA RoomForEach ==
  ASSUME TypeOK, NEW off, NEW f \in Nat, NEW n \in Nat, Laid(off, f, n), f <= n
  PROVE  \A k \in 0 .. (n - f) : off[f] + k * HeaderSize <= off[f + k]
<1> DEFINE S == {k \in 0 .. (n - f) : off[f] + k * HeaderSize <= off[f + k]}
<1>1. 0 \in S
  <2>1. off[f] \in Nat
    BY DEF Laid
  <2> QED
    BY <2>1, RingAssumption
<1>2. ASSUME NEW k \in 1 .. (n - f), k - 1 \in S
      PROVE  k \in S
  <2>1. /\ f + (k - 1) \in f .. n /\ f + k \in f .. n /\ f \in f .. n
        /\ f + (k - 1) < f + k
    OBVIOUS
  <2>2. /\ off[f + (k - 1)] \in Nat /\ off[f + k] \in Nat /\ off[f] \in Nat
        /\ off[f + (k - 1)] + HeaderSize <= off[f + k]
    BY <2>1, Window
  <2>3. off[f] + (k - 1) * HeaderSize <= off[f + (k - 1)]
    BY <1>2
  <2>4. (k - 1) * HeaderSize + HeaderSize = k * HeaderSize
    BY RingAssumption
  <2>5. (k - 1) * HeaderSize \in Nat /\ k * HeaderSize \in Nat
    BY RingAssumption
  <2>6. off[f] + k * HeaderSize <= off[f + k]
    BY <2>2, <2>3, <2>4, <2>5, RingAssumption
  <2> QED
    BY <2>6
<1>3. n - f \in Nat
  OBVIOUS
<1> HIDE DEF S
<1>4. \A k \in 0 .. (n - f) : k \in S
  BY <1>1, <1>2, <1>3, InductionTo
<1> QED
  BY <1>4 DEF S

\* No more packets than MaxPackets are in the ring.
LEMMA FewPackets ==
  ASSUME TypeOK, NEW off, NEW f \in Nat, NEW n \in Nat, Laid(off, f, n), f <= n
  PROVE  n - f \in 0 .. MaxPackets /\ MaxPackets \in Nat
<1>1. n - f \in Nat /\ n - f \in 0 .. (n - f) /\ f + (n - f) = n /\ n \in f .. n
  OBVIOUS
<1>2. off[f] + (n - f) * HeaderSize <= off[n]
  BY <1>1, RoomForEach
<1>3. off[f] \in Nat /\ off[n] \in Nat /\ off[n] + HeaderSize <= off[f] + Size
  BY <1>1, Window
<1>4. (n - f) * HeaderSize \in Nat
  BY <1>1, RingAssumption
<1>5. (n - f) * HeaderSize <= Size
  BY <1>2, <1>3, <1>4, RingAssumption
<1>6. /\ MaxPackets \in Nat
      /\ Size < (MaxPackets + 1) * HeaderSize
  BY RingAssumption DEF MaxPackets
<1> QED
  BY <1>1, <1>5, <1>6, Quotients, RingAssumption

-----------------------------------------------------------------------------
\* The recursion that defines Walk has a solution.
LEMMA WalkIs ==
  ASSUME TypeOK, MaxPackets \in Nat
  PROVE  /\ Walk \in [0 .. MaxPackets -> HeaderPos]
         /\ Walk[0] = read_first
         /\ \A k \in 1 .. MaxPackets : Walk[k] = After[Walk[k - 1]]
<1>1. After \in [HeaderPos -> HeaderPos]
  BY NextPosType DEF After, TypeOK, Header
<1>4. read_first \in HeaderPos
  BY DEF TypeOK
<1>8. \E f : f = [k \in 0 .. MaxPackets |-> IF k = 0 THEN read_first ELSE After[f[k - 1]]]
  <2>1. PICK m, H, a, g : m = MaxPackets /\ H = HeaderPos /\ a = read_first /\ g = After
    OBVIOUS
  <2>2. m \in Nat /\ a \in H /\ g \in [H -> H]
    BY <1>1, <1>4, <2>1
  <2>3. \E f : f = [k \in 0 .. m |-> IF k = 0 THEN a ELSE g[f[k - 1]]]
    BY <2>2, IterationTo
  <2> QED
    BY <2>1, <2>3
<1>9. Walk = [k \in 0 .. MaxPackets |-> IF k = 0 THEN read_first ELSE After[Walk[k - 1]]]
  BY <1>8 DEF Walk
<1>10. \A k \in 1 .. MaxPackets : Walk[k] = After[Walk[k - 1]]
  BY <1>9
<1>11. Walk[0] = read_first
  BY <1>9
<1> DEFINE T == {k \in 0 .. MaxPackets : Walk[k] \in HeaderPos}
<1>12. \A k \in 0 .. MaxPackets : k \in T
  <2>1. 0 \in T
    BY <1>4, <1>11
  <2>2. ASSUME NEW k \in 1 .. MaxPackets, k - 1 \in T
        PROVE  k \in T
    BY <1>1, <1>10, <2>2
  <2> HIDE DEF T
  <2> QED
    BY <2>1, <2>2, InductionTo
<1>13. Walk = [k \in 0 .. MaxPackets |-> Walk[k]]
  BY <1>9
<1> QED
  BY <1>10, <1>11, <1>12, <1>13

-----------------------------------------------------------------------------
(* The walk meets the packets of the list.                                 *)

\* The k-th step of the walk is at packet f + k.
LEMMA WalkPlaces ==
  ASSUME TypeOK, NEW off, NEW f \in Nat, NEW n \in Nat, Laid(off, f, n), f <= n,
         read_first = Place(off, f)
  PROVE  \A k \in 0 .. (n - f) : Walk[k] = Place(off, f + k)
<1> DEFINE S == {k \in 0 .. (n - f) : Walk[k] = Place(off, f + k)}
<1>1. /\ MaxPackets \in Nat /\ n - f \in 0 .. MaxPackets
      /\ Walk[0] = read_first
      /\ \A k \in 1 .. MaxPackets : Walk[k] = After[Walk[k - 1]]
  BY FewPackets, WalkIs
<1>2. 0 \in S
  BY <1>1
<1>3. ASSUME NEW k \in 1 .. (n - f), k - 1 \in S
      PROVE  k \in S
  <2>1. PICK j : j = f + (k - 1)
    OBVIOUS
  <2>2. j \in f .. n /\ j < n /\ j + 1 = f + k /\ k \in 1 .. MaxPackets
    BY <1>1, <2>1
  <2>3. Place(off, j) \in HeaderPos
    BY <2>2, Window
  <2>4. NextPos(Place(off, j), HeaderAt(off, j).size) = Place(off, j + 1)
    BY <2>2, PlaceAfter
  <2>5. Walk[k] = After[Place(off, j)]
    BY <1>1, <1>3, <2>1, <2>2
  <2>6. After[Place(off, j)] = NextPos(Place(off, j), HeaderAt(off, j).size)
    BY <2>3 DEF After, HeaderAt
  <2>7. Walk[k] = Place(off, f + k)
    BY <2>2, <2>4, <2>5, <2>6
  <2> QED
    BY <2>7
<1>4. n - f \in Nat
  OBVIOUS
<1> HIDE DEF S
<1>5. \A k \in 0 .. (n - f) : k \in S
  BY <1>2, <1>3, <1>4, InductionTo
<1> QED
  BY <1>5 DEF S

\* Before counts the packets of the list ahead of a place.
LEMMA BeforePlace ==
  ASSUME TypeOK, NEW off, NEW f \in Nat, NEW n \in Nat, Laid(off, f, n), f <= n,
         read_first = Place(off, f), NEW i \in f .. n
  PROVE  Before(Place(off, i)) = i - f
<1> DEFINE p == Place(off, i)
           First(m) == Walk[m] = p /\ \A l \in 0 .. (m - 1) : Walk[l] # p
<1>1. MaxPackets \in Nat /\ n - f \in 0 .. MaxPackets
  BY FewPackets
<1>2. i - f \in 0 .. MaxPackets /\ i - f \in 0 .. (n - f)
  BY <1>1
<1>3. ASSUME NEW m \in 0 .. MaxPackets, m <= i - f
      PROVE  Walk[m] = p <=> m = i - f
  <2>1. m \in 0 .. (n - f) /\ f + m \in f .. n /\ (f + m = i <=> m = i - f)
    BY <1>3
  <2>2. Walk[m] = Place(off, f + m)
    BY <2>1, WalkPlaces
  <2>3. Place(off, f + m) = Place(off, i) => f + m = i
    BY <2>1, PlacesDiffer
  <2> QED
    BY <2>1, <2>2, <2>3
<1>4. First(i - f)
  <2>1. \A l \in 0 .. ((i - f) - 1) : l \in 0 .. MaxPackets /\ l <= i - f /\ l # i - f
    <3> SUFFICES ASSUME NEW l \in 0 .. ((i - f) - 1)
                 PROVE  l \in 0 .. MaxPackets /\ l <= i - f /\ l # i - f
      OBVIOUS
    <3> QED
      BY <1>1, <1>2
  <2> HIDE DEF p
  <2>2. \A l \in 0 .. ((i - f) - 1) : Walk[l] # p
    BY <1>3, <2>1
  <2>3. Walk[i - f] = p
    BY <1>2, <1>3
  <2> QED
    BY <2>2, <2>3
<1>5. ASSUME NEW m \in 0 .. MaxPackets, First(m)
      PROVE  m = i - f
  <2>1. CASE m <= i - f
    BY <1>3, <1>5, <2>1
  <2>2. CASE i - f < m
    <3>1. i - f \in 0 .. (m - 1)
      BY <1>2, <2>2
    <3> QED
      BY <1>4, <1>5, <3>1
  <2> QED
    BY <1>2, <2>1, <2>2
<1> HIDE DEF First
<1>6. (CHOOSE m \in 0 .. MaxPackets : First(m)) = i - f
  BY <1>2, <1>4, <1>5
<1> QED
  BY <1>6 DEF Before, First

-----------------------------------------------------------------------------
(* The semaphores.                                                         *)

\* Without a thread that calls ps_buffer_cancel the ring stays as it is described.
RingStays == /\ ~MayCancel /\ CommitUninterrupted
             /\ ~cancelled /\ RingInv

\* That holds of every state.
LEMMA StaysCorrect == ~MayCancel /\ CommitUninterrupted => (Spec => []RingStays)
<1>1. ~MayCancel /\ Init => ~cancelled
  BY DEF Init
<1>2. ~MayCancel /\ ~cancelled /\ WriterInv /\ [Next]_vars => ~cancelled'
  <2> SUFFICES ASSUME ~MayCancel, ~cancelled, WriterInv, [Next]_vars
               PROVE  ~cancelled'
    OBVIOUS
  <2>1. ASSUME BufferCancel
        PROVE  FALSE
    BY <2>1 DEF BufferCancel, CancelFlag, CancelPostRead, CancelPostWritten,
                CancelUnlockRead, CancelUnlockWrite, CancelStep, WriterInv, CancelOrder
  <2>2. ASSUME NEW t \in Threads, Open(t) \/ ThreadStep(t) \/ ThreadEvent(t)
        PROVE  cancelled' = cancelled
    BY <2>2, ThreadsKeepFlag
  <2> QED
    BY <2>1, <2>2 DEF Next, vars, cancelVars
<1>3. RingInv => WriterInv
  BY DEF RingInv, PhaseInv
<1>4. /\ ~MayCancel => (~MayCancel)'
      /\ CommitUninterrupted => CommitUninterrupted'
  BY DEF CommitUninterrupted
<1> QED
  BY <1>1, <1>2, <1>3, <1>4, RingCorrect, PTL DEF Spec, RingStays

\* PostedEnd is where the closing producer or consumer has got to.
LEMMA PostedEnds ==
  ASSUME PhaseInv, ~cancelled
  PROVE  /\ PostedEnd(Producers, "write_close", write_pos) = WritePosted
         /\ PostedEnd(Consumers, "read_close", read_pos) = ReadPosted
<1>1. \A t \in Threads : t # NoOwner /\ MutexFits(t)
  BY PhaseFacts
<1>2. mutex["write_close"] \in Threads \cup {NoOwner}
      /\ mutex["read_close"] \in Threads \cup {NoOwner}
  BY DEF PhaseInv, WriterInv, TypeOK, MutexNames
<1>3. (\E t \in Producers : mutex["write_close"] = t) <=> ~Free("write_close")
  BY <1>1, <1>2 DEF MutexFits, Free, Threads
<1>4. (\E t \in Consumers : mutex["read_close"] = t) <=> ~Free("read_close")
  BY <1>1, <1>2 DEF MutexFits, Free, Threads
<1> QED
  BY <1>3, <1>4 DEF PostedEnd, WritePosted, ReadPosted

\* SemaphoresCount: whatever the order in which packets are closed, written_packets
\* counts those between read_next and the closing producer, read_packets those from
\* read_first to the closing consumer.
THEOREM SemaphoresCorrect ==
  ~MayCancel /\ CommitUninterrupted => (Spec => []SemaphoresCount)
<1>1. RingStays => SemaphoresCount
  <2> SUFFICES ASSUME RingStays
               PROVE  SemaphoresCount
    OBVIOUS
  <2>1. PhaseInv /\ ~cancelled
    BY RingPicked DEF RingStays
  <2>2. PICK off : \E f, r, b, w, n \in Nat : Ring(off, f, r, b, w, n)
    BY RingPicked DEF RingStays
  <2>3. PICK f \in Nat, r \in Nat, b \in Nat, w \in Nat, n \in Nat :
          Ring(off, f, r, b, w, n)
    BY <2>2
  <2>4. TypeOK /\ f <= n /\ Laid(off, f, n) /\ Indexed(off, f, r, b, w, n)
    BY <2>1, <2>3, RingFacts
  <2>5. f <= r /\ r <= b /\ b <= w /\ w <= n /\ read_first = Place(off, f)
    BY <2>4 DEF Indexed
  <2>6. f \in f .. n /\ r \in f .. n /\ b \in f .. n /\ w \in f .. n
    BY <2>5
  <2>7. /\ Before(Place(off, r)) = r - f /\ Before(Place(off, b)) = b - f
        /\ Before(Place(off, w)) = w - f
    BY <2>4, <2>5, <2>6, BeforePlace
  <2>8. written_packets = (w - f) - (b - f) /\ read_packets = r - f
    BY <2>4 DEF Indexed
  <2>9. WritePosted = Place(off, w) /\ ReadPosted = Place(off, r) /\ read_next = Place(off, b)
    BY <2>4 DEF Indexed
  <2> QED
    BY <2>1, <2>7, <2>8, <2>9, PostedEnds DEF SemaphoresCount
<1> QED
  BY <1>1, StaysCorrect, PTL

-----------------------------------------------------------------------------
(* The queue is the list of packets.                                       *)

\* What has become of packet i.
Stage(off, b, i) ==
  IF i < b
  THEN IF "READ" \in HeaderAt(off, i).flags THEN "read" ELSE "reading"
  ELSE IF "WRITTEN" \in HeaderAt(off, i).flags THEN "written" ELSE "filling"

Item(off, b, i) == [size |-> HeaderAt(off, i).size, status |-> Stage(off, b, i)]

\* The packets from f up to the one being built, those before b opened for reading.
Items(off, f, b, n) == [k \in 1 .. (n - f) |-> Item(off, b, f + (k - 1))]

\* Queue is the list, each packet with its size and what its header says of it.
LEMMA QueueIs ==
  ASSUME PhaseInv, ~cancelled,
         NEW off, NEW f \in Nat, NEW r \in Nat, NEW b \in Nat, NEW w \in Nat, NEW n \in Nat,
         Ring(off, f, r, b, w, n)
  PROVE  Queue = Items(off, f, b, n)
<1>1. TypeOK /\ f <= n /\ Laid(off, f, n) /\ Indexed(off, f, r, b, w, n)
  BY RingFacts
<1>2. /\ f <= b /\ b <= n /\ read_first = Place(off, f) /\ read_next = Place(off, b)
      /\ RingEnd = Place(off, n)
      /\ f \in f .. n /\ b \in f .. n /\ n \in f .. n
  BY <1>1 DEF Indexed
<1>3. Before(RingEnd) = n - f
  BY <1>1, <1>2, BeforePlace
<1>4. ASSUME NEW i \in f .. n
      PROVE  Distance(read_first, Place(off, i)) = off[i] - off[f]
  <2>1. /\ off[i] \in Nat /\ off[f] \in Nat /\ off[f] <= off[i]
        /\ off[i] + HeaderSize <= off[f] + Size
    BY <1>1, <1>2, Window
  <2>2. off[i] < off[f] + Size
    BY <2>1, RingAssumption
  <2> QED
    BY <1>2, <2>1, <2>2, DistanceAhead DEF Place
<1>5. ASSUME NEW i \in f .. n
      PROVE  (off[i] - off[f] < off[b] - off[f]) <=> i < b
  <2>1. /\ off[i] \in Nat /\ off[f] \in Nat /\ off[b] \in Nat
        /\ i < b => off[i] + HeaderSize <= off[b]
        /\ b < i => off[b] + HeaderSize <= off[i]
    BY <1>1, <1>2, Window
  <2>2. i < b \/ b < i \/ i = b
    OBVIOUS
  <2> QED
    BY <2>1, <2>2, RingAssumption
<1>6. ASSUME NEW i \in f .. n
      PROVE  StatusAt(Place(off, i)) = Stage(off, b, i)
  BY <1>2, <1>4, <1>5 DEF StatusAt, Stage, HeaderAt
<1>7. ASSUME NEW k \in 1 .. (n - f)
      PROVE  [size |-> memory[Walk[k - 1]].size, status |-> StatusAt(Walk[k - 1])]
               = Item(off, b, f + (k - 1))
  <2>1. k - 1 \in 0 .. (n - f) /\ f + (k - 1) \in f .. n
    OBVIOUS
  <2>2. Walk[k - 1] = Place(off, f + (k - 1))
    BY <1>1, <1>2, <2>1, WalkPlaces
  <2>3. PICK i : i = f + (k - 1)
    OBVIOUS
  <2>4. StatusAt(Place(off, i)) = Stage(off, b, i)
    BY <1>6, <2>1, <2>3
  <2> QED
    BY <2>2, <2>3, <2>4 DEF Item, HeaderAt
<1> QED
  BY <1>3, <1>7 DEF Queue, Items

\* The same after a step.
LEMMA QueueIsNext ==
  ASSUME NEW off, NEW f \in Nat, NEW r \in Nat, NEW b \in Nat, NEW w \in Nat, NEW n \in Nat
  PROVE  (PhaseInv /\ ~cancelled /\ Ring(off, f, r, b, w, n)
            => Queue = Items(off, f, b, n))'
<1>1. PhaseInv /\ ~cancelled /\ Ring(off, f, r, b, w, n) => Queue = Items(off, f, b, n)
  BY QueueIs
<1> QED
  BY <1>1, PTL

\* A step that keeps the packets keeps the queue.
LEMMA QueueKept ==
  ASSUME PhaseInv, PhaseInv', ~cancelled, ~cancelled',
         NEW off, NEW f \in Nat, NEW r \in Nat, NEW b \in Nat, NEW w \in Nat, NEW n \in Nat,
         NEW r2 \in Nat, NEW w2 \in Nat,
         Ring(off, f, r, b, w, n), Ring(off, f, r2, b, w2, n)', Kept(off, f, n)
  PROVE  Queue' = Queue
<1>1. Queue = Items(off, f, b, n) /\ Queue' = Items(off, f, b, n)'
  BY QueueIs, QueueIsNext
<1>2. ASSUME NEW k \in 1 .. (n - f)
      PROVE  Item(off, b, f + (k - 1))' = Item(off, b, f + (k - 1))
  <2>1. PICK i : i = f + (k - 1)
    OBVIOUS
  <2>2. i \in f .. n /\ i < n
    BY <2>1
  <2>3. Item(off, b, i)' = Item(off, b, i)
    BY <2>2 DEF Kept, Item, Stage
  <2> QED
    BY <2>1, <2>3
<1> QED
  BY <1>1, <1>2 DEF Items

-----------------------------------------------------------------------------
(* What the operations of the ring do to the queue.                        *)

\* An element of the queue.
Entry == [size: Nat, status: {"filling", "written", "reading", "read"}]

\* Items is a sequence of these.
ItemsFit(off, f, b, n) ==
  /\ Items(off, f, b, n) \in Seq(Entry) /\ n - f \in Nat
  /\ Len(Items(off, f, b, n)) = n - f
  /\ DOMAIN Items(off, f, b, n) = 1 .. (n - f)
  /\ \A i \in f .. n : Item(off, b, i) \in Entry
  /\ \A i \in f .. n : i < n => /\ i - f + 1 \in 1 .. (n - f)
                                /\ Items(off, f, b, n)[i - f + 1] = Item(off, b, i)

\* The list is a sequence, packet i its element i - f + 1.
LEMMA ItemsType ==
  ASSUME PhaseInv, ~cancelled,
         NEW off, NEW f \in Nat, NEW r \in Nat, NEW b \in Nat, NEW w \in Nat, NEW n \in Nat,
         Ring(off, f, r, b, w, n)
  PROVE  ItemsFit(off, f, b, n)
<1> DEFINE q == Items(off, f, b, n)
<1>1. n - f \in Nat
  BY RingFacts
<1>2. \A i \in f .. n : Item(off, b, i) \in Entry
  BY RingParts DEF Item, Stage, Entry
<1>3. \A k \in 1 .. (n - f) : f + (k - 1) \in f .. n /\ q[k] = Item(off, b, f + (k - 1))
  BY DEF Items
<1>4. q \in [1 .. (n - f) -> Entry]
  <2>1. \A k \in 1 .. (n - f) : Item(off, b, f + (k - 1)) \in Entry
    BY <1>2, <1>3
  <2> QED
    BY <2>1 DEF Items
<1> HIDE DEF q
<1>5. q \in Seq(Entry) /\ Len(q) = n - f /\ DOMAIN q = 1 .. (n - f)
  BY <1>1, <1>4
<1>6. ASSUME NEW i \in f .. n, i < n
      PROVE  i - f + 1 \in 1 .. (n - f) /\ q[i - f + 1] = Item(off, b, i)
  <2>1. i - f + 1 \in 1 .. (n - f) /\ f + ((i - f + 1) - 1) = i
    BY <1>6
  <2> QED
    BY <1>3, <2>1
<1> QED
  BY <1>1, <1>2, <1>5, <1>6 DEF q, ItemsFit

\* The same after a step.
LEMMA ItemsTypeNext ==
  ASSUME NEW off, NEW f \in Nat, NEW r \in Nat, NEW b \in Nat, NEW w \in Nat, NEW n \in Nat
  PROVE  (PhaseInv /\ ~cancelled /\ Ring(off, f, r, b, w, n) => ItemsFit(off, f, b, n))'
<1>1. PhaseInv /\ ~cancelled /\ Ring(off, f, r, b, w, n) => ItemsFit(off, f, b, n)
  BY ItemsType
<1> QED
  BY <1>1, PTL

\* The packets of the list keep their place in the queue unless the oldest is taken off.
LEMMA ItemKept ==
  ASSUME NEW off, NEW f, NEW b, NEW n, Kept(off, f, n), NEW i \in f .. n, i < n
  PROVE  Item(off, b, i)' = Item(off, b, i)
BY DEF Kept, Item, Stage

\* The first packet of the queue has been read and is taken off.
LEMMA TakenBack ==
  ASSUME PhaseInv, PhaseInv', ~cancelled, ~cancelled',
         NEW off, NEW f \in Nat, NEW r \in Nat, NEW b \in Nat, NEW w \in Nat, NEW n \in Nat,
         Ring(off, f, r, b, w, n), Ring(off, f + 1, r, b, w, n)', Kept(off, f, n), f < r
  PROVE  Fifo!TakeBack
<1> DEFINE q == Items(off, f, b, n)
           p == Items(off, f + 1, b, n)'
<1>1. f + 1 \in Nat /\ f < b /\ f < n /\ f \in f .. n
  BY DEF Ring, Indexed
<1>2. Queue = q /\ Queue' = p
  BY <1>1, QueueIs, QueueIsNext
<1>3. ItemsFit(off, f, b, n) /\ ItemsFit(off, f + 1, b, n)'
  BY <1>1, ItemsType, ItemsTypeNext
<1>4. /\ q \in Seq(Entry) /\ p \in Seq(Entry)
      /\ Len(q) = n - f /\ Len(p) = n - (f + 1)
      /\ \A i \in f .. n : i < n => q[i - f + 1] = Item(off, b, i)
      /\ \A i \in (f + 1) .. n : i < n => p[i - (f + 1) + 1] = Item(off, b, i)'
  BY <1>3 DEF ItemsFit
<1>5. q[1] = Item(off, b, f)
  <2>1. f - f + 1 = 1
    OBVIOUS
  <2> HIDE DEF q
  <2> QED
    BY <1>1, <1>4, <2>1
<1>6. Item(off, b, f).status = "read"
  BY <1>1 DEF Ring, Marked, Item, Stage
<1>7. ASSUME NEW k \in 1 .. (n - (f + 1))
      PROVE  p[k] = q[k + 1]
  <2>1. PICK i : i = f + k
    OBVIOUS
  <2>2. /\ i \in f .. n /\ i \in (f + 1) .. n /\ i < n
        /\ i - f + 1 = k + 1 /\ i - (f + 1) + 1 = k
    BY <2>1
  <2>3. q[i - f + 1] = Item(off, b, i) /\ p[i - (f + 1) + 1] = Item(off, b, i)'
    BY <1>4, <2>2
  <2>4. Item(off, b, i)' = Item(off, b, i)
    BY <2>2, ItemKept
  <2> QED
    BY <2>2, <2>3, <2>4
<1> HIDE DEF q, p
<1>8. q # << >>
  BY <1>1, <1>4
<1>9. p = Tail(q)
  <2>1. /\ Tail(q) \in Seq(Entry) /\ Len(Tail(q)) = n - f - 1
        /\ \A k \in 1 .. Len(Tail(q)) : Tail(q)[k] = q[k + 1]
    BY <1>4, <1>8, HeadTailProperties
  <2>2. Len(p) = Len(Tail(q)) /\ \A k \in 1 .. Len(p) : p[k] = Tail(q)[k]
    BY <1>1, <1>4, <1>7, <2>1
  <2> QED
    BY <1>4, <2>1, <2>2, SeqEqual
<1>10. Head(q) = q[1]
  BY <1>4, <1>8
<1> QED
  BY <1>2, <1>5, <1>6, <1>8, <1>9, <1>10 DEF Fifo!TakeBack

\* One packet changes its status, the others stay as they are.
Changes(off, f, b, b2, n, j, to) ==
  /\ Item(off, b2, j)' = [Item(off, b, j) EXCEPT !.status = to]
  /\ \A i \in f .. n : i < n /\ i # j => Item(off, b2, i)' = Item(off, b, i)

LEMMA StatusSet ==
  ASSUME PhaseInv, PhaseInv', ~cancelled, ~cancelled',
         NEW off, NEW f \in Nat, NEW r \in Nat, NEW b \in Nat, NEW w \in Nat, NEW n \in Nat,
         Ring(off, f, r, b, w, n),
         NEW b2 \in Nat, Ring(off, f, r, b2, w, n)',
         NEW j \in f .. n, j < n, NEW from, NEW to,
         Item(off, b, j).status = from,
         Changes(off, f, b, b2, n, j, to)
  PROVE  /\ j - f + 1 \in DOMAIN Queue
         /\ Fifo!SetStatus(j - f + 1, from, to)
<1> DEFINE q == Items(off, f, b, n)
           p == Items(off, f, b2, n)'
           m == j - f + 1
<1>1. Queue = q /\ Queue' = p
  BY QueueIs, QueueIsNext
<1>2. ItemsFit(off, f, b, n) /\ ItemsFit(off, f, b2, n)'
  BY ItemsType, ItemsTypeNext
<1>3. /\ q \in Seq(Entry) /\ p \in Seq(Entry)
      /\ Len(q) = n - f /\ Len(p) = n - f /\ DOMAIN q = 1 .. (n - f) /\ n - f \in Nat
      /\ \A i \in f .. n : i < n => q[i - f + 1] = Item(off, b, i)
      /\ \A i \in f .. n : i < n => p[i - f + 1] = Item(off, b2, i)'
      /\ \A i \in f .. n : Item(off, b, i) \in Entry
  BY <1>2 DEF ItemsFit
<1>4. m \in 1 .. (n - f) /\ q[m] = Item(off, b, j) /\ p[m] = [q[m] EXCEPT !.status = to]
  <2>1. m \in 1 .. (n - f)
    OBVIOUS
  <2>2. q[m] = Item(off, b, j) /\ p[m] = Item(off, b2, j)'
    BY <1>3
  <2>3. Item(off, b2, j)' = [Item(off, b, j) EXCEPT !.status = to]
    BY DEF Changes
  <2> HIDE DEF q, p, m
  <2> QED
    BY <2>1, <2>2, <2>3
<1>5. ASSUME NEW k \in 1 .. (n - f), k # m
      PROVE  p[k] = q[k]
  <2>1. PICK i : i = f + k - 1
    OBVIOUS
  <2>2. i \in f .. n /\ i < n /\ i # j /\ i - f + 1 = k
    BY <1>5, <2>1
  <2>3. q[k] = Item(off, b, i) /\ p[k] = Item(off, b2, i)'
    BY <1>3, <2>2
  <2>4. Item(off, b2, i)' = Item(off, b, i)
    BY <2>2 DEF Changes
  <2> QED
    BY <2>3, <2>4
<1> HIDE DEF q, p, m
<1>6. PICK e : e = [q[m] EXCEPT !.status = to]
  OBVIOUS
<1>7. p = [q EXCEPT ![m] = e]
  <2>1. PICK s : s = [q EXCEPT ![m] = e]
    OBVIOUS
  <2>2. p = [k \in 1 .. (n - f) |-> p[k]]
    BY <1>3
  <2>3. s = [k \in 1 .. (n - f) |-> IF k = m THEN e ELSE q[k]]
    BY <1>3, <1>4, <2>1
  <2>4. \A k \in 1 .. (n - f) : p[k] = IF k = m THEN e ELSE q[k]
    BY <1>4, <1>5, <1>6
  <2> QED
    BY <2>1, <2>2, <2>3, <2>4
<1>8. p = [q EXCEPT ![m].status = to]
  BY <1>6, <1>7
<1> QED
  BY <1>1, <1>3, <1>4, <1>8 DEF Fifo!SetStatus, m

\* ps_packet_openread opens the oldest packet that nobody has opened.
LEMMA Opened ==
  ASSUME PhaseInv, PhaseInv', ~cancelled, ~cancelled', NEW t \in Threads,
         NEW off, NEW f \in Nat, NEW r \in Nat, NEW b \in Nat, NEW w \in Nat, NEW n \in Nat,
         Ring(off, f, r, b, w, n), ReadWait(t)
  PROVE  \E i \in DOMAIN Queue : Fifo!OpenOldest(i)
<1>1. b + 1 \in Nat /\ Ring(off, f, r, b + 1, w, n)'
  BY ReadWaitRing
<1>2. memory' = memory /\ written_packets > 0 /\ written_packets = w - b
  BY DEF ReadWait, Ring, Indexed
<1>3. f <= b /\ b < w /\ b < n /\ b \in f .. n
  BY <1>2 DEF Ring, Indexed
<1>4. ASSUME NEW i \in f .. n
      PROVE  HeaderAt(off, i)' = HeaderAt(off, i)
  BY <1>2 DEF HeaderAt, Place
<1>5. Item(off, b, b).status = "written"
  BY <1>3 DEF Ring, Marked, Item, Stage
<1>6. Item(off, b + 1, b)' = [Item(off, b, b) EXCEPT !.status = "reading"]
  <2>1. "READ" \notin HeaderAt(off, b).flags
    BY <1>3 DEF Ring, Marked
  <2>2. HeaderAt(off, b)' = HeaderAt(off, b)
    BY <1>3, <1>4
  <2> QED
    BY <2>1, <2>2 DEF Item, Stage
<1>7. \A i \in f .. n : i < n /\ i # b => Item(off, b + 1, i)' = Item(off, b, i)
  <2> SUFFICES ASSUME NEW i \in f .. n, i # b
               PROVE  Item(off, b + 1, i)' = Item(off, b, i)
    OBVIOUS
  <2>1. HeaderAt(off, i)' = HeaderAt(off, i)
    BY <1>4
  <2>2. i < b + 1 <=> i < b
    OBVIOUS
  <2> QED
    BY <2>1, <2>2 DEF Item, Stage
<1>8. b - f + 1 \in DOMAIN Queue /\ Fifo!SetStatus(b - f + 1, "written", "reading")
  <2>1. Changes(off, f, b, b + 1, n, b, "reading")
    BY <1>6, <1>7 DEF Changes
  <2> QED
    BY <1>1, <1>3, <1>5, <2>1, StatusSet
<1>9. \A k \in 1 .. ((b - f + 1) - 1) : Queue[k].status \in {"reading", "read"}
  <2> SUFFICES ASSUME NEW k \in 1 .. ((b - f + 1) - 1)
               PROVE  Queue[k].status \in {"reading", "read"}
    OBVIOUS
  <2>1. PICK i : i = f + k - 1
    OBVIOUS
  <2>2. i \in f .. n /\ i < n /\ i < b /\ i - f + 1 = k
    BY <1>3, <2>1
  <2>3. Queue[k] = Item(off, b, i)
    <3>1. Queue = Items(off, f, b, n)
      BY QueueIs
    <3>2. ItemsFit(off, f, b, n)
      BY ItemsType
    <3>3. Items(off, f, b, n)[i - f + 1] = Item(off, b, i)
      BY <2>2, <3>2 DEF ItemsFit
    <3> QED
      BY <2>2, <3>1, <3>3
  <2> QED
    BY <2>2, <2>3 DEF Item, Stage
<1> QED
  BY <1>8, <1>9 DEF Fifo!OpenOldest

\* ps_packet_close marks one packet, whatever its place in the queue.
LEMMA Closed ==
  ASSUME PhaseInv, PhaseInv', ~cancelled, ~cancelled', NEW t \in Threads,
         NEW off, NEW f \in Nat, NEW r \in Nat, NEW b \in Nat, NEW w \in Nat, NEW n \in Nat,
         Ring(off, f, r, b, w, n), LockClose(t)
  PROVE  \E i \in DOMAIN Queue : Fifo!Publish(i) \/ Fifo!CloseRead(i)
<1>1. Ring(off, f, r, b, w, n)'
  BY LockCloseRing
<1>2. /\ f <= r /\ r <= b /\ b <= w /\ w <= n
      /\ TypeOK /\ Laid(off, f, n) /\ f <= n
      /\ Used(off, r, b, w, n)
  BY RingFacts DEF Indexed
<1>3. /\ At(t, "close") /\ InUse(t) /\ mutex["write"] # t
      /\ memory' = [memory EXCEPT ![packet[t].buffer_pos].flags = @ \cup {CloseFlag(t)}]
  BY ClosingPlace DEF LockClose
<1>4. ASSUME NEW j \in f .. n, packet[t].buffer_pos = Place(off, j)
      PROVE  /\ HeaderAt(off, j)'
                  = [HeaderAt(off, j) EXCEPT !.flags = @ \cup {CloseFlag(t)}]
             /\ \A i \in f .. n : i # j => HeaderAt(off, i)' = HeaderAt(off, i)
             /\ HeaderAt(off, j) \in Header
  <2>1. Place(off, j) \in HeaderPos /\ HeaderAt(off, j) \in Header
    BY <1>2, Window
  <2>2. memory \in [HeaderPos -> Header]
    BY <1>2 DEF TypeOK
  <2>3. \A i : Place(off, i)' = Place(off, i)
    BY DEF Place
  <2>4. \A i \in f .. n : i # j => Place(off, i) \in HeaderPos /\ Place(off, i) # Place(off, j)
    BY <1>2, Window, PlacesDiffer
  <2>5. /\ memory'[Place(off, j)]
             = [memory[Place(off, j)] EXCEPT !.flags = @ \cup {CloseFlag(t)}]
        /\ \A p \in HeaderPos : p # Place(off, j) => memory'[p] = memory[p]
    BY <1>3, <1>4, <2>1, <2>2
  <2> QED
    BY <2>1, <2>3, <2>4, <2>5 DEF HeaderAt
<1>5. CASE t \in Producers
  <2>1. PICK j \in w .. n : /\ j < n /\ packet[t].buffer_pos = Place(off, j)
                            /\ "WRITTEN" \notin HeaderAt(off, j).flags
    BY <1>2, <1>3, <1>5 DEF Used
  <2>2. j \in f .. n /\ ~(j < b) /\ CloseFlag(t) = "WRITTEN"
    BY <1>2, <1>5 DEF CloseFlag
  <2>3. Item(off, b, j).status = "filling"
    BY <2>1, <2>2 DEF Item, Stage
  <2>4. HeaderAt(off, j)' = [HeaderAt(off, j) EXCEPT !.flags = @ \cup {"WRITTEN"}]
    BY <1>4, <2>1, <2>2
  <2>5. HeaderAt(off, j)'.size = HeaderAt(off, j).size /\ "WRITTEN" \in HeaderAt(off, j)'.flags
    BY <1>4, <2>1, <2>2, <2>4 DEF Header
  <2>6. Item(off, b, j)' = [Item(off, b, j) EXCEPT !.status = "written"]
    BY <2>2, <2>5 DEF Item, Stage
  <2>7. \A i \in f .. n : i < n /\ i # j => Item(off, b, i)' = Item(off, b, i)
    BY <1>4, <2>1, <2>2 DEF Item, Stage
  <2>8. Changes(off, f, b, b, n, j, "written")
    BY <2>6, <2>7 DEF Changes
  <2>9. j - f + 1 \in DOMAIN Queue /\ Fifo!SetStatus(j - f + 1, "filling", "written")
    BY <1>1, <2>1, <2>2, <2>3, <2>8, StatusSet
  <2> QED
    BY <2>9 DEF Fifo!Publish
<1>6. CASE t \in Consumers
  <2>1. PICK j \in r .. b : /\ j < b /\ packet[t].buffer_pos = Place(off, j)
                            /\ HeaderAt(off, j).flags = {"WRITTEN"}
    BY <1>2, <1>3, <1>6 DEF Used
  <2>2. j \in f .. n /\ j < n /\ CloseFlag(t) = "READ"
    BY <1>2, <1>6, <2>1, ThreadAssumption DEF CloseFlag
  <2>3. Item(off, b, j).status = "reading"
    BY <2>1, <2>2 DEF Item, Stage
  <2>4. HeaderAt(off, j)' = [HeaderAt(off, j) EXCEPT !.flags = @ \cup {"READ"}]
    BY <1>4, <2>1, <2>2
  <2>5. HeaderAt(off, j)'.size = HeaderAt(off, j).size /\ "READ" \in HeaderAt(off, j)'.flags
    BY <1>4, <2>1, <2>2, <2>4 DEF Header
  <2>6. Item(off, b, j)' = [Item(off, b, j) EXCEPT !.status = "read"]
    BY <2>1, <2>5 DEF Item, Stage
  <2>7. \A i \in f .. n : i < n /\ i # j => Item(off, b, i)' = Item(off, b, i)
    BY <1>4, <2>1, <2>2 DEF Item, Stage
  <2>8. Changes(off, f, b, b, n, j, "read")
    BY <2>6, <2>7 DEF Changes
  <2>9. j - f + 1 \in DOMAIN Queue /\ Fifo!SetStatus(j - f + 1, "reading", "read")
    BY <1>1, <2>1, <2>2, <2>3, <2>8, StatusSet
  <2> QED
    BY <2>9 DEF Fifo!CloseRead
<1> QED
  BY <1>5, <1>6 DEF Threads

-----------------------------------------------------------------------------
(* The bytes the packets take.                                             *)

\* The recursion that defines Taken has a solution.
LEMMA TakenIs ==
  ASSUME Queue \in Seq(Entry)
  PROVE  /\ Fifo!Taken[0] = 0
         /\ \A k \in 1 .. Len(Queue) :
              Fifo!Taken[k] = Fifo!Taken[k - 1] + HeaderSize + Queue[k].size
<1>1. PICK m, q : m = Len(Queue) /\ q = Queue
  OBVIOUS
<1>2. m \in Nat /\ \A k \in 1 .. m : q[k].size \in Nat
  <2>1. m \in Nat /\ \A k \in 1 .. m : q[k] \in Entry
    BY <1>1, LenProperties, ElementOfSeq
  <2> QED
    BY <2>1 DEF Entry
<1>3. PICK step : step = [k \in 1 .. m |-> [x \in Nat |-> x + HeaderSize + q[k].size]]
  OBVIOUS
<1>13. ASSUME NEW k \in 1 .. m, NEW x \in Nat
       PROVE  step[k][x] = x + HeaderSize + q[k].size
  <2>1. step[k] = [y \in Nat |-> y + HeaderSize + q[k].size]
    BY <1>3
  <2> QED
    BY <2>1
<1>4. \A k \in 1 .. m : \A x \in Nat : step[k][x] \in Nat
  <2> SUFFICES ASSUME NEW k \in 1 .. m, NEW x \in Nat
               PROVE  step[k][x] \in Nat
    OBVIOUS
  <2>1. q[k].size \in Nat /\ HeaderSize \in Nat
    BY <1>2, RingAssumption
  <2>2. step[k][x] = x + HeaderSize + q[k].size
    BY <1>13
  <2> QED
    BY <2>1, <2>2
<1>5. 0 \in Nat
  OBVIOUS
<1>6. PICK f : Follows(f, m, 0, step)
  BY <1>2, <1>4, <1>5, RecursionTo
<1>7. f = [k \in 0 .. m |-> IF k = 0 THEN 0 ELSE step[k][f[k - 1]]]
  BY <1>6 DEF Follows
<1>8. \A k \in 0 .. m : f[k] \in Nat
  <2> DEFINE S == {k \in 0 .. m : f[k] \in Nat}
  <2>1. 0 \in S
    BY <1>2, <1>7
  <2>2. ASSUME NEW k \in 1 .. m, k - 1 \in S
        PROVE  k \in S
    BY <1>4, <1>7, <2>2
  <2> HIDE DEF S
  <2>3. \A k \in 0 .. m : k \in S
    BY <1>2, <2>1, <2>2, InductionTo
  <2> QED
    BY <2>3 DEF S
<1>9. f = [k \in 0 .. m |-> IF k = 0 THEN 0 ELSE f[k - 1] + HeaderSize + q[k].size]
  <2>1. \A k \in 0 .. m : k # 0 => step[k][f[k - 1]] = f[k - 1] + HeaderSize + q[k].size
    <3> SUFFICES ASSUME NEW k \in 1 .. m
                 PROVE  step[k][f[k - 1]] = f[k - 1] + HeaderSize + q[k].size
      BY <1>2
    <3>1. k - 1 \in 0 .. m /\ f[k - 1] \in Nat
      BY <1>2, <1>8
    <3> QED
      BY <1>13, <3>1
  <2> QED
    BY <1>7, <2>1
<1>10. \E g : g = [k \in 0 .. Len(Queue) |->
                     IF k = 0 THEN 0 ELSE g[k - 1] + HeaderSize + Queue[k].size]
  BY <1>1, <1>9
<1>11. Fifo!Taken = [k \in 0 .. Len(Queue) |->
                       IF k = 0 THEN 0 ELSE Fifo!Taken[k - 1] + HeaderSize + Queue[k].size]
  BY <1>10 DEF Fifo!Taken
<1>12. Len(Queue) \in Nat
  OBVIOUS
<1> QED
  BY <1>11, <1>12

\* No more than what lies between the oldest one and the one being built.
LEMMA OccupiedFits ==
  ASSUME PhaseInv, ~cancelled,
         NEW off, NEW f \in Nat, NEW r \in Nat, NEW b \in Nat, NEW w \in Nat, NEW n \in Nat,
         Ring(off, f, r, b, w, n)
  PROVE  Fifo!Occupied \in Nat /\ Fifo!Occupied <= off[n] - off[f]
<1> DEFINE T == Fifo!Taken
           S == {k \in 0 .. (n - f) : T[k] \in Nat /\ T[k] <= off[f + k] - off[f]}
<1>1. /\ Queue \in Seq(Entry) /\ Len(Queue) = n - f /\ n - f \in Nat
      /\ \A i \in f .. n : i < n => Queue[i - f + 1] = Item(off, b, i)
  <2>1. Queue = Items(off, f, b, n)
    BY QueueIs
  <2>2. ItemsFit(off, f, b, n)
    BY ItemsType
  <2> QED
    BY <2>1, <2>2 DEF ItemsFit
<1>2. T[0] = 0 /\ \A k \in 1 .. (n - f) : T[k] = T[k - 1] + HeaderSize + Queue[k].size
  BY <1>1, TakenIs
<1>3. TypeOK /\ f <= n /\ Laid(off, f, n)
  BY RingFacts
<1>9. f \in f .. n /\ n \in f .. n
  BY <1>3
<1> HIDE DEF T
<1>4. 0 \in S
  <2>1. off[f] \in Nat
    BY <1>3, <1>9, Window
  <2> QED
    BY <1>1, <1>2, <2>1
<1>5. ASSUME NEW k \in 1 .. (n - f), k - 1 \in S
      PROVE  k \in S
  <2>1. PICK i : i = f + (k - 1)
    OBVIOUS
  <2>2. i \in f .. n /\ i + 1 \in f .. n /\ i < i + 1 /\ i < n /\ i - f + 1 = k /\ i + 1 = f + k
    BY <2>1
  <2>3. Queue[k].size = HeaderAt(off, i).size
    <3>1. Queue[i - f + 1] = Item(off, b, i)
      BY <1>1, <2>2
    <3> QED
      BY <2>2, <3>1 DEF Item
  <2>4. /\ off[i] \in Nat /\ off[i + 1] \in Nat /\ off[f] \in Nat
        /\ HeaderAt(off, i).size \in Nat
    BY <1>3, <1>9, <2>2, Window
  <2>5. off[i] + HeaderSize + HeaderAt(off, i).size <= off[i + 1]
    BY <1>3, <2>2 DEF Laid
  <2>6. T[k - 1] \in Nat /\ T[k - 1] <= off[i] - off[f]
    BY <1>5, <2>1
  <2>7. T[k] = T[k - 1] + HeaderSize + HeaderAt(off, i).size
    BY <1>2, <2>3
  <2>8. T[k] \in Nat /\ T[k] <= off[i + 1] - off[f]
    BY <2>4, <2>5, <2>6, <2>7, RingAssumption
  <2> QED
    BY <2>2, <2>8
<1> HIDE DEF S
<1>6. \A k \in 0 .. (n - f) : k \in S
  BY <1>1, <1>4, <1>5, InductionTo
<1>7. n - f \in S /\ f + (n - f) = n
  BY <1>1, <1>6
<1>8. T[n - f] \in Nat /\ T[n - f] <= off[n] - off[f]
  BY <1>7 DEF S
<1> QED
  BY <1>1, <1>8 DEF Fifo!Occupied, T

-----------------------------------------------------------------------------
(* No packet is larger than what the callers build.                        *)

SizesFit ==
  /\ TypeOK
  /\ \A p \in HeaderPos : memory[p].size <= MaxSize
  /\ \A t \in Threads : call[t].op # "commit" => call[t].len <= MaxSize

\* What is stored over headers is no larger either.
LEMMA StoreFits ==
  ASSUME NEW m \in [HeaderPos -> Header], \A p \in HeaderPos : m[p].size <= MaxSize,
         NEW pos, NEW len
  PROVE  /\ \A p \in HeaderPos : StoreHeader(m, pos, NullHeader)[p].size <= MaxSize
         /\ \A p \in HeaderPos : StoreData(m, pos, len)[p].size <= MaxSize
BY SizeAssumption DEF StoreHeader, StoreData, NullHeader, DataAsHeader

\* A step of a thread keeps sizes within MaxSize.
LEMMA StepSizes ==
  ASSUME SizesFit, TypeOK', NEW t \in Threads, Open(t) \/ ThreadStep(t) \/ ThreadEvent(t)
  PROVE  SizesFit'
<1> DEFINE Fit == /\ \A p \in HeaderPos : memory'[p].size <= MaxSize
                  /\ \A u \in Threads : call'[u].op # "commit" => call'[u].len <= MaxSize
<1> SUFFICES Fit
  BY DEF SizesFit
<1>1. /\ memory \in [HeaderPos -> Header] /\ \A p \in HeaderPos : memory[p].size <= MaxSize
      /\ call \in [Threads -> Call]
      /\ \A u \in Threads : call[u].op # "commit" => call[u].len <= MaxSize
      /\ packet[t].buffer_pos \in HeaderPos /\ write_next \in HeaderPos
  BY DEF SizesFit, TypeOK, Packet
<1>2. MaxSize \in Nat /\ NoCall.len = 0 /\ SetSizes \subseteq 0 .. MaxSize
  BY SizeAssumption DEF NoCall
<1>3. ASSUME memory' = memory,
             \A u \in Threads : call'[u] = call[u] \/ call'[u] = NoCall
      PROVE  Fit
  BY <1>1, <1>2, <1>3
<1>4. ASSUME UNCHANGED memory, NEW op, NEW len \in Nat, NEW reserved, NEW closing,
             CallReserve(t, op, len, reserved, closing), op # "commit" => len <= MaxSize
      PROVE  Fit
  BY <1>1, <1>4 DEF CallReserve
<1>5. CASE \/ Open(t) \/ OpenBusy(t) \/ OpenCancelled(t) \/ OpenRead(t)
           \/ ReadWait(t) \/ ReadWaitFails(t)
           \/ ReserveWait(t) \/ ReserveCancelled(t) \/ ReserveDrain(t) \/ ReserveBusy(t)
           \/ ReserveInterrupted(t)
           \/ Post(t) \/ ScanOn(t) \/ ScanEnd(t) \/ DestroyPacket(t) \/ Kill(t)
  <2>1. memory' = memory
    BY <1>5 DEF ringVars, ReturnsIdle, ReserveFails, Open, OpenBusy, OpenCancelled, OpenRead,
       ReadWait, ReadWaitFails, ReserveWait, ReserveCancelled, ReserveDrain, ReserveBusy,
       ReserveInterrupted, Post, ScanOn, ScanEnd, DestroyPacket, Kill
  <2>2. call' = call \/ call' = [call EXCEPT ![t] = NoCall]
    BY <1>5 DEF ReturnsIdle, ReserveFails, Open, OpenBusy, OpenCancelled, OpenRead,
       ReadWait, ReadWaitFails, ReserveWait, ReserveCancelled, ReserveDrain, ReserveBusy,
       ReserveInterrupted, Post, ScanOn, ScanEnd, DestroyPacket, Kill
  <2> HIDE DEF Fit
  <2> QED
    BY <1>1, <1>3, <2>1, <2>2
<1>6. CASE OpenWrite(t) \/ CancelPacket(t) \/ CommitSize(t)
  <2>1. PICK pos : memory' = StoreHeader(memory, pos, NullHeader)
    BY <1>6 DEF OpenWrite, CancelPacket, CommitSize, NextHeaderSet
  <2>2. call' = call \/ call' = [call EXCEPT ![t] = NoCall]
    BY <1>6 DEF OpenWrite, CancelPacket, CommitSize
  <2>3. \A p \in HeaderPos : memory'[p].size <= MaxSize
    BY <1>1, <2>1, StoreFits
  <2> QED
    BY <1>1, <1>2, <2>2, <2>3
<1>7. CASE FinishWrite(t)
  <2>1. PICK s : s = StoreUpTo(t, call[t].len)
    OBVIOUS
  <2>2. /\ memory' = [s EXCEPT ![packet[t].buffer_pos].size = Larger(@, call[t].len)]
        /\ call' = [call EXCEPT ![t] = NoCall]
        /\ call[t].op = "write"
    BY <1>7, <2>1 DEF FinishWrite
  <2>3. s \in [HeaderPos -> Header] /\ \A p \in HeaderPos : s[p].size <= MaxSize
    BY <1>1, <2>1, StoreFits, StoreType, NullHeaderType DEF StoreUpTo
  <2>4. call[t].len \in Nat /\ call[t].len <= MaxSize
    BY <1>1, <2>2 DEF Call
  <2>5. \A p \in HeaderPos : memory'[p].size <= MaxSize
    BY <1>1, <1>2, <2>2, <2>3, <2>4 DEF Larger, Header
  <2>6. \A u \in Threads : call'[u].op # "commit" => call'[u].len <= MaxSize
    BY <1>1, <1>2, <2>2
  <2> QED
    BY <2>5, <2>6
<1>8. CASE \E k \in WriteSizes : WriteSized(t, k)
  <2>1. PICK k \in WriteSizes : WriteSized(t, k)
    BY <1>8
  <2>2. memory' = StoreUpTo(t, packet[t].pos + k) /\ call' = call
    BY <2>1 DEF WriteSized
  <2>3. \A p \in HeaderPos : memory'[p].size <= MaxSize
    BY <1>1, <2>2, StoreFits DEF StoreUpTo
  <2> QED
    BY <1>1, <2>2, <2>3
<1>9. CASE FinishSetSize(t)
  <2>1. /\ memory' = [memory EXCEPT ![packet[t].buffer_pos].size = call[t].len]
        /\ call[t].op = "setsize"
        /\ call' = [call EXCEPT ![t] =
                      [op |-> "commit", len |-> Footprint(write_next, call[t].len),
                       closing |-> call[t].closing]]
    BY <1>9 DEF FinishSetSize, CallReserve
  <2>2. call[t].len \in Nat /\ call[t].len <= MaxSize
    BY <1>1, <2>1 DEF Call
  <2>3. \A p \in HeaderPos : memory'[p].size <= MaxSize
    BY <1>1, <2>1, <2>2 DEF Header
  <2>4. \A u \in Threads : call'[u].op # "commit" => call'[u].len <= MaxSize
    BY <1>1, <2>1
  <2> QED
    BY <2>3, <2>4
<1>10. CASE \E k \in WriteSizes : Write(t, k)
  <2>1. PICK k \in WriteSizes : Write(t, k)
    BY <1>10
  <2>2. packet[t].pos + k \in Nat
    BY SizeAssumption DEF SizesFit, TypeOK, Packet
  <2>3. /\ UNCHANGED memory /\ packet[t].pos + k <= MaxSize
        /\ CallReserve(t, "write", packet[t].pos + k, packet[t].reserved, FALSE)
    BY <2>1 DEF Write
  <2> HIDE DEF Fit
  <2> QED
    BY <1>4, <2>2, <2>3
<1>11. CASE \E k \in SetSizes : SetSize(t, k)
  <2>1. PICK k \in SetSizes : SetSize(t, k)
    BY <1>11
  <2>2. k \in Nat /\ k <= MaxSize
    BY <1>2, <2>1
  <2>3. UNCHANGED memory /\ CallReserve(t, "setsize", k, packet[t].reserved, FALSE)
    BY <2>1 DEF SetSize
  <2> HIDE DEF Fit
  <2> QED
    BY <1>4, <2>2, <2>3
<1>12. CASE Close(t)
  <2>1. UNCHANGED memory
    BY <1>12 DEF Close
  <2>2. HeaderOf(t).size \in Nat /\ HeaderOf(t).size <= MaxSize
    BY <1>1 DEF HeaderOf, Header
  <2>3. \/ call' = call
        \/ CallReserve(t, "setsize", HeaderOf(t).size, packet[t].reserved, TRUE)
    BY <1>12 DEF Close
  <2> HIDE DEF Fit
  <2> QED
    BY <1>3, <1>4, <2>1, <2>2, <2>3
<1>13. CASE LockClose(t)
  <2>1. /\ memory' = [memory EXCEPT ![packet[t].buffer_pos].flags = @ \cup {CloseFlag(t)}]
        /\ call' = call
    BY <1>13 DEF LockClose
  <2> QED
    BY <1>1, <2>1 DEF Header
<1> HIDE DEF Fit
<1> QED
  BY <1>5, <1>6, <1>7, <1>8, <1>9, <1>10, <1>11, <1>12, <1>13
     DEF ThreadStep, ThreadEvent, ReserveStep, WriteCall, CloseStep

\* That holds of every state.
LEMMA SizesCorrect == Spec => []SizesFit
<1>1. Init => SizesFit
  BY InitType, SizeAssumption DEF Init, SizesFit, NullHeader, NoCall
<1>2. TypeOK' /\ SizesFit /\ [Next]_vars => SizesFit'
  <2> SUFFICES ASSUME TypeOK', SizesFit, [Next]_vars
               PROVE  SizesFit'
    OBVIOUS
  <2>1. ASSUME memory' = memory, call' = call
        PROVE  SizesFit'
    BY <2>1 DEF SizesFit
  <2>2. BufferCancel => memory' = memory /\ call' = call
    BY DEF BufferCancel, CancelFlag, CancelPostRead, CancelPostWritten, CancelUnlockRead,
           CancelUnlockWrite, ringVars, threadVars
  <2> QED
    BY <2>1, <2>2, StepSizes DEF Next, vars, ringVars, threadVars
<1> QED
  BY <1>1, <1>2, TypeCorrect, PTL DEF Spec

-----------------------------------------------------------------------------
(* A packet joins the queue when its size is committed.                    *)

\* The list ends an area's length after its oldest packet at most, also after a step.
LEMMA RoomNext ==
  ASSUME NEW off, NEW f \in Nat, NEW r \in Nat, NEW b \in Nat, NEW w \in Nat, NEW n \in Nat
  PROVE  (PhaseInv /\ ~cancelled /\ Ring(off, f, r, b, w, n)
            => off[n] \in Nat /\ off[n] + HeaderSize <= off[f] + Size)'
<1>1. PhaseInv /\ ~cancelled /\ Ring(off, f, r, b, w, n)
            => off[n] \in Nat /\ off[n] + HeaderSize <= off[f] + Size
  <2> SUFFICES ASSUME PhaseInv, ~cancelled, Ring(off, f, r, b, w, n)
               PROVE  off[n] \in Nat /\ off[n] + HeaderSize <= off[f] + Size
    OBVIOUS
  <2>1. TypeOK /\ f <= n /\ Laid(off, f, n)
    BY RingFacts
  <2>2. n \in f .. n
    BY <2>1
  <2> QED
    BY <2>1, <2>2, Window
<1> QED
  BY <1>1, PTL

\* CommitSize: the packet joins at the end of the queue, and it fits.
LEMMA Joined ==
  ASSUME PhaseInv, PhaseInv', ~cancelled, ~cancelled', SizesFit, NEW t \in Threads,
         NEW off, NEW f \in Nat, NEW r \in Nat, NEW b \in Nat, NEW w \in Nat, NEW n \in Nat,
         Ring(off, f, r, b, w, n), CommitSize(t)
  PROVE  \E size \in 0 .. MaxSize : Fifo!SetSize(size)
<1>15. PICK off2 : Ring(off2, f, r, b, w, n + 1)' /\ Prolongs(off2, off, f, n)
  BY CommitSizeRing
<1>1. /\ Ring(off2, f, r, b, w, n + 1)'
      /\ \A i \in f .. n : off2[i] = off[i] /\ HeaderAt(off2, i)' = HeaderAt(off, i)
  BY <1>15 DEF Prolongs
<1>14. TypeOK /\ f <= n /\ Laid(off, f, n)
  BY RingFacts
<1>2. /\ TypeOK /\ f <= n /\ Laid(off, f, n) /\ n + 1 \in Nat
      /\ b <= n /\ HeaderAt(off, n).flags = {}
  BY <1>14 DEF Ring, Indexed, Marked
<1>3. f \in f .. n /\ n \in f .. n
  BY <1>2
<1>4. PICK size : size = HeaderAt(off, n).size
  OBVIOUS
<1>5. size \in 0 .. MaxSize
  <2>1. Place(off, n) \in HeaderPos /\ size \in Nat
    BY <1>2, <1>3, <1>4, Window
  <2> QED
    BY <1>4, <2>1, SizeAssumption DEF SizesFit, HeaderAt
<1>6. Fifo!Occupied + size + 2 * HeaderSize <= Size
  <2>1. Fifo!Occupied \in Nat /\ Fifo!Occupied <= off[n] - off[f]
    BY OccupiedFits
  <2>2. off[n] \in Nat /\ off[f] \in Nat /\ off2[n] = off[n] /\ off2[f] = off[f]
    BY <1>1, <1>2, <1>3, Window
  <2>3. off2[n] + HeaderSize + HeaderAt(off2, n)'.size <= off2[n + 1]
    <3>1. Laid(off2, f, n + 1)'
      BY <1>1 DEF Ring
    <3>2. n \in f .. (n + 1) /\ n + 1 \in f .. (n + 1) /\ n < n + 1
      BY <1>2
    <3> QED
      BY <3>1, <3>2 DEF Laid
  <2>4. HeaderAt(off2, n)'.size = size
    BY <1>1, <1>3, <1>4
  <2>5. off2[n + 1] \in Nat /\ off2[n + 1] + HeaderSize <= off2[f] + Size
    BY <1>1, <1>2, RoomNext
  <2>6. off[n] + HeaderSize + size <= off2[n + 1]
    BY <2>2, <2>3, <2>4
  <2> QED
    BY <1>5, <2>1, <2>2, <2>5, <2>6, RingAssumption
<1> DEFINE q == Items(off, f, b, n)
           p == Items(off2, f, b, n + 1)'
           e == [size |-> size, status |-> "filling"]
<1>7. Queue = q /\ Queue' = p
  BY <1>1, <1>2, QueueIs, QueueIsNext
<1>8. ItemsFit(off, f, b, n) /\ ItemsFit(off2, f, b, n + 1)'
  BY <1>1, <1>2, ItemsType, ItemsTypeNext
<1>16. e \in Entry
  BY <1>5 DEF Entry
<1> HIDE DEF e
<1>9. /\ q \in Seq(Entry) /\ p \in Seq(Entry)
      /\ Len(q) = n - f /\ Len(p) = (n + 1) - f /\ n - f \in Nat
      /\ \A i \in f .. n : i < n => q[i - f + 1] = Item(off, b, i)
      /\ \A i \in f .. (n + 1) : i < n + 1 => p[i - f + 1] = Item(off2, b, i)'
  BY <1>8 DEF ItemsFit
<1>10. ASSUME NEW i \in f .. n
       PROVE  Item(off2, b, i)' = Item(off, b, i)
  <2>1. HeaderAt(off2, i)' = HeaderAt(off, i)
    BY <1>1
  <2> QED
    BY <2>1 DEF Item, Stage
<1>11. Item(off, b, n) = e
  BY <1>2, <1>4 DEF Item, Stage, e
<1> HIDE DEF q, p
<1>12. ASSUME NEW k \in 1 .. (n - f + 1)
       PROVE  p[k] = IF k <= n - f THEN q[k] ELSE e
  <2>1. PICK i : i = f + k - 1
    OBVIOUS
  <2>2. /\ i \in f .. n /\ i \in f .. (n + 1) /\ i < n + 1 /\ i - f + 1 = k
        /\ i < n <=> k <= n - f
    BY <2>1
  <2>3. p[k] = Item(off, b, i)
    BY <1>9, <1>10, <2>2
  <2>4. i < n => q[k] = Item(off, b, i)
    BY <1>9, <2>2
  <2>5. ~(i < n) => i = n
    BY <2>2
  <2> QED
    BY <1>11, <2>2, <2>3, <2>4, <2>5
<1>13. p = Append(q, e)
  <2>1. /\ Append(q, e) \in Seq(Entry) /\ Len(Append(q, e)) = n - f + 1
        /\ \A k \in 1 .. (n - f) : Append(q, e)[k] = q[k]
        /\ Append(q, e)[n - f + 1] = e
    BY <1>9, <1>16, AppendProperties
  <2>2. ASSUME NEW k \in 1 .. Len(p)
        PROVE  p[k] = Append(q, e)[k]
    <3>1. k \in 1 .. (n - f + 1) /\ (k <= n - f => k \in 1 .. (n - f))
          /\ (~(k <= n - f) => k = n - f + 1)
      BY <1>9
    <3> QED
      BY <1>12, <2>1, <3>1
  <2>3. Len(p) = Len(Append(q, e))
    BY <1>9, <2>1
  <2> QED
    BY <1>9, <2>1, <2>2, <2>3, SeqEqual
<1> QED
  BY <1>5, <1>6, <1>7, <1>13 DEF Fifo!SetSize, e

-----------------------------------------------------------------------------
(* Every step is one of the queue, or leaves it as it is.                  *)

\* A step of a thread is one of the queue or leaves it as it is.
LEMMA StepFifo ==
  ASSUME PhaseInv, PhaseInv', ~cancelled, ~cancelled', CommitUninterrupted, SizesFit,
         NEW t \in Threads,
         NEW off, NEW f \in Nat, NEW r \in Nat, NEW b \in Nat, NEW w \in Nat, NEW n \in Nat,
         Ring(off, f, r, b, w, n), Open(t) \/ ThreadStep(t) \/ ThreadEvent(t)
  PROVE  [Fifo!Next]_Queue
<1> DEFINE Goes == [Fifo!Next]_Queue
<1> SUFFICES Goes
  OBVIOUS
<1>1. ASSUME NEW r2 \in Nat, NEW w2 \in Nat, Ring(off, f, r2, b, w2, n)', Kept(off, f, n)
      PROVE  Goes
  BY <1>1, QueueKept
<1>2. ASSUME memory' = memory
      PROVE  Kept(off, f, n)
  BY <1>2 DEF Kept, HeaderAt, Place
<1>3. CASE \/ Open(t) \/ OpenBusy(t) \/ OpenRead(t) \/ ReadWaitFails(t) \/ Kill(t)
           \/ ScanOn(t)
           \/ ReserveDrain(t) /\ ~(read_packets > 0)
           \/ Close(t) /\ (t \in Consumers \/ SizeSet(t))
  <2>1. memory' = memory
    BY <1>3 DEF ringVars, ReturnsIdle, Open, OpenBusy, OpenRead, ReadWaitFails, Kill, ScanOn,
                ReserveDrain, Close
  <2> HIDE DEF Goes
  <2> QED
    BY <1>1, <1>2, <1>3, <2>1, QuietRing
<1>4. CASE \/ \E k \in WriteSizes : Write(t, k)
           \/ \E k \in SetSizes : SetSize(t, k)
           \/ Close(t) /\ ~(t \in Consumers \/ SizeSet(t))
           \/ ReserveBusy(t) \/ ReserveInterrupted(t)
  <2>1. memory' = memory
    BY <1>4 DEF Write, SetSize, Close, ReserveBusy, ReserveInterrupted, ReserveFails
  <2> HIDE DEF Goes
  <2> QED
    BY <1>1, <1>2, <1>4, <2>1, ClaimRing
<1>5. CASE ReserveWait(t) \/ (ReserveDrain(t) /\ read_packets > 0)
  <2>1. Ring(off, f + 1, r, b, w, n)'
    BY <1>5, ConsumeRing
  <2>2. memory' = memory /\ read_packets > 0
    BY <1>5 DEF ReserveWait, ReserveDrain
  <2>3. f < r
    BY <2>2 DEF Ring, Indexed
  <2>4. Fifo!TakeBack
    BY <1>2, <2>1, <2>2, <2>3, TakenBack
  <2> QED
    BY <2>4 DEF Fifo!Next
<1>6. CASE OpenWrite(t)
  <2> HIDE DEF Goes
  <2> QED
    BY <1>1, <1>6, OpenWriteRing
<1>7. CASE ReadWait(t)
  BY <1>7, Opened DEF Fifo!Next
<1>8. CASE FinishWrite(t)
  <2> HIDE DEF Goes
  <2> QED
    BY <1>1, <1>8, FinishWriteRing
<1>9. CASE FinishSetSize(t)
  <2> HIDE DEF Goes
  <2> QED
    BY <1>1, <1>9, FinishSetSizeRing
<1>10. CASE CommitSize(t)
  BY <1>10, Joined DEF Fifo!Next
<1>11. CASE \E k \in WriteSizes : WriteSized(t, k)
  <2> HIDE DEF Goes
  <2> QED
    BY <1>1, <1>11, WriteSizedRing
<1>12. CASE CancelPacket(t)
  <2> HIDE DEF Goes
  <2> QED
    BY <1>1, <1>12, CancelPacketRing
<1>13. CASE LockClose(t)
  BY <1>13, Closed DEF Fifo!Next
<1>14. CASE Post(t)
  <2>1. memory' = memory
    BY <1>14 DEF Post
  <2>2. CASE t \in Producers
    <3>1. w + 1 \in Nat /\ Ring(off, f, r, b, w + 1, n)'
      BY <1>14, <2>2, PostWrittenRing
    <3> HIDE DEF Goes
    <3> QED
      BY <1>1, <1>2, <2>1, <3>1
  <2>3. CASE t \in Consumers
    <3>1. r + 1 \in Nat /\ Ring(off, f, r + 1, b, w, n)'
      BY <1>14, <2>3, PostReadRing
    <3> HIDE DEF Goes
    <3> QED
      BY <1>1, <1>2, <2>1, <3>1
  <2> QED
    BY <2>2, <2>3 DEF Threads
<1>15. CASE ScanEnd(t)
  <2>1. memory' = memory
    BY <1>15 DEF ScanEnd
  <2> HIDE DEF Goes
  <2> QED
    BY <1>1, <1>2, <1>15, <2>1, ScanEndRing
<1> HIDE DEF Goes
<1>16. \/ Open(t) \/ OpenBusy(t) \/ OpenWrite(t) \/ OpenRead(t)
       \/ ReadWait(t) \/ ReadWaitFails(t)
       \/ ReserveWait(t) \/ ReserveDrain(t) \/ ReserveBusy(t) \/ ReserveInterrupted(t)
       \/ FinishWrite(t) \/ FinishSetSize(t) \/ CommitSize(t)
       \/ (\E k \in WriteSizes : Write(t, k)) \/ (\E k \in WriteSizes : WriteSized(t, k))
       \/ (\E k \in SetSizes : SetSize(t, k)) \/ CancelPacket(t)
       \/ Close(t) \/ LockClose(t) \/ Post(t) \/ ScanOn(t) \/ ScanEnd(t) \/ Kill(t)
  BY ThreadSteps DEF WriteCall, CloseStep
<1> QED
  BY <1>3, <1>4, <1>5, <1>6, <1>7, <1>8, <1>9, <1>10, <1>11, <1>12, <1>13, <1>14, <1>15,
     <1>16

\* The queue is read off shared memory alone.
LEMMA QueueUnchanged ==
  ASSUME UNCHANGED vars
  PROVE  Queue' = Queue
<1>1. /\ read_first' = read_first /\ read_next' = read_next /\ memory' = memory
      /\ mutex' = mutex /\ packet' = packet /\ write_next' = write_next
  BY DEF vars, ringVars, positions, threadVars
<1> QED
  BY <1>1 DEF Queue, Before, Walk, After, StatusAt, RingEnd, Free

\* The queue is empty at first.
LEMMA InitFifo == Init => Fifo!Init
<1> SUFFICES ASSUME Init
             PROVE  Queue = << >>
  BY DEF Fifo!Init
<1>1. TypeOK /\ Free("write") /\ RingEnd = read_first
  BY InitType DEF Init, Free, MutexNames, RingEnd
<1>2. MaxPackets \in Nat
  BY RingAssumption DEF MaxPackets
<1>3. Walk[0] = RingEnd
  BY <1>1, <1>2, WalkIs
<1>4. Before(RingEnd) = 0
  <2> DEFINE First(m) == /\ Walk[m] = RingEnd
                         /\ \A l \in 0 .. (m - 1) : Walk[l] # RingEnd
  <2>1. 0 \in 0 .. MaxPackets /\ First(0)
    BY <1>2, <1>3
  <2>2. ASSUME NEW m \in 0 .. MaxPackets, First(m)
        PROVE  m = 0
    <3>1. m # 0 => 0 \in 0 .. (m - 1)
      BY <1>2
    <3> QED
      BY <1>3, <2>2, <3>1
  <2> HIDE DEF First
  <2>3. (CHOOSE m \in 0 .. MaxPackets : First(m)) = 0
    BY <2>1, <2>2
  <2> QED
    BY <2>3 DEF Before, First
<1> QED
  BY <1>4 DEF Queue

\* ImplementsFifo: packets leave the ring in the order their sizes were set, each is
\* opened for reading once and only after it was written, and space is taken back from
\* the oldest packet once it has been read, for any number of threads, in whatever order
\* they close their packets.
THEOREM FifoCorrect == ~MayCancel /\ CommitUninterrupted => (Spec => ImplementsFifo)
<1>1. RingStays /\ RingStays' /\ SizesFit /\ [Next]_vars => [Fifo!Next]_Queue
  <2> SUFFICES ASSUME RingStays, RingStays', SizesFit, [Next]_vars
               PROVE  [Fifo!Next]_Queue
    OBVIOUS
  <2>1. PhaseInv /\ ~cancelled /\ CommitUninterrupted
    BY RingPicked DEF RingStays
  <2>2. PhaseInv' /\ ~cancelled'
    BY DEF RingStays, RingInv
  <2>3. PICK off : \E f, r, b, w, n \in Nat : Ring(off, f, r, b, w, n)
    BY RingPicked DEF RingStays
  <2>4. PICK f \in Nat, r \in Nat, b \in Nat, w \in Nat, n \in Nat :
          Ring(off, f, r, b, w, n)
    BY <2>3
  <2>5. ASSUME NEW t \in Threads, Open(t) \/ ThreadStep(t) \/ ThreadEvent(t)
        PROVE  [Fifo!Next]_Queue
    BY <2>1, <2>2, <2>4, <2>5, StepFifo
  <2>6. CASE UNCHANGED vars
    BY <2>6, QueueUnchanged
  <2>7. \/ \E t \in Threads : Open(t) \/ ThreadStep(t) \/ ThreadEvent(t)
        \/ UNCHANGED vars
    BY <2>1, <2>2, CancelledStays DEF PhaseInv, WriterInv
  <2> QED
    BY <2>5, <2>6, <2>7
<1> QED
  BY <1>1, InitFifo, StaysCorrect, SizesCorrect, PTL DEF Spec, ImplementsFifo, Fifo!Spec
=============================================================================
