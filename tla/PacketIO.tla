------------------------------ MODULE PacketIO ------------------------------
(***************************************************************************)
(* Positions inside one packet of src/common/packetstream.c: write, read,  *)
(* seek, setsize and dma, between opening and closing it.  The data wraps  *)
(* around the end of the area.  Where an area asked for with               *)
(* ps_packet_dma would wrap, the packet lends memory of its own (fake dma) *)
(* and writes it back when it is closed.                                   *)
(*                                                                         *)
(* Space is the business of PacketStream: ps_packet_reserve finds it here. *)
(* A call that is refused changes nothing, so only calls that return 0 are *)
(* actions.  malloc does not fail.                                         *)
(***************************************************************************)
EXTENDS PacketRing, Sequences, FiniteSetsExt

CONSTANTS
  Byte,      \* the values of a byte
  Unknown,   \* a byte nobody has stored, as found in the area or by malloc
  Lengths,   \* the lengths of transfers
  Starts,    \* where in the ring the packet may be opened
  MaxAreas,  \* bound on the length of the list packet->fake_dma
  MaxCalls   \* bound on the steps between opening and closing a packet

ASSUME IOAssumption ==
  /\ Unknown \notin Byte
  /\ Lengths \subseteq Nat \ {0}
  /\ Starts \subseteq HeaderPos
  /\ MaxAreas \in Nat /\ MaxCalls \in Nat

Content == Byte \cup {Unknown}
Position == 0 .. (Size - HeaderSize)
Data == UNION {[1 .. n -> Byte] : n \in Lengths}

VARIABLES
  data,        \* the bytes of buffer->buffer
  size,        \* header->size
  written,     \* the packet is waiting to be read
  buffer_pos, flags, pos, fake_dma,  \* of ps_packet_t
  lent,        \* the areas of the buffer itself ps_packet_dma has returned
  stored,      \* ghost: what the producer last stored at each position
  contested,   \* ghost: positions stored to both in a fake area and otherwise
  last,        \* ghost: position and bytes of the last transfer for a reader
  calls        \* counts up to MaxCalls

packetVars == <<buffer_pos, flags, pos, fake_dma>>
ghostVars == <<lent, stored, contested, last>>
vars == <<data, size, written, packetVars, ghostVars, calls>>

Area == [pos : Position, mem : Seq(Content), free : BOOLEAN]
NoTransfer == [from |-> 0, bytes |-> << >>]

\* An element of the list that is free; what it holds is overwritten when it is
\* used again.
FreeArea == [pos |-> 0, mem |-> << >>, free |-> TRUE]

\* The type invariant.
TypeOK ==
  /\ data \in [0 .. (Size - 1) -> Content]
  /\ size \in 0 .. Size /\ pos \in Nat /\ buffer_pos \in HeaderPos
  /\ written \in BOOLEAN
  /\ flags \in {{}, {"WRITE"}, {"WRITE", "SIZE_SET"}, {"READ"}}
  /\ fake_dma \in Seq(Area)
  /\ lent \subseteq [pos : Position, size : Nat]
  /\ stored \in [Position -> Content]
  /\ contested \subseteq Position
  /\ last \in [from : Nat, bytes : Seq(Content)]
  /\ calls \in 0 .. MaxCalls

Writing == "WRITE" \in flags
Reading == "READ" \in flags
Sized == "SIZE_SET" \in flags

\* Where the byte at position p of the packet is.
Cell(p) == (buffer_pos + HeaderSize + p) % Size

Span(from, n) == from .. (from + n - 1)
InUse == {i \in DOMAIN fake_dma : ~fake_dma[i].free}
SpanOf(area) == Span(area.pos, Len(area.mem))
FakePositions == UNION {SpanOf(fake_dma[i]) : i \in InUse}

\* What is at n positions of the packet.
Bytes(from, n) == [k \in 1 .. n |-> data[Cell(from + k - 1)]]

\* Mutant: what does not fit before the end is left out.
CopiedToEnd(d, from, bytes) ==
  [c \in DOMAIN d |->
     IF c >= Cell(from) /\ c - Cell(from) < Len(bytes) THEN bytes[c - Cell(from) + 1] ELSE d[c]]

\* The buffer d after bytes have been copied to a position, around its end if
\* they do not fit before it.
Copied(d, from, bytes) ==
  [c \in DOMAIN d |->
     LET k == Distance(Cell(from), c)
     IN  IF k < Len(bytes) THEN bytes[k + 1] ELSE d[c]]

\* Mutant: the first header is not counted.
FitsOneHeader(n) ==
  IF Sized \/ Reading THEN pos + n <= size ELSE pos + n + HeaderSize <= Size

\* Mutant: nothing limits a packet without a size.
FitsUnlessSized(n) == Sized \/ Reading => pos + n <= size

\* Whether n bytes from the position stay inside the packet, or may extend it.
Fits(n) ==
  IF Sized \/ Reading THEN pos + n <= size ELSE pos + n + 2 * HeaderSize <= Size

\* header->size after the position has moved to p.
Raised(p) == IF Writing /\ ~Sized /\ p > size THEN p ELSE size

Overlaid(from, bytes) ==
  [p \in DOMAIN stored |->
     IF p \in Span(from, Len(bytes)) THEN bytes[p - from + 1] ELSE stored[p]]

Init ==
  /\ data = [c \in 0 .. (Size - 1) |-> Unknown] /\ size = 0 /\ written = FALSE
  /\ buffer_pos = 0 /\ flags = {} /\ pos = 0 /\ fake_dma = << >>
  /\ lent = {} /\ stored = [p \in Position |-> Unknown] /\ contested = {}
  /\ last = NoTransfer /\ calls = 0

-----------------------------------------------------------------------------
\* The packet is opened in write mode wherever the ring has got to; earlier laps
\* have left anything there.
OpenWrite ==
  /\ flags = {} /\ ~written
  /\ buffer_pos' \in Starts
  /\ data' = [c \in DOMAIN data |-> Unknown] /\ size' = 0
  /\ flags' = {"WRITE"} /\ pos' = 0
  /\ stored' = [p \in Position |-> Unknown] /\ contested' = {} /\ lent' = {}
  /\ last' = NoTransfer
  /\ UNCHANGED <<written, fake_dma>>

OpenRead ==
  /\ flags = {} /\ written
  /\ flags' = {"READ"} /\ pos' = 0
  /\ UNCHANGED <<data, size, written, buffer_pos, fake_dma, ghostVars>>

\* A program does not write to a packet it has open for reading, which the code would
\* not refuse.
Write(bytes) ==
  /\ Writing /\ Fits(Len(bytes))
  /\ data' = Copied(data, pos, bytes)
  /\ pos' = pos + Len(bytes)
  /\ size' = Raised(pos')
  /\ stored' = Overlaid(pos, bytes)
  /\ contested' = contested \cup (Span(pos, Len(bytes)) \cap FakePositions)
  /\ last' = NoTransfer
  /\ UNCHANGED <<written, buffer_pos, flags, fake_dma, lent>>

\* ps_packet_read does not look at the mode.
Read(n) ==
  /\ Writing \/ Reading
  /\ pos + n <= size
  /\ last' = [from |-> pos, bytes |-> Bytes(pos, n)]
  /\ pos' = pos + n
  /\ UNCHANGED <<data, size, written, buffer_pos, flags, fake_dma, lent, stored, contested>>

\* Mutant: the header is not counted.
SeekableToEnd(p) == IF Sized \/ Reading THEN p <= size ELSE p <= Size

\* A position beyond the size extends the packet, up to where the data would run
\* into the packet's own header.
Seekable(p) == IF Sized \/ Reading THEN p <= size ELSE p + HeaderSize <= Size

Seek(p) ==
  /\ Writing \/ Reading
  /\ Seekable(p)
  /\ pos' = p /\ size' = Raised(p)
  /\ last' = NoTransfer
  /\ UNCHANGED <<data, written, buffer_pos, flags, fake_dma, lent, stored, contested>>

-----------------------------------------------------------------------------
Contiguous(n) == Cell(pos) + n <= Size

\* The area is in the buffer itself.
Dma(n) ==
  /\ Writing \/ Reading
  /\ Fits(n) /\ Contiguous(n)
  /\ pos' = pos + n /\ size' = Raised(pos')
  /\ lent' = IF Writing THEN lent \cup {[pos |-> pos, size |-> n]} ELSE lent
  /\ last' = IF Reading THEN [from |-> pos, bytes |-> Bytes(pos, n)] ELSE NoTransfer
  /\ UNCHANGED <<data, written, buffer_pos, flags, fake_dma, stored, contested>>

\* The first element of the list that is free is used again, else one is put in
\* front of it.
WithArea(area) ==
  LET free == DOMAIN fake_dma \ InUse
  IN  IF free = {} THEN <<area>> \o fake_dma
      ELSE [fake_dma EXCEPT ![Min(free)] = area]

\* With PS_ACCEPT_FAKE_DMA, memory of the packet's own stands in for an area that
\* would wrap.  A reader finds it filled by ps_packet_read, which has moved the
\* position already when ps_packet_dma moves it.
FakeDma(n) ==
  /\ Writing \/ Reading
  /\ Fits(n) /\ ~Contiguous(n)
  /\ InUse # DOMAIN fake_dma \/ Len(fake_dma) < MaxAreas
  /\ LET found == IF Reading THEN Bytes(pos, n) ELSE [k \in 1 .. n |-> Unknown]
     IN  /\ fake_dma' = WithArea([pos |-> pos, mem |-> found, free |-> FALSE])
         /\ last' = IF Reading THEN [from |-> pos, bytes |-> found] ELSE NoTransfer
  /\ pos' = IF Reading THEN pos + n + n ELSE pos + n
  /\ size' = Raised(pos')
  /\ contested' = contested \cup
       {p \in Span(pos, n) : Writing /\ (stored[p] # Unknown \/ p \in FakePositions)}
  /\ UNCHANGED <<data, written, buffer_pos, flags, lent, stored>>

\* The producer stores a byte in an area it was given, inside the packet.
StoreInBuffer(area, p, b) ==
  /\ Writing /\ p \in Span(area.pos, area.size) /\ p < size
  /\ data' = [data EXCEPT ![Cell(p)] = b]
  /\ stored' = [stored EXCEPT ![p] = b]
  /\ contested' = contested \cup ({p} \cap FakePositions)
  /\ UNCHANGED <<size, written, packetVars, lent, last>>

StoreInFake(i, p, b) ==
  /\ Writing /\ p \in SpanOf(fake_dma[i])
  /\ fake_dma' = [fake_dma EXCEPT ![i].mem[p - fake_dma[i].pos + 1] = b]
  /\ stored' = [stored EXCEPT ![p] = b]
  /\ UNCHANGED <<data, size, written, buffer_pos, flags, pos, lent, contested, last>>

-----------------------------------------------------------------------------
\* Mutant: areas that end behind the new size keep their length.
CutFreesOnly(n) ==
  [i \in DOMAIN fake_dma |->
     IF fake_dma[i].pos > n THEN FreeArea ELSE fake_dma[i]]

\* What is left of the areas when the packet gets its size.
Cut(n) ==
  [i \in DOMAIN fake_dma |->
     LET area == fake_dma[i]
     IN  IF area.pos > n THEN FreeArea
         ELSE IF area.pos + Len(area.mem) > n
              THEN [area EXCEPT !.mem = SubSeq(@, 1, n - area.pos)]
              ELSE area]

SetSize(n) ==
  /\ flags = {"WRITE"}
  /\ n + 2 * HeaderSize <= Size
  /\ size' = n /\ flags' = flags \cup {"SIZE_SET"}
  /\ fake_dma' = Cut(n)
  /\ last' = NoTransfer
  /\ UNCHANGED <<data, written, buffer_pos, pos, lent, stored, contested>>

\* Mutant: areas stay in use.
NotFreed == fake_dma
AllFree == [i \in DOMAIN fake_dma |-> FreeArea]

\* The buffer after the areas have been written back in the order of the list, each
\* over those before it: the area lent first comes last, unless it took a free
\* element's place.
Committed ==
  [c \in DOMAIN data |->
     LET Offset(i) == Distance(Cell(fake_dma[i].pos), c)
         over == {i \in InUse : Offset(i) < Len(fake_dma[i].mem)}
     IN  IF over = {} THEN data[c]
         ELSE fake_dma[Max(over)].mem[Offset(Max(over)) + 1]]

\* A packet that has no size yet gets the one it has grown to, which must be small
\* enough for ps_packet_setsize.  Nothing is cut then.
CloseWrite ==
  /\ Writing
  /\ Sized \/ size + 2 * HeaderSize <= Size
  /\ data' = Committed
  /\ fake_dma' = AllFree
  /\ written' = TRUE /\ flags' = {} /\ lent' = {} /\ last' = NoTransfer
  /\ pos' = 0
  /\ UNCHANGED <<size, buffer_pos, stored, contested>>

CancelPacket ==
  /\ flags = {"WRITE"}
  /\ fake_dma' = AllFree
  /\ size' = 0 /\ flags' = {} /\ pos' = 0 /\ lent' = {} /\ last' = NoTransfer
  /\ UNCHANGED <<data, written, buffer_pos, stored, contested>>

CloseRead ==
  /\ Reading
  /\ fake_dma' = AllFree
  /\ written' = FALSE /\ flags' = {} /\ pos' = 0 /\ last' = NoTransfer
  /\ UNCHANGED <<data, size, buffer_pos, lent, stored, contested>>

OpenOrClose == OpenWrite \/ OpenRead \/ CloseWrite \/ CancelPacket \/ CloseRead

Transfer ==
  \/ \E bytes \in Data : Write(bytes)
  \/ \E n \in Lengths : Read(n) \/ Dma(n) \/ FakeDma(n)
  \/ \E p \in 0 .. Size : Seek(p) \/ SetSize(p)
  \/ \E area \in lent, p \in Position, b \in Byte : StoreInBuffer(area, p, b)
  \/ \E i \in InUse, p \in Position, b \in Byte : StoreInFake(i, p, b)

Next ==
  \/ OpenOrClose /\ calls' = 0
  \/ Transfer /\ calls < MaxCalls /\ calls' = calls + 1

Spec == Init /\ [][Next]_vars

-----------------------------------------------------------------------------
\* What a reader is given, by ps_packet_read or in either kind of dma area, is
\* what the producer last stored at that position, by ps_packet_write or in
\* either kind of area, before or after ps_packet_setsize; except where a fake
\* area overlaps another store, which it overwrites when it is written back.
DeliveredAsStored ==
  Reading => \A k \in DOMAIN last.bytes :
    LET p == last.from + k - 1
    IN  p \in contested \/ stored[p] \in {Unknown, last.bytes[k]}

\* ps_packet_close finds every fake area inside the size the packet has by then,
\* so that neither the seek nor the write of ps_packet_fakedma_commitall can fail
\* with half of the areas written.
CommitCannotFail ==
  Writing => \A i \in InUse : fake_dma[i].pos + Len(fake_dma[i].mem) <= size

\* The data of a packet, however it grew, never comes round to its own header.
DataApartFromHeader ==
  {Cell(p) : p \in Span(0, size)} \cap Cells(buffer_pos, HeaderSize) = {}

\* ps_packet_seek accepts positions behind which ps_packet_close refuses the
\* packet with ENOBUFS.  Nothing has been stored there: giving the packet the
\* largest size there is lets it be closed without losing data.
RefusedLosesNothing ==
  \A p \in Position : p + 2 * HeaderSize >= Size => stored[p] = Unknown

\* No fake area of a packet that has been closed or cancelled is in use, where
\* the next one the same ps_packet_t opens would write it back.
NoStaleArea == flags = {} => InUse = {}
=============================================================================
