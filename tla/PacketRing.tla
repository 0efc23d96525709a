----------------------------- MODULE PacketRing -----------------------------
(***************************************************************************)
(* The layout of the packets of src/common/packetstream.c in the circular  *)
(* data area: a packet is a header of HeaderSize bytes that never wraps,   *)
(* followed by its data, which may.  When less than a header is left       *)
(* before the end of the area, the rest is skipped ("res" in               *)
(* ps_packet_setsize) and the next header goes to position 0.              *)
(*                                                                         *)
(* The contents of the area are abstracted to what a header placed at each *)
(* position would read as, stale headers of an earlier lap included.       *)
(***************************************************************************)
EXTENDS Integers

CONSTANTS
  Size,        \* state->size, the bytes of the data area
  HeaderSize   \* sizeof(struct ps_packet_header_s)

\* ps_bufferattr_setsize refuses an area smaller than two headers.
ASSUME RingAssumption ==
  /\ HeaderSize \in Nat \ {0}
  /\ Size \in Nat
  /\ Size >= 2 * HeaderSize

\* The positions at which a header fits.
HeaderPos == 0 .. (Size - HeaderSize)

\* Where the data of a packet at pos ends.
EndOf(pos, len) == (HeaderSize + pos + len) % Size

HeaderFits(pos) == pos + HeaderSize <= Size

\* Mutant: the end of the area is not skipped when no header fits there.
NextPosUnskipped(pos, len) == EndOf(pos, len)

\* The position of the packet that follows a packet of len data bytes at pos.
NextPos(pos, len) == IF HeaderFits(EndOf(pos, len)) THEN EndOf(pos, len) ELSE 0

\* The bytes skipped at the end of the area after that packet.
Waste(pos, len) ==
  IF HeaderFits(EndOf(pos, len)) THEN 0 ELSE Size - EndOf(pos, len)

\* Mutant: the skipped bytes are forgotten.
FootprintNoWaste(pos, len) == HeaderSize + len

\* What a packet takes from free_bytes: its data, the skipped bytes and the
\* header of the packet after it (its own was taken by its predecessor).
Footprint(pos, len) == HeaderSize + len + Waste(pos, len)

\* Bytes from one position forward to another.
Distance(from, to) == (to + Size - from) % Size

\* The bytes of the area that len bytes from pos occupy.
Cells(pos, len) == {(pos + i) % Size : i \in 0 .. (len - 1)}

-----------------------------------------------------------------------------
HeaderFlags == {"WRITTEN", "READ"}
Header == [flags: SUBSET HeaderFlags, size: Nat]

NullHeader == [flags |-> {}, size |-> 0]

\* Packet data read as if it were a header: the worst the bytes could say.
DataAsHeader == [flags |-> HeaderFlags, size |-> 0]

\* memory after a header has been stored at pos
StoreHeader(memory, pos, hdr) ==
  [p \in HeaderPos |->
     IF p = pos THEN hdr
     ELSE IF p - pos < HeaderSize /\ pos - p < HeaderSize THEN DataAsHeader
     ELSE memory[p]]

\* memory after len data bytes have been copied to pos, in two parts when they
\* wrap
StoreData(memory, pos, len) ==
  [p \in HeaderPos |->
     IF Cells(p, HeaderSize) \cap Cells(pos, len) # {} THEN DataAsHeader
     ELSE memory[p]]
=============================================================================
