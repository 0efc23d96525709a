----------------------------- MODULE PacketFifo -----------------------------
(***************************************************************************)
(* What packetstream promises, without positions, semaphores or locks: a   *)
(* bounded queue of packets of different sizes.  Several producers fill    *)
(* their packets at the same time and finish in any order, but packets are *)
(* handed out for reading in the order their sizes were set; several       *)
(* consumers read at the same time and finish in any order, but space is   *)
(* taken back in order too.                                                *)
(***************************************************************************)
EXTENDS Naturals, Sequences

CONSTANTS
  Capacity,  \* bytes of the data area
  Header,    \* bytes every packet takes besides its data
  Sizes      \* the sizes a packet may have

VARIABLE ring  \* the packets that occupy space, oldest first

\* What became of a packet since its size was set.
Status == {"filling", "written", "reading", "read"}

TypeOK == ring \in Seq([size: Sizes, status: Status])

\* The bytes the first n packets take.
Taken[n \in 0 .. Len(ring)] ==
  IF n = 0 THEN 0 ELSE Taken[n - 1] + Header + ring[n].size

Occupied == Taken[Len(ring)]

Init == ring = << >>

SetStatus(i, from, to) ==
  ring[i].status = from /\ ring' = [ring EXCEPT ![i].status = to]

\* A producer sets the size of its packet; the next one may be opened, so room
\* for its header is left.
SetSize(size) ==
  /\ Occupied + size + 2 * Header <= Capacity
  /\ ring' = Append(ring, [size |-> size, status |-> "filling"])

\* A producer closes its packet, whichever it is.
Publish(i) == SetStatus(i, "filling", "written")

\* A consumer opens the oldest packet nobody has opened yet, which is written.
OpenOldest(i) ==
  /\ \A j \in 1 .. (i - 1) : ring[j].status \in {"reading", "read"}
  /\ SetStatus(i, "written", "reading")

\* A consumer closes its packet, whichever it is.
CloseRead(i) == SetStatus(i, "reading", "read")

\* Space is taken back from the oldest packet, once it has been read.
TakeBack ==
  /\ ring # << >> /\ Head(ring).status = "read"
  /\ ring' = Tail(ring)

Next ==
  \/ \E size \in Sizes : SetSize(size)
  \/ \E i \in DOMAIN ring : Publish(i) \/ OpenOldest(i) \/ CloseRead(i)
  \/ TakeBack

Spec == Init /\ [][Next]_ring
=============================================================================
