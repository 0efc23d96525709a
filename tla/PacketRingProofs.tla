-------------------------- MODULE PacketRingProofs --------------------------
(***************************************************************************)
(* Lemmas about the layout of PacketRing.  They are stated for offsets: an *)
(* offset counts bytes without ever wrapping, and its place in the area is *)
(* what remains when it is divided by Size.  Packets that lie one behind   *)
(* the other at offsets less than Size apart share no byte of the area.    *)
(***************************************************************************)
EXTENDS PacketRing, TLAPS

-----------------------------------------------------------------------------
(* Offsets and places.                                                     *)

LEMMA Quotient ==
  ASSUME NEW x \in Nat
  PROVE  /\ x % Size \in 0 .. (Size - 1)
         /\ x \div Size \in Nat
         /\ x = (x \div Size) * Size + (x % Size)
BY RingAssumption

LEMMA Remainder ==
  ASSUME NEW k \in Nat, NEW r \in 0 .. (Size - 1)
  PROVE  (k * Size + r) % Size = r
BY RingAssumption

\* Going on from a place leads to the place of the offset further on.
LEMMA PlaceOnward ==
  ASSUME NEW x \in Nat, NEW d \in Nat
  PROVE  ((x % Size) + d) % Size = (x + d) % Size
<1> DEFINE r == x % Size
           q == x \div Size
           s == (r + d) \div Size
           u == (r + d) % Size
<1>1. r \in 0 .. (Size - 1) /\ q \in Nat /\ x = q * Size + r
  BY Quotient
<1>2. r \in Nat /\ Size \in Nat
  BY <1>1, RingAssumption
<1>3. u \in 0 .. (Size - 1) /\ s \in Nat /\ r + d = s * Size + u
  BY <1>2, Quotient
<1> HIDE DEF r, q, s, u
<1>4. x + d = (q + s) * Size + u
  BY <1>1, <1>2, <1>3
<1>5. ((q + s) * Size + u) % Size = u
  BY <1>1, <1>3, Remainder
<1> QED
  BY <1>4, <1>5 DEF r, u

LEMMA WrapsOnce ==
  ASSUME NEW z \in Nat, z < 2 * Size
  PROVE  z % Size = IF z < Size THEN z ELSE z - Size
BY RingAssumption

\* Less than Size bytes further on the place has wrapped once at most.
LEMMA PlaceNear ==
  ASSUME NEW x \in Nat, NEW d \in Nat, d < Size
  PROVE  (x + d) % Size = IF (x % Size) + d < Size THEN (x % Size) + d
                          ELSE ((x % Size) + d) - Size
<1>1. x % Size \in 0 .. (Size - 1)
  BY Quotient
<1>2. ((x % Size) + d) % Size = (x + d) % Size
  BY PlaceOnward
<1>3. (x % Size) + d \in Nat /\ (x % Size) + d < 2 * Size
  BY <1>1, RingAssumption
<1>4. ((x % Size) + d) % Size = IF (x % Size) + d < Size THEN (x % Size) + d
                                ELSE ((x % Size) + d) - Size
  BY <1>3, WrapsOnce
<1> QED
  BY <1>2, <1>4

\* Different offsets less than Size apart have different places.
LEMMA SamePlace ==
  ASSUME NEW x \in Nat, NEW y \in Nat, x <= y, y < x + Size, x % Size = y % Size
  PROVE  x = y
<1>1. x % Size \in 0 .. (Size - 1) /\ Size \in Nat
  BY Quotient, RingAssumption
<1>2. y - x \in Nat /\ y - x < Size /\ x + (y - x) = y
  BY <1>1
<1>3. (x + (y - x)) % Size = IF (x % Size) + (y - x) < Size THEN (x % Size) + (y - x)
                             ELSE ((x % Size) + (y - x)) - Size
  BY <1>2, PlaceNear
<1> QED
  BY <1>1, <1>2, <1>3

\* Distance is the difference of offsets, as long as that is less than Size.
LEMMA DistanceAhead ==
  ASSUME NEW x \in Nat, NEW y \in Nat, x <= y, y < x + Size
  PROVE  Distance(x % Size, y % Size) = y - x
<1> DEFINE p == x % Size
           q == y % Size
<1>1. p \in 0 .. (Size - 1) /\ q \in 0 .. (Size - 1) /\ Size \in Nat
  BY Quotient, RingAssumption
<1>2. y - x \in Nat /\ y - x < Size /\ x + (y - x) = y
  BY <1>1
<1>3. (x + (y - x)) % Size = IF p + (y - x) < Size THEN p + (y - x) ELSE (p + (y - x)) - Size
  BY <1>2, PlaceNear
<1>5. Distance(p, q) = (q + Size - p) % Size
  BY DEF Distance
<1> HIDE DEF p, q
<1>6. q = IF p + (y - x) < Size THEN p + (y - x) ELSE (p + (y - x)) - Size
  BY <1>2, <1>3 DEF q
<1>7. q + Size - p \in Nat /\ q + Size - p < 2 * Size
  BY <1>1
<1>8. (q + Size - p) % Size =
        IF q + Size - p < Size THEN q + Size - p ELSE (q + Size - p) - Size
  BY <1>7, WrapsOnce
<1>9. Distance(p, q) = y - x
  BY <1>1, <1>2, <1>5, <1>6, <1>8
<1> QED
  BY <1>9 DEF p, q

\* Two runs of bytes share none if one ends before the other begins and that one
\* ends less than Size bytes from where the first begins.
LEMMA CellsApart ==
  ASSUME NEW x \in Nat, NEW m \in Int, NEW y \in Nat, NEW n \in Int,
         x + m <= y, y + n <= x + Size
  PROVE  Cells(x % Size, m) \cap Cells(y % Size, n) = {}
<1> SUFFICES ASSUME NEW i \in 0 .. (m - 1), NEW j \in 0 .. (n - 1),
                    ((x % Size) + i) % Size = ((y % Size) + j) % Size
             PROVE  FALSE
  BY DEF Cells
<1>1. (x + i) % Size = (y + j) % Size
  BY PlaceOnward
<1>2. x + i < y + j /\ y + j < x + i + Size
  BY RingAssumption
<1>3. x + i \in Nat /\ y + j \in Nat
  OBVIOUS
<1>4. x + i = y + j
  BY <1>1, <1>2, <1>3, SamePlace
<1> QED
  BY <1>2, <1>3, <1>4

-----------------------------------------------------------------------------
(* Packets and headers.                                                    *)

\* A packet that follows another one starts where a header fits.
LEMMA NextPosType ==
  ASSUME NEW pos \in HeaderPos, NEW len \in Nat
  PROVE  NextPos(pos, len) \in HeaderPos
<1>1. EndOf(pos, len) \in 0 .. (Size - 1)
  BY RingAssumption DEF EndOf, HeaderPos
<1> QED
  BY <1>1, RingAssumption DEF NextPos, HeaderFits, HeaderPos

\* A packet takes at least its header.
LEMMA FootprintType ==
  ASSUME NEW pos \in HeaderPos, NEW len \in Nat
  PROVE  /\ Footprint(pos, len) \in Nat
         /\ Footprint(pos, len) >= HeaderSize + len
         /\ Footprint(pos, len) > len
<1>1. EndOf(pos, len) \in 0 .. (Size - 1)
  BY RingAssumption DEF EndOf, HeaderPos
<1>2. Waste(pos, len) \in Nat
  BY <1>1, RingAssumption DEF Waste, HeaderFits
<1> QED
  BY <1>2, RingAssumption DEF Footprint

\* The packet after the one at an offset is Footprint bytes further on.
LEMMA NextPlace ==
  ASSUME NEW x \in Nat, NEW len \in Nat, x % Size \in HeaderPos
  PROVE  NextPos(x % Size, len) = (x + Footprint(x % Size, len)) % Size
<1> DEFINE e == EndOf(x % Size, len)
           z == x + HeaderSize + len
<1>1. z \in Nat /\ HeaderSize + len \in Nat
  BY RingAssumption
<1>2. e = z % Size
  <2>1. ((x % Size) + (HeaderSize + len)) % Size = (x + (HeaderSize + len)) % Size
    BY <1>1, PlaceOnward
  <2>2. x % Size \in Nat
    BY Quotient
  <2>3. HeaderSize + (x % Size) + len = (x % Size) + (HeaderSize + len)
    BY <2>2, RingAssumption
  <2>4. z = x + (HeaderSize + len)
    BY RingAssumption
  <2> QED
    BY <2>1, <2>3, <2>4 DEF EndOf
<1>3. e \in 0 .. (Size - 1)
  BY <1>1, <1>2, Quotient
<1>4. CASE HeaderFits(e)
  <2>1. NextPos(x % Size, len) = e /\ Footprint(x % Size, len) = HeaderSize + len
    BY <1>4, RingAssumption DEF NextPos, Footprint, Waste
  <2>2. x + (HeaderSize + len) = z
    BY RingAssumption
  <2> QED
    BY <1>2, <2>1, <2>2
<1>5. CASE ~HeaderFits(e)
  <2>1. /\ NextPos(x % Size, len) = 0
        /\ Footprint(x % Size, len) = HeaderSize + len + (Size - e)
    BY <1>5 DEF NextPos, Footprint, Waste
  <2>2. Size - e \in Nat
    BY <1>3, RingAssumption
  <2>3. (z + (Size - e)) % Size = ((z % Size) + (Size - e)) % Size
    BY <1>1, <2>2, PlaceOnward
  <2>4. (z % Size) + (Size - e) = Size
    <3> HIDE DEF e
    <3> QED BY <1>2, <1>3, RingAssumption
  <2>5. Size % Size = 0
    BY RingAssumption
  <2>6. x + (HeaderSize + len + (Size - e)) = z + (Size - e)
    <3> HIDE DEF e
    <3> QED BY <1>3, RingAssumption
  <2> QED
    BY <2>1, <2>3, <2>4, <2>5, <2>6
<1> QED
  BY <1>4, <1>5

\* Storing a header or data leaves something that reads as headers.
LEMMA StoreType ==
  ASSUME NEW m \in [HeaderPos -> Header], NEW pos, NEW len,
         NEW hdr \in Header
  PROVE  /\ StoreHeader(m, pos, hdr) \in [HeaderPos -> Header]
         /\ StoreData(m, pos, len) \in [HeaderPos -> Header]
<1>1. DataAsHeader \in Header
  BY DEF DataAsHeader, Header, HeaderFlags
<1> QED
  BY <1>1 DEF StoreHeader, StoreData

LEMMA NullHeaderType == NullHeader \in Header
BY DEF NullHeader, Header

\* A header reads back, and leaves those that do not overlap it as they are.
LEMMA StoreHeaderReads ==
  ASSUME NEW m, NEW pos \in HeaderPos, NEW hdr
  PROVE  StoreHeader(m, pos, hdr)[pos] = hdr
BY DEF StoreHeader

LEMMA StoreHeaderApart ==
  ASSUME NEW m, NEW x \in Nat, NEW y \in Nat, NEW hdr,
         x % Size \in HeaderPos, y % Size \in HeaderPos,
         x + HeaderSize <= y, y + HeaderSize <= x + Size
  PROVE  StoreHeader(m, y % Size, hdr)[x % Size] = m[x % Size]
<1> DEFINE p == x % Size
           q == y % Size
<1>1. p \in HeaderPos /\ q \in HeaderPos
  OBVIOUS
<1>2. p \in 0 .. (Size - 1)
  BY Quotient
<1>3. y - x \in Nat /\ y - x < Size /\ x + (y - x) = y
  BY RingAssumption
<1>4. q = IF p + (y - x) < Size THEN p + (y - x) ELSE (p + (y - x)) - Size
  BY <1>3, PlaceNear
<1> HIDE DEF p, q
<1>5. p # q /\ ~(p - q < HeaderSize /\ q - p < HeaderSize)
  BY <1>1, <1>2, <1>3, <1>4, RingAssumption DEF HeaderPos
<1>6. StoreHeader(m, q, hdr)[p] = m[p]
  BY <1>1, <1>5 DEF StoreHeader
<1> QED
  BY <1>6 DEF p, q

\* Data leaves the headers before and behind it as they are.
LEMMA StoreDataBehind ==
  ASSUME NEW m, NEW x \in Nat, NEW y \in Nat, NEW len \in Int,
         x % Size \in HeaderPos,
         x + HeaderSize <= y, y + len <= x + Size
  PROVE  StoreData(m, y % Size, len)[x % Size] = m[x % Size]
<1>1. Cells(x % Size, HeaderSize) \cap Cells(y % Size, len) = {}
  <2>1. HeaderSize \in Int
    BY RingAssumption
  <2> QED
    BY <2>1, CellsApart
<1> QED
  BY <1>1 DEF StoreData

LEMMA StoreDataBefore ==
  ASSUME NEW m, NEW x \in Nat, NEW y \in Nat, NEW len \in Int,
         x % Size \in HeaderPos,
         y + len <= x, x + HeaderSize <= y + Size
  PROVE  StoreData(m, y % Size, len)[x % Size] = m[x % Size]
<1>1. Cells(y % Size, len) \cap Cells(x % Size, HeaderSize) = {}
  <2>1. HeaderSize \in Int
    BY RingAssumption
  <2> QED
    BY <2>1, CellsApart
<1> QED
  BY <1>1 DEF StoreData
=============================================================================
