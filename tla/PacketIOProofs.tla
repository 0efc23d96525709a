--------------------------- MODULE PacketIOProofs ---------------------------
(***************************************************************************)
(* Theorems about PacketIO for any size of the data area and of a header,  *)
(* any transfers and any number of fake areas and calls.                   *)
(***************************************************************************)
EXTENDS PacketIO, SequenceTheorems, WellFoundedInduction, TLAPS

-----------------------------------------------------------------------------
(* Least and greatest elements.                                            *)

\* Min of natural numbers is one of them.
LEMMA MinType ==
  ASSUME NEW S \in SUBSET Nat, S # {}
  PROVE  Min(S) \in S
<1>1. PICK m \in S : \A k \in S : ~(<<k, m>> \in OpToRel(<, Nat))
  BY WFMin, NatLessThanWellFounded
<1>2. \A k \in S : ~(k < m)
  BY <1>1 DEF OpToRel
<1>3. \A k \in S : m <= k
  BY <1>2
<1> QED
  BY <1>3 DEF Min

\* Max of natural numbers that have a bound is one of them.
LEMMA MaxType ==
  ASSUME NEW n \in Nat, NEW S \in SUBSET (1 .. n), S # {}
  PROVE  Max(S) \in S
<1>1. \A k \in S : k \in Nat /\ k <= n /\ n - k \in Nat
  OBVIOUS
<1> DEFINE T == {n - k : k \in S}
<1>2. T \subseteq Nat /\ T # {}
  BY <1>1
<1>3. PICK m \in T : \A k \in T : ~(<<k, m>> \in OpToRel(<, Nat))
  BY <1>2, WFMin, NatLessThanWellFounded
<1>4. \A k \in T : ~(k < m)
  BY <1>2, <1>3 DEF OpToRel
<1>5. PICK g \in S : m = n - g
  OBVIOUS
<1>6. \A k \in S : ~(n - k < n - g)
  BY <1>4, <1>5
<1>7. \A k \in S : k <= g
  BY <1>1, <1>6
<1> QED
  BY <1>7 DEF Max

-----------------------------------------------------------------------------
(* The invariant.                                                          *)

\* An area of a packet that is being written leaves room for the packet's own
\* header and the one behind it.
Inside(n) == n + 2 * HeaderSize <= Size

\* What has been stored in a packet, and what may yet be stored through the areas
\* that were lent for it, stays where ps_packet_setsize can follow; only a position
\* that was sought may be further, but never over the packet's own header.
HeaderKept == size + HeaderSize <= Size
Closable == Sized \/ Reading \/ written => Inside(size)
ReadWhenWritten == written => ~Writing
LentInside ==
  Writing => /\ \A i \in InUse : Inside(fake_dma[i].pos + Len(fake_dma[i].mem))
             /\ \A area \in lent : Inside(area.pos + area.size)

IOInv ==
  /\ TypeOK /\ HeaderKept /\ Closable /\ ReadWhenWritten /\ LentInside
  /\ RefusedLosesNothing /\ CommitCannotFail /\ NoStaleArea

-----------------------------------------------------------------------------
(* What the helpers return.                                                *)

\* Every position of a packet is somewhere in the area.
LEMMA CellType ==
  ASSUME TypeOK, NEW p \in Nat
  PROVE  Cell(p) \in 0 .. (Size - 1)
BY RingAssumption DEF TypeOK, HeaderPos, Cell

LEMMA DistanceType ==
  ASSUME NEW from \in 0 .. (Size - 1), NEW to \in 0 .. (Size - 1)
  PROVE  Distance(from, to) \in Nat
BY RingAssumption DEF Distance

\* What is read from a packet is a sequence of bytes.
LEMMA BytesType ==
  ASSUME TypeOK, NEW from \in Nat, NEW n \in Nat
  PROVE  Bytes(from, n) \in Seq(Content) /\ Len(Bytes(from, n)) = n
<1>1. \A k \in 1 .. n : from + k - 1 \in Nat
  OBVIOUS
<1>2. \A k \in 1 .. n : data[Cell(from + k - 1)] \in Content
  BY <1>1, CellType DEF TypeOK
<1> QED
  BY <1>2 DEF Bytes

\* Copying leaves bytes in the area.
LEMMA CopiedType ==
  ASSUME TypeOK, NEW from \in Nat, NEW bytes \in Seq(Content)
  PROVE  Copied(data, from, bytes) \in [0 .. (Size - 1) -> Content]
<1>1. \A c \in 0 .. (Size - 1) :
        Distance(Cell(from), c) \in Nat /\ data[c] \in Content
  BY CellType, DistanceType DEF TypeOK
<1>2. ASSUME NEW c \in 0 .. (Size - 1), Distance(Cell(from), c) < Len(bytes)
      PROVE  bytes[Distance(Cell(from), c) + 1] \in Content
  BY <1>1, <1>2
<1> QED
  BY <1>1, <1>2 DEF Copied, TypeOK

LEMMA AreaType ==
  ASSUME TypeOK
  PROVE  /\ Len(fake_dma) \in Nat /\ DOMAIN fake_dma = 1 .. Len(fake_dma)
         /\ \A i \in DOMAIN fake_dma :
              /\ fake_dma[i] \in Area
              /\ fake_dma[i].pos \in Nat /\ fake_dma[i].mem \in Seq(Content)
<1>1. fake_dma \in Seq(Area)
  BY DEF TypeOK
<1>2. \A area \in Area : area.pos \in Nat /\ area.mem \in Seq(Content)
  BY RingAssumption DEF Area, Position
<1> QED
  BY <1>1, <1>2, ElementOfSeq, LenProperties

\* So does writing back the areas.
LEMMA CommittedType ==
  ASSUME TypeOK
  PROVE  Committed \in [0 .. (Size - 1) -> Content]
<1> DEFINE Offset(c, i) == Distance(Cell(fake_dma[i].pos), c)
           Over(c) == {i \in InUse : Offset(c, i) < Len(fake_dma[i].mem)}
<1>1. ASSUME NEW c \in 0 .. (Size - 1), Over(c) # {}
      PROVE  fake_dma[Max(Over(c))].mem[Offset(c, Max(Over(c))) + 1] \in Content
  <2>1. Len(fake_dma) \in Nat /\ Over(c) \in SUBSET (1 .. Len(fake_dma))
    BY AreaType DEF InUse
  <2>2. Max(Over(c)) \in Over(c)
    BY <1>1, <2>1, MaxType
  <2> DEFINE i == Max(Over(c))
  <2>3. i \in DOMAIN fake_dma /\ Offset(c, i) < Len(fake_dma[i].mem)
    BY <2>2 DEF InUse
  <2>4. fake_dma[i].pos \in Nat /\ fake_dma[i].mem \in Seq(Content)
    BY <2>3, AreaType
  <2>5. Offset(c, i) \in Nat
    BY <2>4, CellType, DistanceType
  <2> HIDE DEF i
  <2> QED
    BY <2>3, <2>4, <2>5 DEF i
<1>2. \A c \in 0 .. (Size - 1) : data[c] \in Content
  BY DEF TypeOK
<1> QED
  BY <1>1, <1>2 DEF Committed, TypeOK

\* A list stays a list of areas when one is put in it, which is then in use; the
\* others are what they were.
LEMMA WithAreaType ==
  ASSUME TypeOK, NEW area \in Area
  PROVE  /\ WithArea(area) \in Seq(Area)
         /\ \A i \in DOMAIN WithArea(area) :
              \/ WithArea(area)[i] = area
              \/ \E j \in DOMAIN fake_dma : WithArea(area)[i] = fake_dma[j]
<1> DEFINE free == DOMAIN fake_dma \ InUse
<1>0. fake_dma \in Seq(Area)
  BY DEF TypeOK
<1>1. CASE free = {}
  <2>1. WithArea(area) = <<area>> \o fake_dma
    BY <1>1 DEF WithArea
  <2> QED
    BY <1>0, <2>1
<1>2. CASE free # {}
  <2>1. Min(free) \in DOMAIN fake_dma
    BY <1>0, <1>2, MinType
  <2>2. WithArea(area) = [fake_dma EXCEPT ![Min(free)] = area]
    BY <1>2 DEF WithArea
  <2>3. WithArea(area) \in Seq(Area)
    BY <1>0, <2>1, <2>2, AreaType, ExceptSeq
  <2> HIDE DEF free
  <2> QED
    BY <2>2, <2>3
<1> QED
  BY <1>1, <1>2

\* Freed and cut areas are areas.
LEMMA FreedType ==
  ASSUME TypeOK
  PROVE  /\ AllFree \in Seq(Area)
         /\ \A i \in DOMAIN AllFree : AllFree[i].free
<1>1. FreeArea \in Area
  BY RingAssumption DEF FreeArea, Area, Position
<1>2. AllFree = [i \in 1 .. Len(fake_dma) |-> FreeArea]
  BY AreaType DEF AllFree
<1>3. AllFree \in Seq(Area)
  BY <1>1, <1>2, AreaType, IsASeq
<1> QED
  BY <1>2, <1>3 DEF FreeArea

LEMMA CutType ==
  ASSUME TypeOK, NEW n \in Nat
  PROVE  /\ Cut(n) \in Seq(Area) /\ DOMAIN Cut(n) = DOMAIN fake_dma
         /\ \A i \in DOMAIN fake_dma :
              ~Cut(n)[i].free =>
                /\ ~fake_dma[i].free
                /\ Cut(n)[i].pos + Len(Cut(n)[i].mem) <= n
<1>1. FreeArea \in Area /\ FreeArea.free
  BY RingAssumption DEF FreeArea, Area, Position
<1>2. DOMAIN Cut(n) = DOMAIN fake_dma
  BY DEF Cut
<1>3. ASSUME NEW i \in DOMAIN fake_dma
      PROVE  /\ Cut(n)[i] \in Area
             /\ ~Cut(n)[i].free =>
                  /\ ~fake_dma[i].free
                  /\ Cut(n)[i].pos + Len(Cut(n)[i].mem) <= n
  <2> DEFINE area == fake_dma[i]
  <2>1. area \in Area /\ area.pos \in Nat /\ area.mem \in Seq(Content)
    BY AreaType
  <2>2. CASE area.pos > n
    BY <1>1, <2>2 DEF Cut
  <2>3. CASE ~(area.pos > n) /\ area.pos + Len(area.mem) > n
    <3> DEFINE m == SubSeq(area.mem, 1, n - area.pos)
    <3>1. m \in Seq(Content) /\ Len(m) = n - area.pos
      BY <2>1, <2>3, SubSeqProperties
    <3>2. Cut(n)[i] = [area EXCEPT !.mem = m]
      BY <2>3 DEF Cut
    <3> HIDE DEF m
    <3> QED
      BY <2>1, <3>1, <3>2 DEF Area
  <2>4. CASE ~(area.pos > n) /\ ~(area.pos + Len(area.mem) > n)
    <3>1. Cut(n)[i] = area
      BY <2>4 DEF Cut
    <3> QED
      BY <2>1, <2>4, <3>1
  <2> QED
    BY <2>2, <2>3, <2>4
<1>4. Cut(n) \in [1 .. Len(fake_dma) -> Area]
  BY <1>2, <1>3, AreaType DEF Cut
<1>5. Cut(n) \in Seq(Area)
  BY <1>4, AreaType
<1> QED
  BY <1>2, <1>3, <1>5

-----------------------------------------------------------------------------
(* Every call preserves the invariant.                                     *)

CallsKept == calls' \in 0 .. MaxCalls

LEMMA OneMode ==
  ASSUME TypeOK
  PROVE  Writing => ~Reading /\ flags # {}
BY DEF TypeOK, Writing, Reading

LEMMA LengthsType == \A n \in Lengths : n \in Nat /\ n > 0
BY IOAssumption

LEMMA DataType ==
  ASSUME NEW bytes \in Data
  PROVE  Len(bytes) \in Nat /\ Len(bytes) > 0 /\ bytes \in Seq(Byte) /\ bytes \in Seq(Content)
<1>1. PICK n \in Lengths : bytes \in [1 .. n -> Byte]
  BY DEF Data
<1>2. n \in Nat /\ n > 0
  BY LengthsType
<1>3. bytes \in Seq(Byte) /\ Len(bytes) = n
  BY <1>1, <1>2
<1> QED
  BY <1>2, <1>3, SeqMonotonic DEF Content

LEMMA OpenInv ==
  ASSUME IOInv, CallsKept, OpenWrite \/ OpenRead
  PROVE  IOInv'
<1> USE RingAssumption DEF IOInv, CallsKept, InUse, Writing, Reading, Sized, Inside,
        HeaderKept, Closable, ReadWhenWritten, LentInside, RefusedLosesNothing,
        CommitCannotFail, NoStaleArea
<1>1. CASE OpenWrite
  <2>1. TypeOK'
    BY <1>1, IOAssumption DEF OpenWrite, TypeOK, Content, NoTransfer
  <2> QED
    BY <1>1, <2>1 DEF OpenWrite
<1>2. CASE OpenRead
  <2>1. TypeOK'
    BY <1>2 DEF OpenRead, ghostVars, TypeOK
  <2> QED
    BY <1>2, <2>1 DEF OpenRead, ghostVars
<1> QED
  BY <1>1, <1>2

LEMMA WriteInv ==
  ASSUME IOInv, CallsKept, NEW bytes \in Data, Write(bytes)
  PROVE  IOInv'
<1> USE RingAssumption DEF IOInv, CallsKept
<1> DEFINE n == Len(bytes)
<1>1. n \in Nat /\ n > 0 /\ bytes \in Seq(Byte) /\ bytes \in Seq(Content)
  BY DataType
<1>2. pos \in Nat /\ size \in Nat
  BY DEF TypeOK
<1>3. Inside(pos + n) /\ pos' = pos + n
  BY <1>1, <1>2 DEF Write, Fits, Inside, Closable, Writing, Reading
<1>4. /\ size' \in 0 .. Size /\ size' >= size /\ size' + HeaderSize <= Size
      /\ Sized => size' = size
  BY <1>1, <1>2, <1>3 DEF Write, Raised, Inside, HeaderKept, TypeOK
<1>5. /\ stored' \in [Position -> Content]
      /\ \A p \in Position : stored'[p] = stored[p] \/ p < pos + n
  <2>1. \A p \in Span(pos, n) : p - pos + 1 \in 1 .. n /\ p < pos + n
    BY <1>1, <1>2 DEF Span
  <2>2. \A p \in Span(pos, n) : bytes[p - pos + 1] \in Content
    BY <1>1, <2>1, ElementOfSeq
  <2> QED
    BY <2>1, <2>2 DEF Write, Overlaid, TypeOK
<1>6. TypeOK'
  <2>1. data' \in [0 .. (Size - 1) -> Content]
    BY <1>1, <1>2, CopiedType DEF Write
  <2>2. contested' \subseteq Position
    <3>1. \A p \in Span(pos, n) : p \in Position
      BY <1>1, <1>2, <1>3 DEF Span, Position, Inside
    <3> QED
      BY <3>1 DEF Write, TypeOK
  <2> QED
    BY <1>1, <1>2, <1>3, <1>4, <1>5, <2>1, <2>2 DEF Write, TypeOK, CallsKept, NoTransfer
<1>7. RefusedLosesNothing'
  BY <1>1, <1>2, <1>3, <1>5 DEF RefusedLosesNothing, Inside, Position
<1>8. CommitCannotFail'
  BY <1>2, <1>4, AreaType DEF CommitCannotFail, Write, Writing, InUse
<1>9. HeaderKept' /\ Closable'
  BY <1>4, OneMode DEF Write, HeaderKept, Closable, ReadWhenWritten, Writing, Reading, Sized
<1>10. ReadWhenWritten' /\ LentInside' /\ NoStaleArea'
  BY DEF Write, ReadWhenWritten, LentInside, NoStaleArea, Inside, Writing, InUse
<1> QED
  BY <1>6, <1>7, <1>8, <1>9, <1>10

\* A position that moves inside the packet, or extends it, takes the size along.
LEMMA RaisedType ==
  ASSUME IOInv, NEW p \in Nat, p <= size \/ (~Sized /\ ~Reading /\ p + HeaderSize <= Size)
  PROVE  /\ Raised(p) \in 0 .. Size /\ Raised(p) >= size /\ Raised(p) + HeaderSize <= Size
         /\ Sized \/ Reading => Raised(p) = size
         /\ Writing => p <= Raised(p)
BY RingAssumption DEF IOInv, TypeOK, HeaderKept, Raised, Writing, Reading, Sized

LEMMA ReadInv ==
  ASSUME IOInv, CallsKept, NEW n \in Lengths, Read(n)
  PROVE  IOInv'
<1>1. n \in Nat /\ pos \in Nat
  BY LengthsType DEF IOInv, TypeOK
<1>2. Bytes(pos, n) \in Seq(Content)
  BY <1>1, BytesType DEF IOInv
<1>3. TypeOK'
  BY <1>1, <1>2 DEF Read, IOInv, TypeOK, CallsKept
<1> QED
  BY <1>3 DEF Read, IOInv, HeaderKept, Closable, ReadWhenWritten, LentInside,
     RefusedLosesNothing, CommitCannotFail, NoStaleArea, InUse, Writing, Reading, Sized

LEMMA SeekInv ==
  ASSUME IOInv, CallsKept, NEW p \in 0 .. Size, Seek(p)
  PROVE  IOInv'
<1>1. size' = Raised(p) /\ size' \in 0 .. Size /\ size' >= size
      /\ size' + HeaderSize <= Size /\ (Sized \/ Reading => size' = size)
  BY RaisedType DEF Seek, Seekable
<1>2. TypeOK'
  BY <1>1, RingAssumption DEF Seek, IOInv, TypeOK, CallsKept, NoTransfer
<1>3. CommitCannotFail'
  <2>1. \A i \in InUse : fake_dma[i].pos + Len(fake_dma[i].mem) \in Nat
    BY AreaType DEF IOInv, InUse
  <2> QED
    BY <1>1, <2>1, RingAssumption DEF Seek, IOInv, TypeOK, CommitCannotFail, InUse, Writing
<1>4. HeaderKept' /\ Closable'
  BY <1>1, OneMode DEF Seek, IOInv, HeaderKept, Closable, ReadWhenWritten, Writing, Reading, Sized
<1> QED
  BY <1>2, <1>3, <1>4 DEF Seek, IOInv, ReadWhenWritten, LentInside, Inside,
     RefusedLosesNothing, NoStaleArea, InUse, Writing, Reading, Sized

\* Where a transfer that fits ends.
LEMMA FitsInside ==
  ASSUME IOInv, NEW n \in Lengths, Fits(n), Writing \/ Reading
  PROVE  /\ n \in Nat /\ n > 0 /\ pos \in Nat /\ pos + n \in Nat /\ Inside(pos + n)
         /\ Raised(pos + n) \in 0 .. Size /\ Raised(pos + n) >= size
         /\ Raised(pos + n) + HeaderSize <= Size
         /\ Sized \/ Reading => Raised(pos + n) = size
         /\ Writing => pos + n <= Raised(pos + n)
         /\ pos \in Position
<1>1. n \in Nat /\ n > 0 /\ pos \in Nat /\ size \in Nat
  BY LengthsType DEF IOInv, TypeOK
<1>2. Inside(pos + n)
  BY <1>1, RingAssumption DEF Fits, Inside, IOInv, Closable
<1>3. pos + n <= size \/ (~Sized /\ ~Reading /\ pos + n + HeaderSize <= Size)
  BY <1>1, RingAssumption DEF Fits
<1> QED
  BY <1>1, <1>2, <1>3, RaisedType, RingAssumption DEF Inside, Position

LEMMA DmaInv ==
  ASSUME IOInv, CallsKept, NEW n \in Lengths, Dma(n)
  PROVE  IOInv'
<1> DEFINE area == [pos |-> pos, size |-> n]
<1>1. /\ n \in Nat /\ pos \in Nat /\ pos + n \in Nat /\ Inside(pos + n) /\ pos \in Position
      /\ size' \in 0 .. Size /\ size' >= size /\ size' + HeaderSize <= Size
      /\ Sized \/ Reading => size' = size
  BY FitsInside DEF Dma
<1>2. Bytes(pos, n) \in Seq(Content)
  BY <1>1, BytesType DEF IOInv
<1>3. area \in [pos : Position, size : Nat]
  BY <1>1
<1>4. TypeOK'
  BY <1>1, <1>2, <1>3 DEF Dma, IOInv, TypeOK, CallsKept, NoTransfer
<1>5. CommitCannotFail'
  <2>1. \A i \in InUse : fake_dma[i].pos + Len(fake_dma[i].mem) \in Nat
    BY AreaType DEF IOInv, InUse
  <2> QED
    BY <1>1, <2>1, RingAssumption DEF Dma, IOInv, TypeOK, CommitCannotFail, InUse, Writing
<1>6. HeaderKept' /\ Closable'
  BY <1>1, OneMode DEF Dma, IOInv, HeaderKept, Closable, ReadWhenWritten, Writing, Reading, Sized
<1>7. LentInside'
  BY <1>1 DEF Dma, IOInv, LentInside, Inside, InUse, Writing
<1> QED
  BY <1>4, <1>5, <1>6, <1>7 DEF Dma, IOInv, ReadWhenWritten, RefusedLosesNothing,
     NoStaleArea, InUse, Writing, Reading, Sized

LEMMA FakeDmaInv ==
  ASSUME IOInv, CallsKept, NEW n \in Lengths, FakeDma(n)
  PROVE  IOInv'
<1> DEFINE found == IF Reading THEN Bytes(pos, n) ELSE [k \in 1 .. n |-> Unknown]
           area == [pos |-> pos, mem |-> found, free |-> FALSE]
<1>1. /\ n \in Nat /\ pos \in Nat /\ pos + n \in Nat /\ Inside(pos + n) /\ pos \in Position
      /\ size \in 0 .. Size /\ TypeOK
  BY FitsInside DEF FakeDma, IOInv, TypeOK
<1>2. found \in Seq(Content) /\ Len(found) = n
  <2>1. Bytes(pos, n) \in Seq(Content) /\ Len(Bytes(pos, n)) = n
    BY <1>1, BytesType
  <2> QED
    BY <1>1, <2>1 DEF Content
<1>3. area \in Area
  BY <1>1, <1>2 DEF Area
<1>4. /\ fake_dma' \in Seq(Area)
      /\ \A i \in DOMAIN fake_dma' :
           fake_dma'[i] = area \/ \E j \in DOMAIN fake_dma : fake_dma'[i] = fake_dma[j]
  BY <1>1, <1>3, WithAreaType DEF FakeDma
<1>5. /\ pos' \in Nat /\ (Writing => pos' = pos + n)
      /\ size' \in 0 .. Size /\ size' >= size /\ size' + HeaderSize <= Size
      /\ Sized \/ Reading => size' = size
      /\ Writing => pos + n <= size'
  <2>1. CASE Writing
    BY <1>1, <2>1, FitsInside, OneMode DEF FakeDma
  <2>2. CASE ~Writing
    BY <1>1, <2>2, RingAssumption DEF FakeDma, Raised, IOInv, HeaderKept
  <2> QED
    BY <2>1, <2>2
<1>6. contested' \subseteq Position
  <2>1. \A p \in Span(pos, n) : p \in Position
    BY <1>1, RingAssumption DEF Span, Position, Inside
  <2> QED
    BY <1>1, <2>1 DEF FakeDma, TypeOK
<1>7. TypeOK'
  BY <1>1, <1>2, <1>4, <1>5, <1>6 DEF FakeDma, TypeOK, CallsKept, NoTransfer
<1>8. ASSUME Writing, NEW i \in DOMAIN fake_dma', ~fake_dma'[i].free
      PROVE  /\ fake_dma'[i].pos + Len(fake_dma'[i].mem) <= size'
             /\ Inside(fake_dma'[i].pos + Len(fake_dma'[i].mem))
  <2>1. CASE fake_dma'[i] = area
    BY <1>1, <1>2, <1>5, <1>8, <2>1
  <2>2. CASE \E j \in DOMAIN fake_dma : fake_dma'[i] = fake_dma[j]
    <3>1. PICK j \in DOMAIN fake_dma : fake_dma'[i] = fake_dma[j]
      BY <2>2
    <3>2. j \in InUse
      BY <1>8, <3>1 DEF InUse
    <3>3. fake_dma[j].pos + Len(fake_dma[j].mem) \in Nat
      BY <1>1, AreaType
    <3> QED
      BY <1>1, <1>5, <1>8, <3>1, <3>2, <3>3 DEF IOInv, CommitCannotFail, LentInside
  <2> QED
    BY <1>4, <2>1, <2>2
<1>9. HeaderKept' /\ Closable'
  BY <1>5, OneMode
     DEF FakeDma, IOInv, HeaderKept, Closable, ReadWhenWritten, Writing, Reading, Sized
<1>10. CommitCannotFail' /\ LentInside'
  BY <1>8 DEF FakeDma, IOInv, CommitCannotFail, LentInside, InUse, Writing, Inside
<1> QED
  BY <1>7, <1>9, <1>10, OneMode DEF FakeDma, IOInv, ReadWhenWritten, RefusedLosesNothing,
     NoStaleArea, Writing, Reading

LEMMA StoreInBufferInv ==
  ASSUME IOInv, CallsKept, NEW area \in lent, NEW p \in Position, NEW b \in Byte,
         StoreInBuffer(area, p, b)
  PROVE  IOInv'
<1>1. area.pos \in Nat /\ area.size \in Nat /\ Inside(area.pos + area.size)
  BY RingAssumption DEF StoreInBuffer, IOInv, TypeOK, LentInside, Position
<1>2. p \in Nat /\ p < area.pos + area.size
  BY <1>1, RingAssumption DEF StoreInBuffer, Span, Position
<1>3. b \in Content
  BY DEF Content
<1>4. TypeOK'
  BY <1>3 DEF StoreInBuffer, packetVars, IOInv, TypeOK, CallsKept
<1>5. RefusedLosesNothing'
  BY <1>1, <1>2, RingAssumption
     DEF StoreInBuffer, IOInv, TypeOK, RefusedLosesNothing, Inside, Position
<1> QED
  BY <1>4, <1>5 DEF StoreInBuffer, packetVars, IOInv, HeaderKept, Closable, ReadWhenWritten,
     LentInside, CommitCannotFail, NoStaleArea, InUse, Writing, Reading, Sized, Inside

LEMMA StoreInFakeInv ==
  ASSUME IOInv, CallsKept, NEW i \in InUse, NEW p \in Position, NEW b \in Byte,
         StoreInFake(i, p, b)
  PROVE  IOInv'
<1> DEFINE area == fake_dma[i]
           mem == [area.mem EXCEPT ![p - area.pos + 1] = b]
<1>1. /\ i \in DOMAIN fake_dma /\ area \in Area /\ area.pos \in Nat
      /\ area.mem \in Seq(Content)
      /\ Len(fake_dma) \in Nat /\ DOMAIN fake_dma = 1 .. Len(fake_dma)
  BY AreaType DEF IOInv, InUse
<1>2. Len(area.mem) \in Nat
  BY <1>1
<1>3. p \in Nat /\ p < area.pos + Len(area.mem) /\ p - area.pos + 1 \in 1 .. Len(area.mem)
  BY <1>1, <1>2, RingAssumption DEF StoreInFake, SpanOf, Span, Position
<1>4. mem \in Seq(Content) /\ Len(mem) = Len(area.mem)
  BY <1>1, <1>3, ExceptSeq DEF Content
<1>5. /\ fake_dma' = [fake_dma EXCEPT ![i] = [area EXCEPT !.mem = mem]]
      /\ [area EXCEPT !.mem = mem] \in Area
  BY <1>1, <1>4 DEF StoreInFake, Area
<1>6. /\ fake_dma' \in Seq(Area) /\ DOMAIN fake_dma' = DOMAIN fake_dma
      /\ \A j \in DOMAIN fake_dma :
           /\ fake_dma'[j].free = fake_dma[j].free /\ fake_dma'[j].pos = fake_dma[j].pos
           /\ Len(fake_dma'[j].mem) = Len(fake_dma[j].mem)
  <2>1. fake_dma' \in Seq(Area)
    BY <1>1, <1>5, ExceptSeq DEF IOInv, TypeOK
  <2>2. ASSUME NEW j \in DOMAIN fake_dma
        PROVE  /\ fake_dma'[j].free = fake_dma[j].free /\ fake_dma'[j].pos = fake_dma[j].pos
               /\ Len(fake_dma'[j].mem) = Len(fake_dma[j].mem)
    <3>1. CASE j = i
      <4>1. fake_dma'[j] = [area EXCEPT !.mem = mem]
        BY <1>1, <1>5, <3>1
      <4>2. /\ fake_dma'[j].free = area.free /\ fake_dma'[j].pos = area.pos
            /\ fake_dma'[j].mem = mem
        BY <1>1, <4>1 DEF Area
      <4> QED
        BY <1>4, <3>1, <4>2
    <3>2. CASE j # i
      BY <1>1, <1>5, <3>2
    <3> QED
      BY <3>1, <3>2
  <2> QED
    BY <1>5, <2>1, <2>2
<1>7. TypeOK'
  BY <1>6 DEF StoreInFake, IOInv, TypeOK, CallsKept, Content
<1>8. RefusedLosesNothing'
  <2>1. Inside(area.pos + Len(area.mem))
    BY DEF StoreInFake, IOInv, LentInside
  <2>2. ~(p + 2 * HeaderSize >= Size)
    BY <1>1, <1>2, <1>3, <2>1, RingAssumption DEF Inside
  <2>3. \A q \in Position : q # p => stored'[q] = stored[q]
    BY DEF StoreInFake, IOInv, TypeOK
  <2> QED
    BY <2>2, <2>3 DEF IOInv, RefusedLosesNothing
<1>9. CommitCannotFail' /\ LentInside' /\ NoStaleArea'
  BY <1>6 DEF StoreInFake, IOInv, CommitCannotFail, LentInside, NoStaleArea, InUse, Writing, Inside
<1> QED
  BY <1>7, <1>8, <1>9 DEF StoreInFake, IOInv, HeaderKept, Closable, ReadWhenWritten,
     Writing, Reading, Sized

LEMMA SetSizeInv ==
  ASSUME IOInv, CallsKept, NEW n \in 0 .. Size, SetSize(n)
  PROVE  IOInv'
<1>1. /\ fake_dma' \in Seq(Area) /\ DOMAIN fake_dma' = DOMAIN fake_dma
      /\ \A i \in DOMAIN fake_dma :
           ~fake_dma'[i].free =>
             /\ ~fake_dma[i].free
             /\ fake_dma'[i].pos + Len(fake_dma'[i].mem) <= n
  BY CutType, RingAssumption DEF SetSize, IOInv
<1>2. flags' = {"WRITE", "SIZE_SET"} /\ size' = n /\ Inside(n) /\ n \in Nat
  BY RingAssumption DEF SetSize, Inside
<1>3. TypeOK'
  BY <1>1, <1>2 DEF SetSize, IOInv, TypeOK, CallsKept, NoTransfer
<1>4. /\ HeaderKept' /\ Closable' /\ ReadWhenWritten' /\ NoStaleArea' /\ RefusedLosesNothing'
      /\ \A area \in lent' : Inside(area.pos + area.size)
  BY <1>2, RingAssumption DEF SetSize, IOInv, TypeOK, HeaderKept, Closable, ReadWhenWritten,
     NoStaleArea, RefusedLosesNothing, LentInside, Inside, Writing, Reading, Sized
<1>5. ASSUME NEW i \in InUse'
      PROVE  /\ fake_dma'[i].pos + Len(fake_dma'[i].mem) <= size'
             /\ Inside(fake_dma'[i].pos + Len(fake_dma'[i].mem))
  <2>1. fake_dma'[i].pos + Len(fake_dma'[i].mem) <= n
    BY <1>1 DEF InUse
  <2>2. fake_dma'[i].pos + Len(fake_dma'[i].mem) \in Nat
    <3>1. i \in 1 .. Len(fake_dma')
      BY <1>1, LenProperties DEF InUse
    <3>2. fake_dma'[i] \in Area
      BY <1>1, <3>1, ElementOfSeq
    <3> QED
      BY <3>2, RingAssumption DEF Area, Position
  <2> QED
    BY <1>2, <2>1, <2>2, RingAssumption DEF Inside
<1> QED
  BY <1>3, <1>4, <1>5 DEF IOInv, CommitCannotFail, LentInside, Inside

LEMMA CloseInv ==
  ASSUME IOInv, CallsKept, CloseWrite \/ CancelPacket \/ CloseRead
  PROVE  IOInv'
<1>1. fake_dma' \in Seq(Area) /\ InUse' = {}
  BY FreedType DEF IOInv, CloseWrite, CancelPacket, CloseRead, InUse
<1>2. flags' = {} /\ pos' = 0
  BY DEF CloseWrite, CancelPacket, CloseRead
<1>3. data' \in [0 .. (Size - 1) -> Content]
  BY CommittedType DEF IOInv, TypeOK, CloseWrite, CancelPacket, CloseRead
<1>4. size' \in 0 .. Size /\ HeaderKept' /\ (written' => Inside(size'))
  BY RingAssumption DEF CloseWrite, CancelPacket, CloseRead, IOInv, TypeOK, HeaderKept,
     Closable, ReadWhenWritten, Inside, Writing, Sized
<1>5. lent' \subseteq lent /\ last' = NoTransfer /\ written' \in BOOLEAN
      /\ UNCHANGED <<buffer_pos, stored, contested>>
  BY DEF CloseWrite, CancelPacket, CloseRead, IOInv, TypeOK
<1>6. TypeOK'
  BY <1>1, <1>2, <1>3, <1>4, <1>5 DEF IOInv, TypeOK, CallsKept, NoTransfer
<1> QED
  BY <1>1, <1>2, <1>4, <1>6 DEF CloseWrite, CancelPacket, CloseRead, IOInv, Closable,
     ReadWhenWritten, LentInside, RefusedLosesNothing, CommitCannotFail, NoStaleArea,
     Inside, Writing, Reading, Sized

-----------------------------------------------------------------------------
(* The theorems.                                                           *)

LEMMA InitInv == Init => IOInv
<1> SUFFICES ASSUME Init PROVE IOInv
  OBVIOUS
<1>1. fake_dma \in Seq(Area) /\ last \in [from : Nat, bytes : Seq(Content)]
  BY DEF Init, NoTransfer
<1>2. /\ data \in [0 .. (Size - 1) -> Content] /\ stored \in [Position -> Content]
      /\ size \in 0 .. Size /\ buffer_pos \in HeaderPos /\ calls \in 0 .. MaxCalls
  BY RingAssumption, IOAssumption DEF Init, Content, HeaderPos
<1>3. TypeOK
  BY <1>1, <1>2 DEF Init, TypeOK
<1> QED
  BY <1>3, RingAssumption DEF Init, IOInv, HeaderKept, Closable, ReadWhenWritten, LentInside,
     RefusedLosesNothing, CommitCannotFail, NoStaleArea, InUse, Writing, Reading, Sized, Inside

LEMMA NextInv == IOInv /\ [Next]_vars => IOInv'
<1> SUFFICES ASSUME IOInv, [Next]_vars PROVE IOInv'
  OBVIOUS
<1>1. CASE OpenOrClose /\ calls' = 0
  <2>1. CallsKept
    BY <1>1, IOAssumption DEF CallsKept
  <2> QED
    BY <1>1, <2>1, OpenInv, CloseInv DEF OpenOrClose
<1>2. CASE Transfer /\ calls < MaxCalls /\ calls' = calls + 1
  <2>1. CallsKept
    BY <1>2, IOAssumption DEF CallsKept, IOInv, TypeOK
  <2> QED
    BY <1>2, <2>1, WriteInv, ReadInv, DmaInv, FakeDmaInv, SeekInv, SetSizeInv,
       StoreInBufferInv, StoreInFakeInv DEF Transfer
<1>3. CASE UNCHANGED vars
  BY <1>3 DEF vars, packetVars, ghostVars, IOInv, TypeOK, HeaderKept, Closable,
     ReadWhenWritten, LentInside, RefusedLosesNothing, CommitCannotFail, NoStaleArea,
     InUse, Writing, Reading, Sized, Inside
<1> QED
  BY <1>1, <1>2, <1>3 DEF Next

\* The invariant holds in every state.
THEOREM IOCorrect == Spec => []IOInv
BY InitInv, NextInv, PTL DEF Spec

\* The data of a packet ends before its header: where both are in the area follows
\* from how much there is of them.
LEMMA DataApart == HeaderKept /\ TypeOK => DataApartFromHeader
<1> SUFFICES ASSUME HeaderKept, TypeOK,
                    NEW p \in Span(0, size), NEW i \in 0 .. (HeaderSize - 1)
             PROVE  Cell(p) # (buffer_pos + i) % Size
  BY DEF DataApartFromHeader, Cells
<1>1. /\ size \in Nat /\ p \in Nat /\ p < size /\ size + HeaderSize <= Size
      /\ buffer_pos \in Nat /\ buffer_pos + HeaderSize <= Size
      /\ i \in Nat /\ i < HeaderSize /\ HeaderSize \in Nat /\ Size \in Nat
  BY RingAssumption DEF TypeOK, HeaderKept, Span, HeaderPos
<1>2. (buffer_pos + i) % Size = buffer_pos + i
  BY <1>1
<1>3. CASE buffer_pos + HeaderSize + p < Size
  BY <1>1, <1>2, <1>3 DEF Cell
<1>4. CASE buffer_pos + HeaderSize + p >= Size
  <2>1. (buffer_pos + HeaderSize + p) % Size = buffer_pos + HeaderSize + p - Size
    BY <1>1, <1>4
  <2> QED
    BY <1>1, <1>2, <2>1 DEF Cell
<1> QED
  BY <1>1, <1>3, <1>4

\* Type correctness: no transfer leaves the packet or the area (ps_packet_read and
\* ps_packet_write).
THEOREM TypeCorrect == Spec => []TypeOK
BY IOCorrect, PTL DEF IOInv

\* ps_packet_close can write back every fake area (ps_packet_fakedma_commitall).
THEOREM CommitCorrect == Spec => []CommitCannotFail
BY IOCorrect, PTL DEF IOInv

\* No fake area outlives the packet it was lent for (ps_packet_fakedma_freeall).
THEOREM NoStaleCorrect == Spec => []NoStaleArea
BY IOCorrect, PTL DEF IOInv

\* However a packet grows, its data does not reach its own header (ps_packet_seek).
THEOREM DataApartCorrect == Spec => []DataApartFromHeader
<1>1. IOInv => DataApartFromHeader
  BY DataApart DEF IOInv
<1> QED
  BY <1>1, IOCorrect, PTL

\* A packet that ps_packet_close refuses has nothing stored where it would be cut.
THEOREM RefusedCorrect == Spec => []RefusedLosesNothing
BY IOCorrect, PTL DEF IOInv

-----------------------------------------------------------------------------
(* What a reader is given is what was stored.                              *)

\* What fake area i holds for position p.
Held(i, p) == fake_dma[i].mem[p - fake_dma[i].pos + 1]

\* Until a packet has its size, that covers all that has been stored.
StoredInside ==
  Writing /\ ~Sized => \A p \in Position : stored[p] # Unknown => p < size

\* Two areas only overlap where it is known that they do.
OverlapContested ==
  Writing => \A i, j \in InUse : \A p \in SpanOf(fake_dma[i]) \cap SpanOf(fake_dma[j]) :
    i # j => p \in contested

\* Where nothing is contested, what was stored last is in the fake area if there is
\* one, else in the buffer.
AreasHold ==
  Writing => \A i \in InUse : \A p \in SpanOf(fake_dma[i]) :
    p \notin contested => stored[p] = Held(i, p)

InBuffer(p) == p \in contested \/ stored[p] \in {Unknown, data[Cell(p)]}

BufferHolds ==
  Writing => \A p \in Position : p < size => p \in FakePositions \/ InBuffer(p)

\* Once the packet is written all of it is in the buffer, and what a reader has been
\* given came from there.
WrittenHolds ==
  /\ Reading => written
  /\ written => \A p \in Position : p < size => InBuffer(p)

LastFromBuffer ==
  /\ flags = {} => last = NoTransfer
  /\ Reading => \A k \in DOMAIN last.bytes :
       last.from + k - 1 < size /\ last.bytes[k] = data[Cell(last.from + k - 1)]

WriterHolds == StoredInside /\ OverlapContested /\ AreasHold /\ BufferHolds
ReaderHolds == WrittenHolds /\ LastFromBuffer
DataInv == IOInv /\ WriterHolds /\ ReaderHolds

\* Distances between the bytes of a packet are those between their positions.
LEMMA CellDistance ==
  ASSUME TypeOK, NEW a \in Nat, NEW p \in Nat, a < Size, p < Size
  PROVE  Distance(Cell(a), Cell(p)) = IF p >= a THEN p - a ELSE p + Size - a
<1> DEFINE b == buffer_pos + HeaderSize
<1>1. b \in Nat /\ b <= Size /\ Size \in Nat /\ Size > 0
  BY RingAssumption DEF TypeOK, HeaderPos
<1>2. \A x \in Nat : x < Size => Cell(x) = IF b + x < Size THEN b + x ELSE b + x - Size
  <2> SUFFICES ASSUME NEW x \in Nat, x < Size
               PROVE  (b + x) % Size = IF b + x < Size THEN b + x ELSE b + x - Size
    BY DEF Cell
  <2> QED
    BY <1>1
<1>3. \A d \in Nat : d < 2 * Size => d % Size = IF d < Size THEN d ELSE d - Size
  BY <1>1
<1> HIDE DEF b
<1>4. /\ Cell(a) = IF b + a < Size THEN b + a ELSE b + a - Size
      /\ Cell(p) = IF b + p < Size THEN b + p ELSE b + p - Size
  BY <1>2
<1>5. Cell(p) + Size - Cell(a) \in Nat /\ Cell(p) + Size - Cell(a) < 2 * Size
  BY <1>1, <1>4
<1>6. Distance(Cell(a), Cell(p)) =
        IF Cell(p) + Size - Cell(a) < Size THEN Cell(p) + Size - Cell(a) ELSE Cell(p) - Cell(a)
  BY <1>1, <1>3, <1>4, <1>5 DEF Distance
<1> QED
  BY <1>1, <1>4, <1>6

\* So different positions are different bytes.
LEMMA CellInjective ==
  ASSUME TypeOK, NEW a \in Nat, NEW p \in Nat, a < Size, p < Size, Cell(a) = Cell(p)
  PROVE  a = p
<1>1. Distance(Cell(a), Cell(p)) = Distance(Cell(a), Cell(a))
  OBVIOUS
<1> QED
  BY <1>1, CellDistance, RingAssumption

\* Copying changes what it should.
LEMMA CopiedAt ==
  ASSUME TypeOK, NEW from \in Nat, NEW bytes \in Seq(Content), from + Len(bytes) <= Size,
         Len(bytes) > 0, NEW p \in Nat, p < Size
  PROVE  Copied(data, from, bytes)[Cell(p)] =
           IF p \in Span(from, Len(bytes)) THEN bytes[p - from + 1] ELSE data[Cell(p)]
<1> DEFINE k == Distance(Cell(from), Cell(p))
<1>1. Len(bytes) \in Nat /\ Size \in Nat /\ from < Size
  BY RingAssumption
<1>2. k = IF p >= from THEN p - from ELSE p + Size - from
  BY <1>1, CellDistance
<1>3. Cell(p) \in DOMAIN data
  BY CellType DEF TypeOK
<1>4. Copied(data, from, bytes)[Cell(p)] = IF k < Len(bytes) THEN bytes[k + 1] ELSE data[Cell(p)]
  BY <1>3 DEF Copied
<1>5. k < Len(bytes) <=> p \in Span(from, Len(bytes))
  BY <1>1, <1>2 DEF Span
<1>6. p \in Span(from, Len(bytes)) => k = p - from
  BY <1>1, <1>2 DEF Span
<1> QED
  BY <1>4, <1>5, <1>6

\* Writing back leaves at each position what an area over it held, if there is one.
LEMMA CommittedAt ==
  ASSUME TypeOK, NEW p \in Nat, p < Size,
         \A i \in InUse : fake_dma[i].pos + Len(fake_dma[i].mem) < Size
  PROVE  \/ p \notin FakePositions /\ Committed[Cell(p)] = data[Cell(p)]
         \/ \E i \in InUse : p \in SpanOf(fake_dma[i]) /\ Committed[Cell(p)] = Held(i, p)
<1> DEFINE Offset(i) == Distance(Cell(fake_dma[i].pos), Cell(p))
           over == {i \in InUse : Offset(i) < Len(fake_dma[i].mem)}
<1>1. Cell(p) \in DOMAIN data
  BY CellType DEF TypeOK
<1>2. Committed[Cell(p)] = IF over = {} THEN data[Cell(p)]
                           ELSE fake_dma[Max(over)].mem[Offset(Max(over)) + 1]
  BY <1>1 DEF Committed
<1>3. ASSUME NEW i \in InUse
      PROVE  /\ Offset(i) < Len(fake_dma[i].mem) <=> p \in SpanOf(fake_dma[i])
             /\ p \in SpanOf(fake_dma[i]) => Offset(i) = p - fake_dma[i].pos
  <2> DEFINE from == fake_dma[i].pos
             len == Len(fake_dma[i].mem)
  <2>1. from \in Nat /\ len \in Nat /\ from + len < Size /\ Size \in Nat
    BY AreaType, RingAssumption DEF InUse
  <2>2. Offset(i) = IF p >= from THEN p - from ELSE p + Size - from
    BY <2>1, CellDistance
  <2>3. p \in SpanOf(fake_dma[i]) <=> from <= p /\ p < from + len
    BY <2>1 DEF SpanOf, Span
  <2> HIDE DEF from, len, Offset
  <2>4. (Offset(i) < len <=> p \in SpanOf(fake_dma[i]))
        /\ (p \in SpanOf(fake_dma[i]) => Offset(i) = p - from)
    BY <2>1, <2>2, <2>3
  <2> QED
    BY <2>4 DEF from, len
<1>4. CASE over = {}
  BY <1>2, <1>3, <1>4 DEF FakePositions
<1>5. CASE over # {}
  <2>1. Len(fake_dma) \in Nat /\ over \in SUBSET (1 .. Len(fake_dma))
    BY AreaType DEF InUse
  <2>2. Max(over) \in over
    BY <1>5, <2>1, MaxType
  <2> DEFINE i == Max(over)
  <2>3. i \in InUse /\ Offset(i) < Len(fake_dma[i].mem)
    BY <2>2
  <2>4. Committed[Cell(p)] = fake_dma[i].mem[Offset(i) + 1]
    BY <1>2, <1>5
  <2> HIDE DEF i, over
  <2>5. p \in SpanOf(fake_dma[i]) /\ Committed[Cell(p)] = fake_dma[i].mem[p - fake_dma[i].pos + 1]
    BY <1>3, <2>3, <2>4
  <2> QED
    BY <2>3, <2>5 DEF Held
<1> QED
  BY <1>4, <1>5

\* A packet has one side at a time.
LEMMA WriterOnly == IOInv /\ Writing => ReaderHolds
BY OneMode DEF IOInv, ReadWhenWritten, ReaderHolds, WrittenHolds, LastFromBuffer

LEMMA ReaderOnly == ~Writing => WriterHolds
BY DEF WriterHolds, StoredInside, OverlapContested, AreasHold, BufferHolds

\* A packet whose position moves while nothing is stored.
LEMMA GrowthHolds ==
  ASSUME DataInv, IOInv', Writing, size' >= size, Sized => size' = size,
         UNCHANGED <<data, buffer_pos, flags, fake_dma, stored, contested>>
  PROVE  DataInv'
<1>1. size \in Nat /\ size' \in Nat /\ Position \subseteq Nat
  BY RingAssumption DEF DataInv, IOInv, TypeOK, Position
<1>2. StoredInside'
  BY <1>1 DEF DataInv, WriterHolds, StoredInside, Writing, Sized
<1>3. OverlapContested' /\ AreasHold'
  BY DEF DataInv, WriterHolds, OverlapContested, AreasHold, Writing, InUse, Held
<1>4. BufferHolds'
  <2> SUFFICES ASSUME NEW p \in Position, p < size'
               PROVE  p \in FakePositions \/ InBuffer(p)
    BY DEF BufferHolds, FakePositions, InUse, InBuffer, Cell
  <2>1. CASE p < size
    BY <2>1 DEF DataInv, WriterHolds, BufferHolds
  <2>2. CASE ~(p < size)
    BY <1>1, <2>2 DEF DataInv, WriterHolds, StoredInside, InBuffer
  <2> QED
    BY <2>1, <2>2
<1>5. ReaderHolds'
  <2>1. Writing'
    BY DEF Writing
  <2> QED
    BY <2>1, WriterOnly, PTL
<1> QED
  BY <1>2, <1>3, <1>4, <1>5 DEF DataInv, WriterHolds

\* A reader that is given bytes of the buffer, or none.
LEMMA DeliveryHolds ==
  ASSUME DataInv, IOInv', Reading, UNCHANGED <<data, size, written, buffer_pos, flags, stored, contested>>,
         \/ last' = NoTransfer
         \/ \E n \in Nat : pos + n <= size /\ last' = [from |-> pos, bytes |-> Bytes(pos, n)]
  PROVE  DataInv'
<1>1. ~Writing' /\ flags' # {}
  BY OneMode DEF DataInv, IOInv, Writing, Reading
<1>2. WrittenHolds'
  BY DEF DataInv, ReaderHolds, WrittenHolds, Reading, InBuffer, Cell
<1>3. LastFromBuffer'
  <2>1. CASE last' = NoTransfer
    BY <1>1, <2>1 DEF LastFromBuffer, NoTransfer
  <2>2. ASSUME NEW n \in Nat, pos + n <= size, last' = [from |-> pos, bytes |-> Bytes(pos, n)]
        PROVE  LastFromBuffer'
    <3>1. pos \in Nat /\ size \in Nat
      BY DEF DataInv, IOInv, TypeOK
    <3>2. DOMAIN last'.bytes = 1 .. n
      BY <2>2 DEF Bytes
    <3>3. \A k \in 1 .. n : last'.bytes[k] = data[Cell(last'.from + k - 1)]
      BY <2>2 DEF Bytes
    <3>4. \A k \in 1 .. n : last'.from + k - 1 < size
      BY <2>2, <3>1
    <3> QED
      BY <1>1, <3>2, <3>3, <3>4 DEF LastFromBuffer, Cell
  <2> QED
    BY <2>1, <2>2
<1>4. WriterHolds'
  BY <1>1, ReaderOnly, PTL
<1> QED
  BY <1>2, <1>3, <1>4 DEF DataInv, ReaderHolds

LEMMA OpenData ==
  ASSUME DataInv, IOInv', OpenWrite \/ OpenRead
  PROVE  DataInv'
<1>1. CASE OpenWrite
  <2>1. InUse' = {} /\ Writing' /\ ~Sized'
    BY <1>1 DEF OpenWrite, DataInv, IOInv, NoStaleArea, InUse, Writing, Sized
  <2>2. WriterHolds'
    BY <1>1, <2>1 DEF OpenWrite, WriterHolds, StoredInside, OverlapContested, AreasHold,
       BufferHolds, InBuffer
  <2>3. ReaderHolds'
    BY <2>1, WriterOnly, PTL
  <2> QED
    BY <2>2, <2>3 DEF DataInv
<1>2. CASE OpenRead
  <2>1. flags' = {"READ"} /\ ~Writing' /\ written' /\ last' = NoTransfer
    BY <1>2 DEF OpenRead, ghostVars, Writing, DataInv, ReaderHolds, LastFromBuffer
  <2>2. WrittenHolds'
    BY <1>2, <2>1 DEF OpenRead, ghostVars, DataInv, ReaderHolds, WrittenHolds, InBuffer, Cell
  <2>3. LastFromBuffer'
    BY <2>1 DEF LastFromBuffer, NoTransfer
  <2>4. WriterHolds'
    BY <2>1, ReaderOnly, PTL
  <2> QED
    BY <2>2, <2>3, <2>4 DEF DataInv, ReaderHolds
<1> QED
  BY <1>1, <1>2

LEMMA MoveData ==
  ASSUME DataInv, IOInv',
         (\E n \in Lengths : Read(n) \/ Dma(n)) \/ (\E p \in 0 .. Size : Seek(p))
  PROVE  DataInv'
<1>1. ASSUME NEW n \in Lengths, Read(n) PROVE DataInv'
  <2>1. n \in Nat /\ pos + n <= size /\ size \in Nat
    BY <1>1, LengthsType DEF Read, DataInv, IOInv, TypeOK
  <2>2. CASE Writing
    BY <1>1, <2>1, <2>2, GrowthHolds DEF Read
  <2>3. CASE Reading
    BY <1>1, <2>1, <2>3, DeliveryHolds DEF Read
  <2> QED
    BY <1>1, <2>2, <2>3 DEF Read
<1>2. ASSUME NEW n \in Lengths, Dma(n) PROVE DataInv'
  <2>1. /\ n \in Nat /\ size' >= size /\ (Sized \/ Reading => size' = size)
        /\ Reading => pos + n <= size
    BY <1>2, FitsInside DEF Dma, DataInv, Fits
  <2>2. CASE Writing
    BY <1>2, <2>1, <2>2, GrowthHolds DEF Dma
  <2>3. CASE Reading
    BY <1>2, <2>1, <2>3, DeliveryHolds DEF Dma
  <2> QED
    BY <1>2, <2>2, <2>3 DEF Dma
<1>3. ASSUME NEW p \in 0 .. Size, Seek(p) PROVE DataInv'
  <2>1. size' >= size /\ (Sized \/ Reading => size' = size)
    BY <1>3, RaisedType DEF Seek, Seekable, DataInv
  <2>2. CASE Writing
    BY <1>3, <2>1, <2>2, GrowthHolds DEF Seek
  <2>3. CASE Reading
    BY <1>3, <2>1, <2>3, DeliveryHolds DEF Seek
  <2> QED
    BY <1>3, <2>2, <2>3 DEF Seek
<1> QED
  BY <1>1, <1>2, <1>3

LEMMA WriteData ==
  ASSUME DataInv, IOInv', NEW bytes \in Data, Write(bytes)
  PROVE  DataInv'
<1> DEFINE n == Len(bytes)
<1>1. n \in Nat /\ n > 0 /\ bytes \in Seq(Content)
  BY DataType
<1>2. /\ pos \in Nat /\ size \in Nat /\ Size \in Nat /\ TypeOK
      /\ \A p \in Position : p \in Nat /\ p < Size
  BY RingAssumption DEF DataInv, IOInv, TypeOK, Position
<1>3. Inside(pos + n) /\ pos + n <= Size
  BY <1>1, <1>2, RingAssumption
     DEF Write, Fits, Inside, DataInv, IOInv, Closable, Writing, Reading
<1>4. /\ size' \in Nat /\ size' >= size /\ (Sized => size' = size)
      /\ ~Sized => pos + n <= size'
  BY <1>1, <1>2 DEF Write, Raised
<1>5. ASSUME NEW p \in Position
      PROVE  /\ p \in Span(pos, n) => stored'[p] = data'[Cell(p)] /\ p < pos + n
             /\ p \notin Span(pos, n) => stored'[p] = stored[p] /\ data'[Cell(p)] = data[Cell(p)]
  <2>1. stored'[p] = IF p \in Span(pos, n) THEN bytes[p - pos + 1] ELSE stored[p]
    BY <1>2 DEF Write, Overlaid, TypeOK
  <2>2. data'[Cell(p)] = IF p \in Span(pos, n) THEN bytes[p - pos + 1] ELSE data[Cell(p)]
    BY <1>1, <1>2, <1>3, CopiedAt DEF Write
  <2>3. p \in Span(pos, n) => p < pos + n
    BY <1>1, <1>2 DEF Span
  <2> QED
    BY <2>1, <2>2, <2>3
<1>6. Writing' /\ UNCHANGED <<flags, fake_dma, buffer_pos>> /\ Writing
      /\ contested' = contested \cup (Span(pos, n) \cap FakePositions)
  BY DEF Write, Writing
<1> HIDE DEF n
<1>7. StoredInside'
  BY <1>1, <1>2, <1>4, <1>5, <1>6 DEF DataInv, WriterHolds, StoredInside, Sized
<1>8. OverlapContested'
  BY <1>6 DEF DataInv, WriterHolds, OverlapContested, InUse
<1>9. AreasHold'
  <2> SUFFICES ASSUME NEW i \in InUse, NEW p \in SpanOf(fake_dma[i]), p \notin contested'
               PROVE  stored'[p] = Held(i, p)
    BY <1>6 DEF AreasHold, InUse, Held
  <2>1. p \in FakePositions
    BY DEF FakePositions
  <2>2. p \notin Span(pos, n) /\ p \notin contested
    BY <1>6, <2>1
  <2>3. p \in Position
    <3>1. fake_dma[i].pos \in Nat /\ Len(fake_dma[i].mem) \in Nat
      BY <1>2, AreaType DEF InUse
    <3>2. Inside(fake_dma[i].pos + Len(fake_dma[i].mem))
      BY <1>6 DEF DataInv, IOInv, LentInside
    <3> QED
      BY <3>1, <3>2, RingAssumption DEF Inside, SpanOf, Span, Position
  <2> QED
    BY <1>5, <1>6, <2>2, <2>3 DEF DataInv, WriterHolds, AreasHold
<1>10. BufferHolds'
  <2> SUFFICES ASSUME NEW p \in Position, p < size'
               PROVE  \/ p \in FakePositions \/ p \in contested
                      \/ stored'[p] \in {Unknown, data'[Cell(p)]}
    BY <1>6 DEF BufferHolds, FakePositions, InUse, InBuffer, Cell
  <2>1. CASE p \in Span(pos, n)
    BY <1>5, <2>1
  <2>2. CASE p \notin Span(pos, n) /\ p < size
    BY <1>5, <1>6, <2>2 DEF DataInv, WriterHolds, BufferHolds, InBuffer
  <2>3. CASE p \notin Span(pos, n) /\ ~(p < size)
    <3>1. ~Sized
      BY <1>4, <2>3
    <3> QED
      BY <1>5, <1>6, <2>3, <3>1 DEF DataInv, WriterHolds, StoredInside
  <2> QED
    BY <2>1, <2>2, <2>3
<1>11. ReaderHolds'
  BY <1>6, WriterOnly, PTL
<1> QED
  BY <1>7, <1>8, <1>9, <1>10, <1>11 DEF DataInv, WriterHolds

LEMMA StoreInBufferData ==
  ASSUME DataInv, IOInv', NEW area \in lent, NEW p \in Position, NEW b \in Byte,
         StoreInBuffer(area, p, b)
  PROVE  DataInv'
<1>1. /\ Writing /\ Writing' /\ UNCHANGED <<size, flags, fake_dma, buffer_pos>> /\ p < size
      /\ contested' = contested \cup ({p} \cap FakePositions) /\ TypeOK
  BY DEF StoreInBuffer, packetVars, Writing, DataInv, IOInv
<1>2. /\ p \in Nat /\ size \in Nat
      /\ \A q \in Position : q \in Nat /\ q < Size
  BY <1>1, RingAssumption DEF TypeOK, Position
<1>3. ASSUME NEW q \in Position
      PROVE  /\ q = p => stored'[q] = data'[Cell(q)]
             /\ q # p => stored'[q] = stored[q] /\ data'[Cell(q)] = data[Cell(q)]
  <2>1. stored'[q] = IF q = p THEN b ELSE stored[q]
    BY <1>1 DEF StoreInBuffer, TypeOK
  <2>2. data'[Cell(q)] = IF Cell(q) = Cell(p) THEN b ELSE data[Cell(q)]
    BY <1>1, <1>2, CellType DEF StoreInBuffer, TypeOK
  <2> QED
    BY <1>1, <1>2, <2>1, <2>2, CellInjective
<1>4. StoredInside'
  <2> SUFFICES ASSUME ~Sized, NEW q \in Position, stored'[q] # Unknown
               PROVE  q < size
    BY <1>1 DEF StoredInside, Sized
  <2>1. q = p \/ stored[q] # Unknown
    BY <1>3
  <2> QED
    BY <1>1, <2>1 DEF DataInv, WriterHolds, StoredInside
<1>5. OverlapContested'
  BY <1>1 DEF DataInv, WriterHolds, OverlapContested, InUse
<1>6. AreasHold'
  <2> SUFFICES ASSUME NEW i \in InUse, NEW q \in SpanOf(fake_dma[i]), q \notin contested'
               PROVE  stored'[q] = Held(i, q)
    BY <1>1 DEF AreasHold, InUse, Held
  <2>1. q \in FakePositions
    BY DEF FakePositions
  <2>2. q # p /\ q \notin contested
    BY <1>1, <2>1
  <2>3. stored'[q] = stored[q]
    BY <2>2 DEF StoreInBuffer
  <2> QED
    BY <1>1, <2>2, <2>3 DEF DataInv, WriterHolds, AreasHold
<1>7. BufferHolds'
  <2> SUFFICES ASSUME NEW q \in Position, q < size
               PROVE  \/ q \in FakePositions \/ q \in contested
                      \/ stored'[q] \in {Unknown, data'[Cell(q)]}
    BY <1>1 DEF BufferHolds, FakePositions, InUse, InBuffer, Cell
  <2> QED
    BY <1>1, <1>3 DEF DataInv, WriterHolds, BufferHolds, InBuffer
<1>8. ReaderHolds'
  BY <1>1, WriterOnly, PTL
<1> QED
  BY <1>4, <1>5, <1>6, <1>7, <1>8 DEF DataInv, WriterHolds

LEMMA StoreInFakeData ==
  ASSUME DataInv, IOInv', NEW i \in InUse, NEW p \in Position, NEW b \in Byte,
         StoreInFake(i, p, b)
  PROVE  DataInv'
<1> DEFINE area == fake_dma[i]
           k == p - area.pos + 1
           mem == [area.mem EXCEPT ![k] = b]
<1>0. i \in DOMAIN fake_dma /\ area \in Area /\ DOMAIN fake_dma = 1 .. Len(fake_dma)
  BY AreaType DEF DataInv, IOInv, InUse
<1>1. /\ Writing /\ Writing' /\ UNCHANGED <<data, size, flags, buffer_pos, contested>>
      /\ p \in SpanOf(fake_dma[i]) /\ TypeOK
  BY DEF StoreInFake, Writing, DataInv, IOInv
<1>2. \A q \in Position : stored'[q] = IF q = p THEN b ELSE stored[q]
  BY <1>1 DEF StoreInFake, TypeOK
<1>3. \A j \in InUse :
        /\ j \in DOMAIN fake_dma /\ fake_dma[j] \in Area
        /\ fake_dma[j].pos \in Nat /\ Len(fake_dma[j].mem) \in Nat
        /\ fake_dma[j].mem \in Seq(Content)
        /\ fake_dma[j].pos + Len(fake_dma[j].mem) <= size
  BY <1>1, AreaType DEF InUse, DataInv, IOInv, CommitCannotFail
<1>4. k \in 1 .. Len(fake_dma[i].mem)
  BY <1>1, <1>3 DEF SpanOf, Span
<1>5. /\ InUse' = InUse
      /\ \A j \in InUse : SpanOf(fake_dma'[j]) = SpanOf(fake_dma[j])
      /\ \A j \in InUse : j # i => fake_dma'[j] = fake_dma[j]
      /\ fake_dma'[i].pos = fake_dma[i].pos
      /\ fake_dma'[i].mem = [fake_dma[i].mem EXCEPT ![k] = b]
  <2>0. fake_dma' = [fake_dma EXCEPT ![i] = [area EXCEPT !.mem = mem]]
    BY <1>0 DEF StoreInFake, Area
  <2>1. fake_dma'[i] = [area EXCEPT !.mem = mem]
    BY <1>0, <2>0
  <2>2. /\ fake_dma'[i].pos = fake_dma[i].pos /\ fake_dma'[i].free = fake_dma[i].free
        /\ fake_dma'[i].mem = mem
    BY <1>0, <2>1 DEF Area
  <2>3. Len(mem) = Len(fake_dma[i].mem)
    BY <1>3, <1>4, ExceptSeq DEF Content
  <2>4. \A j \in DOMAIN fake_dma : j # i => fake_dma'[j] = fake_dma[j]
    BY <2>0
  <2>5. DOMAIN fake_dma' = DOMAIN fake_dma
    BY <2>0
  <2> HIDE DEF mem, k
  <2>6. InUse' = InUse
    BY <2>2, <2>4, <2>5 DEF InUse
  <2>7. SpanOf(fake_dma'[i]) = SpanOf(fake_dma[i])
    BY <2>2, <2>3 DEF SpanOf
  <2>8. \A j \in InUse : SpanOf(fake_dma'[j]) = SpanOf(fake_dma[j])
    BY <1>3, <2>4, <2>7
  <2> QED
    BY <1>3, <2>2, <2>4, <2>6, <2>8 DEF mem, k
<1>6. \A j \in InUse : \A q \in SpanOf(fake_dma[j]) :
        q \in Nat /\ q < size /\ q \in Position
  <2>1. size \in Nat /\ size + HeaderSize <= Size
    BY <1>1 DEF DataInv, IOInv, HeaderKept, TypeOK
  <2> QED
    BY <1>3, <2>1, RingAssumption DEF SpanOf, Span, Position
<1>7. FakePositions' = FakePositions
  <2>1. FakePositions' = UNION {SpanOf(fake_dma'[j]) : j \in InUse'}
    BY DEF FakePositions, SpanOf, Span
  <2> QED
    BY <1>5, <2>1 DEF FakePositions
<1>8. StoredInside'
  <2> SUFFICES ASSUME ~Sized, NEW q \in Position, stored'[q] # Unknown
               PROVE  q < size
    BY <1>1 DEF StoredInside, Sized
  <2>1. q = p \/ stored[q] # Unknown
    BY <1>2
  <2> QED
    BY <1>1, <1>6, <2>1 DEF DataInv, WriterHolds, StoredInside
<1>9. OverlapContested'
  <2> SUFFICES ASSUME NEW h \in InUse, NEW j \in InUse, h # j,
                      NEW q \in SpanOf(fake_dma'[h]), q \in SpanOf(fake_dma'[j])
               PROVE  q \in contested
    BY <1>1, <1>5 DEF OverlapContested, SpanOf, Span
  <2>1. q \in SpanOf(fake_dma[h]) /\ q \in SpanOf(fake_dma[j])
    BY <1>5
  <2> QED
    BY <1>1, <2>1 DEF DataInv, WriterHolds, OverlapContested
<1>10. AreasHold'
  <2> SUFFICES ASSUME NEW j \in InUse, NEW q \in SpanOf(fake_dma[j]), q \notin contested
               PROVE  stored'[q] = fake_dma'[j].mem[q - fake_dma'[j].pos + 1]
    <3>1. \A j \in InUse : SpanOf(fake_dma'[j]) = SpanOf(fake_dma[j])
      BY <1>5
    <3>2. AreasHold' <=> \A j \in InUse' : \A q \in SpanOf(fake_dma'[j]) :
            q \notin contested' => stored'[q] = fake_dma'[j].mem[q - fake_dma'[j].pos + 1]
      BY <1>1 DEF AreasHold, Held, SpanOf, Span
    <3> QED
      BY <1>1, <1>5, <3>1, <3>2
  <2>1. stored[q] = fake_dma[j].mem[q - fake_dma[j].pos + 1] /\ q \in Position /\ q \in Nat
    BY <1>1, <1>6 DEF DataInv, WriterHolds, AreasHold, Held
  <2>2. CASE j = i /\ q = p
    BY <1>2, <1>3, <1>4, <1>5, <2>2
  <2>3. CASE j = i /\ q # p
    <3>1. q - fake_dma[i].pos + 1 # k
      BY <1>3, <2>1, <2>3, RingAssumption DEF Position
    <3>2. q - fake_dma[i].pos + 1 \in 1 .. Len(fake_dma[i].mem)
      BY <1>3, <2>3 DEF SpanOf, Span
    <3>3. [fake_dma[i].mem EXCEPT ![k] = b][q - fake_dma[i].pos + 1]
            = fake_dma[i].mem[q - fake_dma[i].pos + 1]
      BY <1>3, <3>1, <3>2
    <3> QED
      BY <1>2, <1>5, <2>1, <2>3, <3>3
  <2>4. CASE j # i
    <3>1. q # p
      BY <1>1, <2>4 DEF DataInv, WriterHolds, OverlapContested
    <3> QED
      BY <1>2, <1>5, <2>1, <2>4, <3>1
  <2> QED
    BY <2>2, <2>3, <2>4
<1>11. BufferHolds'
  <2> SUFFICES ASSUME NEW q \in Position, q < size
               PROVE  \/ q \in FakePositions \/ q \in contested
                      \/ stored'[q] \in {Unknown, data[Cell(q)]}
    BY <1>1, <1>7 DEF BufferHolds, InBuffer, Cell
  <2>1. CASE q = p
    BY <1>1, <2>1 DEF FakePositions
  <2>2. CASE q # p
    BY <1>1, <1>2, <2>2 DEF DataInv, WriterHolds, BufferHolds, InBuffer
  <2> QED
    BY <2>1, <2>2
<1>12. ReaderHolds'
  BY <1>1, WriterOnly, PTL
<1> QED
  BY <1>8, <1>9, <1>10, <1>11, <1>12 DEF DataInv, WriterHolds

\* What is left of the areas covers what they covered below the size.
LEMMA CutSpans ==
  ASSUME TypeOK, NEW n \in Nat, NEW i \in DOMAIN fake_dma, NEW p \in Nat
  PROVE  /\ ~Cut(n)[i].free /\ p \in SpanOf(Cut(n)[i])
              <=> ~fake_dma[i].free /\ p \in SpanOf(fake_dma[i]) /\ p < n
         /\ ~Cut(n)[i].free /\ p \in SpanOf(Cut(n)[i])
              => Cut(n)[i].mem[p - Cut(n)[i].pos + 1] = Held(i, p)
<1> DEFINE area == fake_dma[i]
<1>1. area \in Area /\ area.pos \in Nat /\ area.mem \in Seq(Content) /\ Len(area.mem) \in Nat
  BY AreaType
<1>2. CASE area.pos > n
  <2>1. Cut(n)[i] = FreeArea
    BY <1>2 DEF Cut
  <2>2. p \in SpanOf(area) => ~(p < n)
    BY <1>1, <1>2 DEF SpanOf, Span
  <2> QED
    BY <2>1, <2>2 DEF FreeArea
<1>3. CASE ~(area.pos > n) /\ area.pos + Len(area.mem) > n
  <2> DEFINE m == SubSeq(area.mem, 1, n - area.pos)
  <2>1. /\ Len(m) = n - area.pos
        /\ \A k \in 1 .. (n - area.pos) : m[k] = area.mem[k]
    BY <1>1, <1>3, SubSeqProperties
  <2>2. Cut(n)[i] = [area EXCEPT !.mem = m]
    BY <1>3 DEF Cut
  <2> HIDE DEF m
  <2>3. Cut(n)[i].free = area.free /\ Cut(n)[i].pos = area.pos /\ Cut(n)[i].mem = m
    BY <1>1, <2>2 DEF Area
  <2>4. p \in SpanOf(Cut(n)[i]) <=> p \in SpanOf(area) /\ p < n
    BY <1>1, <1>3, <2>1, <2>3 DEF SpanOf, Span
  <2>5. p \in SpanOf(Cut(n)[i]) => p - area.pos + 1 \in 1 .. (n - area.pos)
    BY <1>1, <1>3, <2>1, <2>3 DEF SpanOf, Span
  <2> QED
    BY <2>1, <2>3, <2>4, <2>5 DEF Held
<1>4. CASE ~(area.pos > n) /\ ~(area.pos + Len(area.mem) > n)
  <2>1. Cut(n)[i] = area
    BY <1>4 DEF Cut
  <2>2. p \in SpanOf(area) => p < n
    BY <1>1, <1>4 DEF SpanOf, Span
  <2> QED
    BY <2>1, <2>2 DEF Held
<1> QED
  BY <1>2, <1>3, <1>4

\* Where an area is put in the list, and where the others go.
LEMMA WithAreaPlaces ==
  ASSUME TypeOK, NEW area \in Area
  PROVE  \E m \in DOMAIN WithArea(area), s \in {0, 1} :
           /\ WithArea(area)[m] = area
           /\ \A i \in DOMAIN WithArea(area) :
                i # m => i - s \in DOMAIN fake_dma /\ WithArea(area)[i] = fake_dma[i - s]
           /\ \A j \in InUse : j + s \in DOMAIN WithArea(area) /\ j + s # m
<1> DEFINE free == DOMAIN fake_dma \ InUse
<1>0. /\ fake_dma \in Seq(Area) /\ Len(fake_dma) \in Nat
      /\ DOMAIN fake_dma = 1 .. Len(fake_dma) /\ InUse \subseteq DOMAIN fake_dma
  BY AreaType DEF TypeOK, InUse
<1>1. CASE free = {}
  <2> DEFINE w == <<area>> \o fake_dma
  <2>1. WithArea(area) = w
    BY <1>1 DEF WithArea
  <2>2. /\ DOMAIN w = 1 .. (Len(fake_dma) + 1) /\ w[1] = area
        /\ \A i \in DOMAIN w : i # 1 => w[i] = fake_dma[i - 1]
    BY <1>0
  <2> HIDE DEF w
  <2>3. /\ \A i \in DOMAIN w : i # 1 => i - 1 \in DOMAIN fake_dma /\ w[i] = fake_dma[i - 1]
        /\ \A j \in InUse : j + 1 \in DOMAIN w /\ j + 1 # 1
        /\ 1 \in DOMAIN w
    BY <1>0, <2>2
  <2> QED
    BY <2>1, <2>2, <2>3
<1>2. CASE free # {}
  <2> DEFINE m == Min(free)
  <2>0. free \in SUBSET Nat
    BY <1>0
  <2>1. m \in free
    BY <1>2, <2>0, MinType
  <2>2. WithArea(area) = [fake_dma EXCEPT ![m] = area]
    BY <1>2 DEF WithArea
  <2> HIDE DEF m
  <2>3. /\ DOMAIN WithArea(area) = DOMAIN fake_dma /\ WithArea(area)[m] = area
        /\ \A i \in DOMAIN fake_dma : i # m => WithArea(area)[i] = fake_dma[i]
    BY <2>1, <2>2
  <2>4. \A i \in DOMAIN fake_dma : i - 0 = i /\ i + 0 = i
    BY <1>0
  <2> QED
    BY <1>0, <2>1, <2>3, <2>4
<1> QED
  BY <1>1, <1>2

LEMMA FakeDmaData ==
  ASSUME DataInv, IOInv', NEW n \in Lengths, FakeDma(n)
  PROVE  DataInv'
<1>1. /\ n \in Nat /\ n > 0 /\ pos \in Nat /\ Inside(pos + n) /\ pos \in Position
      /\ size \in Nat /\ TypeOK
  BY FitsInside DEF FakeDma, DataInv, IOInv, TypeOK
<1>2. CASE Reading
  <2>1. ~Writing /\ pos + n <= size
    BY <1>1, <1>2, OneMode DEF FakeDma, Fits
  <2>2. size' = size /\ contested' = contested
    BY <2>1 DEF FakeDma, Raised
  <2>3. last' = [from |-> pos, bytes |-> Bytes(pos, n)]
    BY <1>2 DEF FakeDma
  <2> QED
    BY <1>1, <1>2, <2>1, <2>2, <2>3, DeliveryHolds DEF FakeDma
<1>3. CASE Writing
  <2> DEFINE found == [k \in 1 .. n |-> Unknown]
             area == [pos |-> pos, mem |-> found, free |-> FALSE]
             span == Span(pos, n)
  <2>1. found \in Seq(Content) /\ Len(found) = n
    BY <1>1 DEF Content
  <2>2. area \in Area /\ SpanOf(area) = span
    BY <1>1, <2>1 DEF Area, SpanOf
  <2>3. /\ fake_dma' = WithArea(area) /\ ~Reading
        /\ UNCHANGED <<data, flags, buffer_pos, stored>>
        /\ contested' = contested \cup
             {p \in span : stored[p] # Unknown \/ p \in FakePositions}
    BY <1>1, <1>3, OneMode DEF FakeDma
  <2>4. /\ size' \in Nat /\ size' >= size /\ (Sized => size' = size) /\ pos + n <= size'
    BY <1>1, <1>3, <2>3, FitsInside DEF FakeDma, DataInv
  <2>5. PICK m \in DOMAIN fake_dma', s \in {0, 1} :
           /\ fake_dma'[m] = area
           /\ \A i \in DOMAIN fake_dma' :
                i # m => i - s \in DOMAIN fake_dma /\ fake_dma'[i] = fake_dma[i - s]
           /\ \A j \in InUse : j + s \in DOMAIN fake_dma' /\ j + s # m
    <3> HIDE DEF area
    <3>1. \E m \in DOMAIN WithArea(area), s \in {0, 1} :
            /\ WithArea(area)[m] = area
            /\ \A i \in DOMAIN WithArea(area) :
                 i # m => i - s \in DOMAIN fake_dma /\ WithArea(area)[i] = fake_dma[i - s]
            /\ \A j \in InUse : j + s \in DOMAIN WithArea(area) /\ j + s # m
      BY <1>1, <2>2, WithAreaPlaces
    <3> QED
      BY <2>3, <3>1
  <2>6. DOMAIN fake_dma' \subseteq Nat /\ DOMAIN fake_dma \subseteq Nat
    <3>1. fake_dma' \in Seq(Area) /\ fake_dma \in Seq(Area)
      BY DEF DataInv, IOInv, TypeOK
    <3> QED
      BY <3>1
  <2>7. m \in InUse' /\ \A i \in InUse' : i # m => i - s \in InUse
    BY <2>5 DEF InUse
  <2>8. \A j \in InUse : /\ j + s \in InUse' /\ j + s # m /\ fake_dma'[j + s] = fake_dma[j]
    <3> SUFFICES ASSUME NEW j \in InUse
                 PROVE  j + s \in InUse' /\ j + s # m /\ fake_dma'[j + s] = fake_dma[j]
      OBVIOUS
    <3>1. j \in Nat /\ (j + s) - s = j /\ ~fake_dma[j].free
      BY <2>6 DEF InUse
    <3> QED
      BY <2>5, <3>1 DEF InUse
  <2> HIDE DEF area, found, span
  <2>9. \A p : p \in FakePositions' <=> p \in FakePositions \/ p \in span
    <3>1. \A p : p \in FakePositions' <=> \E i \in InUse' : p \in SpanOf(fake_dma'[i])
      BY DEF FakePositions, SpanOf, Span
    <3>2. \A p : p \in FakePositions <=> \E i \in InUse : p \in SpanOf(fake_dma[i])
      BY DEF FakePositions
    <3>3. \A p \in span : p \in FakePositions'
      BY <2>2, <2>5, <2>7, <3>1
    <3>4. ASSUME NEW i \in InUse', NEW p \in SpanOf(fake_dma'[i]), p \notin span
          PROVE  p \in FakePositions
      <4>1. i # m
        BY <2>2, <2>5, <3>4
      <4>2. i - s \in InUse /\ fake_dma'[i] = fake_dma[i - s]
        BY <2>5, <2>7, <4>1 DEF InUse
      <4> QED
        BY <3>2, <3>4, <4>2
    <3>5. ASSUME NEW j \in InUse, NEW p \in SpanOf(fake_dma[j])
          PROVE  p \in FakePositions'
      <4>1. j + s \in InUse' /\ fake_dma'[j + s] = fake_dma[j]
        BY <2>8
      <4>2. p \in SpanOf(fake_dma'[j + s])
        BY <4>1
      <4> QED
        BY <3>1, <4>1, <4>2
    <3> QED
      BY <3>1, <3>2, <3>3, <3>4, <3>5
  <2>10. StoredInside'
    BY <1>1, <1>3, <2>3, <2>4, RingAssumption
       DEF DataInv, WriterHolds, StoredInside, Sized, Position
  <2>11. OverlapContested'
    <3> SUFFICES ASSUME NEW h \in InUse', NEW j \in InUse', h # j,
                        NEW p \in SpanOf(fake_dma'[h]), p \in SpanOf(fake_dma'[j])
                 PROVE  p \in contested'
      BY DEF OverlapContested, SpanOf, Span
    <3>1. ASSUME NEW i \in InUse', i # m, p \in SpanOf(fake_dma'[i]), p \in span
          PROVE  p \in contested'
      <4>1. p \in FakePositions
        BY <2>5, <2>7, <3>1 DEF FakePositions, InUse
      <4> QED
        BY <2>3, <3>1, <4>1
    <3>2. CASE h # m /\ j # m
      <4>1. h - s \in InUse /\ j - s \in InUse /\ h - s # j - s
        BY <2>6, <2>7, <3>2 DEF InUse
      <4>2. p \in SpanOf(fake_dma[h - s]) /\ p \in SpanOf(fake_dma[j - s])
        BY <2>5, <3>2 DEF InUse
      <4> QED
        BY <1>3, <2>3, <4>1, <4>2 DEF DataInv, WriterHolds, OverlapContested
    <3> QED
      BY <2>2, <2>5, <3>1, <3>2
  <2>12. AreasHold'
    <3> SUFFICES ASSUME NEW i \in InUse', NEW p \in SpanOf(fake_dma'[i]), p \notin contested'
                 PROVE  stored[p] = fake_dma'[i].mem[p - fake_dma'[i].pos + 1]
      BY <2>3 DEF AreasHold, Held, SpanOf, Span
    <3>1. CASE i = m
      <4>1. p \in span /\ stored[p] = Unknown
        BY <2>2, <2>3, <2>5, <3>1
      <4>2. p - pos + 1 \in 1 .. n
        BY <1>1, <4>1 DEF span, Span
      <4>3. found[p - pos + 1] = Unknown
        BY <4>2 DEF found
      <4> QED
        BY <2>5, <3>1, <4>1, <4>3 DEF area
    <3>2. CASE i # m
      <4>1. i - s \in InUse /\ fake_dma'[i] = fake_dma[i - s] /\ p \notin contested
        BY <2>3, <2>5, <2>7, <3>2 DEF InUse
      <4> QED
        BY <1>3, <4>1 DEF DataInv, WriterHolds, AreasHold, Held
    <3> QED
      BY <3>1, <3>2
  <2>13. BufferHolds'
    <3> SUFFICES ASSUME NEW p \in Position, p < size', p \notin FakePositions'
                 PROVE  p \in contested \/ stored[p] \in {Unknown, data[Cell(p)]}
      BY <2>3 DEF BufferHolds, InBuffer, Cell
    <3>1. p \notin FakePositions
      BY <2>9
    <3>2. CASE p < size
      BY <1>3, <3>1, <3>2 DEF DataInv, WriterHolds, BufferHolds, InBuffer
    <3>3. CASE ~(p < size)
      <4>1. ~Sized
        BY <2>4, <3>3
      <4> QED
        BY <1>3, <3>3, <4>1 DEF DataInv, WriterHolds, StoredInside
    <3> QED
      BY <3>2, <3>3
  <2>14. ReaderHolds'
    <3>1. Writing'
      BY <1>3, <2>3 DEF Writing
    <3> QED
      BY <3>1, WriterOnly, PTL
  <2> QED
    BY <2>10, <2>11, <2>12, <2>13, <2>14 DEF DataInv, WriterHolds
<1> QED
  BY <1>2, <1>3 DEF FakeDma

LEMMA SetSizeData ==
  ASSUME DataInv, IOInv', NEW n \in 0 .. Size, SetSize(n)
  PROVE  DataInv'
<1>1. /\ TypeOK /\ n \in Nat /\ size' = n /\ fake_dma' = Cut(n) /\ flags' = {"WRITE", "SIZE_SET"}
      /\ UNCHANGED <<data, buffer_pos, stored, contested>> /\ Writing /\ ~Sized
      /\ size \in Nat /\ Position \subseteq Nat /\ DOMAIN Cut(n) = DOMAIN fake_dma
  BY RingAssumption, CutType DEF SetSize, Writing, Sized, DataInv, IOInv, TypeOK, Position
<1>2. Writing' /\ Sized'
  BY <1>1 DEF Writing, Sized
<1>3. ASSUME NEW i \in InUse', NEW p \in SpanOf(fake_dma'[i])
      PROVE  /\ i \in InUse /\ p \in SpanOf(fake_dma[i])
             /\ fake_dma'[i].mem[p - fake_dma'[i].pos + 1] = Held(i, p)
  <2>1. i \in DOMAIN fake_dma /\ ~fake_dma'[i].free
    BY <1>1 DEF InUse
  <2>2. p \in Nat
    <3>1. fake_dma' \in Seq(Area)
      BY DEF IOInv, TypeOK
    <3>2. fake_dma'[i] \in Area
      BY <3>1, ElementOfSeq, LenProperties DEF InUse
    <3>3. fake_dma'[i].pos \in Nat /\ Len(fake_dma'[i].mem) \in Nat
      BY <3>2, RingAssumption DEF Area, Position
    <3> QED
      BY <3>3 DEF SpanOf, Span
  <2> QED
    BY <1>1, <2>1, <2>2, CutSpans DEF InUse
<1>4. ASSUME NEW i \in InUse, NEW p \in SpanOf(fake_dma[i]), p \in Position, p < n
      PROVE  i \in InUse' /\ p \in SpanOf(fake_dma'[i])
  BY <1>1, <1>4, CutSpans DEF InUse
<1>5. StoredInside'
  BY <1>2 DEF StoredInside
<1>6. OverlapContested'
  <2> SUFFICES ASSUME NEW h \in InUse', NEW j \in InUse', h # j,
                      NEW p \in SpanOf(fake_dma'[h]), p \in SpanOf(fake_dma'[j])
               PROVE  p \in contested'
    BY DEF OverlapContested, SpanOf, Span
  <2>1. /\ h \in InUse /\ p \in SpanOf(fake_dma[h])
        /\ j \in InUse /\ p \in SpanOf(fake_dma[j])
    BY <1>3
  <2> QED
    BY <1>1, <2>1 DEF DataInv, WriterHolds, OverlapContested
<1>7. AreasHold'
  <2> SUFFICES ASSUME NEW i \in InUse', NEW p \in SpanOf(fake_dma'[i]), p \notin contested'
               PROVE  stored[p] = fake_dma'[i].mem[p - fake_dma'[i].pos + 1]
    BY <1>1 DEF AreasHold, Held, SpanOf, Span
  <2>1. /\ i \in InUse /\ p \in SpanOf(fake_dma[i])
        /\ fake_dma'[i].mem[p - fake_dma'[i].pos + 1] = Held(i, p)
    BY <1>3
  <2> QED
    BY <1>1, <2>1 DEF DataInv, WriterHolds, AreasHold
<1>8. BufferHolds'
  <2> SUFFICES ASSUME NEW p \in Position, p < n
               PROVE  p \in FakePositions' \/ p \in contested \/ stored[p] \in {Unknown, data[Cell(p)]}
    BY <1>1 DEF BufferHolds, InBuffer, Cell
  <2>1. CASE p \in FakePositions
    <3>1. PICK i \in InUse : p \in SpanOf(fake_dma[i])
      BY <2>1 DEF FakePositions
    <3>2. i \in InUse' /\ p \in SpanOf(fake_dma'[i])
      BY <1>4, <3>1
    <3>3. \A q : q \in FakePositions' <=> \E j \in InUse' : q \in SpanOf(fake_dma'[j])
      BY DEF FakePositions, SpanOf, Span
    <3> QED
      BY <3>2, <3>3
  <2>2. CASE p \notin FakePositions /\ p < size
    BY <1>1, <2>2 DEF DataInv, WriterHolds, BufferHolds, InBuffer
  <2>3. CASE ~(p < size)
    BY <1>1, <2>3 DEF DataInv, WriterHolds, StoredInside
  <2> QED
    BY <2>1, <2>2, <2>3
<1>9. ReaderHolds'
  BY <1>2, WriterOnly, PTL
<1> QED
  BY <1>5, <1>6, <1>7, <1>8, <1>9 DEF DataInv, WriterHolds

\* When the areas have been written back, all that counts is in the buffer.
LEMMA CloseData ==
  ASSUME DataInv, IOInv', CloseWrite \/ CancelPacket \/ CloseRead
  PROVE  DataInv'
<1>1. flags' = {} /\ last' = NoTransfer /\ ~Writing' /\ ~Reading' /\ TypeOK
  BY DEF CloseWrite, CancelPacket, CloseRead, Writing, Reading, DataInv, IOInv
<1>2. LastFromBuffer'
  BY <1>1 DEF LastFromBuffer
<1>3. WriterHolds'
  BY <1>1, ReaderOnly, PTL
<1>4. WrittenHolds'
  <2>1. CASE CloseWrite
    <3>1. /\ Writing /\ data' = Committed
          /\ UNCHANGED <<size, buffer_pos, stored, contested>>
      BY <2>1 DEF CloseWrite
    <3> SUFFICES ASSUME NEW p \in Position, p < size
                 PROVE  p \in contested \/ stored[p] \in {Unknown, Committed[Cell(p)]}
      BY <1>1, <3>1 DEF WrittenHolds, InBuffer, Cell
    <3>2. p \in Nat /\ p < Size
      BY RingAssumption DEF Position
    <3>3. \A i \in InUse : fake_dma[i].pos + Len(fake_dma[i].mem) < Size
      <4> SUFFICES ASSUME NEW i \in InUse PROVE fake_dma[i].pos + Len(fake_dma[i].mem) < Size
        OBVIOUS
      <4>1. fake_dma[i].pos \in Nat /\ Len(fake_dma[i].mem) \in Nat
        BY <1>1, AreaType DEF InUse
      <4>2. Inside(fake_dma[i].pos + Len(fake_dma[i].mem))
        BY <3>1 DEF DataInv, IOInv, LentInside
      <4> QED
        BY <4>1, <4>2, RingAssumption DEF Inside
    <3>4. CASE p \notin FakePositions /\ Committed[Cell(p)] = data[Cell(p)]
      BY <3>1, <3>4 DEF DataInv, WriterHolds, BufferHolds, InBuffer
    <3>5. CASE \E i \in InUse : p \in SpanOf(fake_dma[i]) /\ Committed[Cell(p)] = Held(i, p)
      BY <3>1, <3>5 DEF DataInv, WriterHolds, AreasHold
    <3> QED
      BY <1>1, <3>2, <3>3, <3>4, <3>5, CommittedAt
  <2>2. CASE CancelPacket \/ CloseRead
    <3>1. ~written'
      BY <2>2 DEF CancelPacket, CloseRead, DataInv, IOInv, TypeOK, ReadWhenWritten, Writing
    <3> QED
      BY <1>1, <3>1 DEF WrittenHolds
  <2> QED
    BY <2>1, <2>2
<1> QED
  BY <1>2, <1>3, <1>4 DEF DataInv, ReaderHolds

LEMMA InitData == Init => DataInv
<1> SUFFICES ASSUME Init PROVE DataInv
  OBVIOUS
<1>1. flags = {} /\ written = FALSE /\ last = NoTransfer
  BY DEF Init, NoTransfer
<1>2. ReaderHolds
  BY <1>1 DEF ReaderHolds, WrittenHolds, LastFromBuffer, Reading
<1>3. WriterHolds
  BY <1>1, ReaderOnly DEF Writing
<1> QED
  BY <1>2, <1>3, InitInv DEF DataInv

LEMMA NextData == DataInv /\ IOInv' /\ [Next]_vars => DataInv'
<1> SUFFICES ASSUME DataInv, IOInv', [Next]_vars PROVE DataInv'
  OBVIOUS
<1>1. CASE OpenOrClose
  BY <1>1, OpenData, CloseData DEF OpenOrClose
<1>2. CASE Transfer
  BY <1>2, WriteData, MoveData, FakeDmaData, SetSizeData, StoreInBufferData, StoreInFakeData
     DEF Transfer
<1>3. CASE UNCHANGED vars
  <2>1. UNCHANGED <<data, size, written, buffer_pos, flags, fake_dma, stored, contested, last>>
    BY <1>3 DEF vars, packetVars, ghostVars
  <2>2. WriterHolds'
    BY <2>1 DEF DataInv, WriterHolds, StoredInside, OverlapContested, AreasHold, BufferHolds,
       FakePositions, InBuffer, Held, Cell, InUse, Writing, Sized
  <2>3. ReaderHolds'
    BY <2>1 DEF DataInv, ReaderHolds, WrittenHolds, LastFromBuffer, InBuffer, Cell, Reading
  <2> QED
    BY <2>2, <2>3 DEF DataInv
<1> QED
  BY <1>1, <1>2, <1>3 DEF Next

\* What a reader is given by ps_packet_read or ps_packet_dma is what the producer last
\* stored there, unless a fake area overlaps another store.
THEOREM DataCorrect == Spec => []DeliveredAsStored
<1>1. DataInv => DeliveredAsStored
  <2> SUFFICES ASSUME DataInv, Reading, NEW k \in DOMAIN last.bytes
               PROVE  LET p == last.from + k - 1
                      IN  p \in contested \/ stored[p] \in {Unknown, last.bytes[k]}
    BY DEF DeliveredAsStored
  <2> DEFINE p == last.from + k - 1
  <2>1. p < size /\ last.bytes[k] = data[Cell(p)] /\ written
    BY DEF DataInv, ReaderHolds, LastFromBuffer, WrittenHolds
  <2>2. p \in Nat
    <3>1. last.from \in Nat /\ last.bytes \in Seq(Content)
      BY DEF DataInv, IOInv, TypeOK
    <3> QED
      BY <3>1, LenProperties
  <2>3. p \in Position
    BY <2>1, <2>2, RingAssumption DEF DataInv, IOInv, TypeOK, HeaderKept, Position
  <2> HIDE DEF p
  <2>4. InBuffer(p)
    BY <2>1, <2>3 DEF DataInv, ReaderHolds, WrittenHolds
  <2> QED
    BY <2>1, <2>4 DEF InBuffer, p
<1> QED
  BY <1>1, IOCorrect, InitData, NextData, PTL DEF Spec
=============================================================================
