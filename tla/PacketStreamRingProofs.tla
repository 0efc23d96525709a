----------------------- MODULE PacketStreamRingProofs -----------------------
(***************************************************************************)
(* The packets of the ring lie one behind the other, and everything that   *)
(* PacketStreamProperties says of space, headers and readers follows from  *)
(* it.  The theorems hold for any number of threads, any Size and          *)
(* HeaderSize and any sequence of calls, with signals and kills, as long   *)
(* as no signal interrupts the second ps_packet_reserve of                 *)
(* ps_packet_setsize, which leaves a packet half made.                     *)
(*                                                                         *)
(* The invariant sees the ring as a list that never shrinks: packet i      *)
(* starts at offset off[i], which counts bytes from the start of the       *)
(* program and never wraps, so that its place in the area is off[i] % Size.*)
(* The shared positions are five indices into that list,                   *)
(*                                                                         *)
(*       f <= r <= b <= w <= n                                             *)
(*                                                                         *)
(* of the oldest packet that takes space, of the first one no reader has   *)
(* posted, the first one not opened for reading, the first one no producer *)
(* has posted, and the one being built or built next.                      *)
(***************************************************************************)
EXTENDS PacketStreamProofs

\* Signals leave the reserve that follows the size alone.
CommitUninterrupted ==
  Interruptible \cap Producers = {} \/ "commit" \notin InterruptedCalls

\* No claim on space is left behind.
Lossless == Interruptible \cap Producers = {} \/ InterruptedCalls = {}

-----------------------------------------------------------------------------
(* Where the threads are.                                                  *)

\* What a thread's packet and its place in the code have to do with each other,
\* and the mutexes with both.
FlagsFit(t) ==
  /\ t \in Consumers => packet[t].flags \subseteq {"READ"}
  /\ t \in Producers =>
       "READ" \notin packet[t].flags /\ (InUse(t) => "WRITE" \in packet[t].flags)
  /\ SizeSet(t) => ~Trying(t)

PlaceFits(t) ==
  /\ pc[t] \notin {"reserve", "drain", "dead"} => call[t] = NoCall
  /\ pc[t] \in {"open", "close"} => InUse(t)
  /\ At(t, "close") /\ t \in Producers => SizeSet(t)

\* Whoever has write_mutex builds a packet, or has set its size and is about to
\* commit it.
MutexFits(t) ==
  /\ mutex["write"] = t =>
       /\ t \in Producers /\ InUse(t)
       /\ SizeSet(t) => call[t].op = "commit" /\ pc[t] \in {"reserve", "drain", "dead"}
  /\ pc[t] \in {"post", "scan"} => mutex[CloseMutex(t)] = t
  /\ mutex["write_close"] = t => t \in Producers
  /\ mutex["read_close"] = t => t \in Consumers

PhaseOf(t) == FlagsFit(t) /\ PlaceFits(t) /\ MutexFits(t)

PhaseInv ==
  /\ WriterInv
  /\ ~cancelled => \A t \in Threads : PhaseOf(t)

\* What a step of thread t may do to the mutexes, as far as it matters here.
MutexStep(t) ==
  \A m \in {"write", "write_close", "read_close"} :
    mutex'[m] = mutex[m] \/ (mutex[m] \in {t, NoOwner} /\ mutex'[m] \in {t, NoOwner})

\* A thread takes a mutex that is free and gives up its own, so that nobody else is
\* affected.
LEMMA PhaseStep ==
  ASSUME PhaseInv, WriterInv', NEW t \in Threads, ~cancelled, cancelled' = cancelled,
         \A u \in Threads \ {t} :
           packet'[u] = packet[u] /\ call'[u] = call[u] /\ pc'[u] = pc[u],
         MutexStep(t),
         PhaseOf(t)'
  PROVE  PhaseInv'
<1>1. ASSUME NEW u \in Threads \ {t}
      PROVE  PhaseOf(u)'
  <2>1. PhaseOf(u) /\ u # NoOwner /\ u # t
    BY ThreadAssumption DEF PhaseInv
  <2>2. packet'[u] = packet[u] /\ call'[u] = call[u] /\ pc'[u] = pc[u]
    OBVIOUS
  <2>3. \A m \in {"write", "write_close", "read_close"} : mutex'[m] = u <=> mutex[m] = u
    BY <2>1 DEF MutexStep
  <2>4. CloseMutex(u) \in {"write_close", "read_close"}
    BY DEF CloseMutex
  <2>5. FlagsFit(u)' /\ PlaceFits(u)'
    BY <2>1, <2>2 DEF PhaseOf, FlagsFit, PlaceFits, InUse, SizeSet, Trying, At
  <2>6. MutexFits(u)'
    BY <2>1, <2>2, <2>3, <2>4 DEF PhaseOf, MutexFits, InUse, SizeSet, CloseMutex
  <2> QED
    BY <2>5, <2>6 DEF PhaseOf
<1> QED
  BY <1>1 DEF PhaseInv

\* The facts about thread t that every step starts from.
LEMMA PhaseFacts ==
  ASSUME PhaseInv, ~cancelled, NEW t \in Threads
  PROVE  /\ FlagsFit(t) /\ PlaceFits(t) /\ MutexFits(t)
         /\ ReservesOwnPacket(t) /\ ReserveHoldsMutex(t) /\ CommitIsSized(t)
         /\ BuildsAtTail(t)
         /\ packet \in [Threads -> Packet] /\ call \in [Threads -> Call]
         /\ pc \in [Threads -> ControlLocations]
         /\ mutex \in [MutexNames -> Threads \cup {NoOwner}]
         /\ Producers \cap Consumers = {} /\ Threads = Producers \cup Consumers
         /\ NoOwner \notin Threads
BY WriterFacts, ThreadAssumption DEF PhaseInv, PhaseOf, WriterThread

\* ps_packet_open
LEMMA OpenPhase ==
  ASSUME PhaseInv, WriterInv', ~cancelled, NEW t \in Threads,
         Open(t) \/ OpenBusy(t) \/ OpenWrite(t) \/ OpenRead(t)
           \/ ReadWait(t) \/ ReadWaitFails(t)
  PROVE  PhaseInv'
<1> USE PhaseFacts
        DEF Goto, At, Acquire, Release, MutexNames, positions, ringVars, cancelVars,
            MutexStep, PhaseOf, FlagsFit, PlaceFits, MutexFits, InUse, SizeSet, Trying,
            CloseMutex
<1>1. CASE Open(t)
  BY <1>1, PhaseStep DEF Open
<1>2. CASE OpenBusy(t)
  BY <1>2, PhaseStep DEF OpenBusy, ReturnsIdle
<1>3. CASE OpenWrite(t)
  <2>1. packet'[t].flags = OpenFlags(t, "WRITE") /\ pc'[t] = "open" /\ pc[t] = "lock"
    BY <1>3 DEF OpenWrite
  <2>2. "WRITE" \in packet'[t].flags /\ packet'[t].flags \subseteq {"WRITE", "TRY"}
    BY <2>1 DEF OpenFlags
  <2>3. mutex' = [mutex EXCEPT !["write"] = t] /\ mutex["write"] = NoOwner /\ t \in Producers
    BY <1>3 DEF OpenWrite, Free
  <2>4. PhaseOf(t)'
    BY <1>3, <2>1, <2>2, <2>3 DEF OpenWrite
  <2> QED
    BY <1>3, <2>3, <2>4, PhaseStep DEF OpenWrite
<1>4. CASE OpenRead(t)
  BY <1>4, PhaseStep DEF OpenRead
<1>5. CASE ReadWait(t)
  <2>1. /\ t \in Consumers /\ t \notin Producers /\ pc[t] = "wait"
        /\ mutex' = [mutex EXCEPT !["read"] = NoOwner]
    BY <1>5 DEF ReadWait, ReservesOwnPacket
  <2>2. pc'[t] = "open" /\ packet'[t].flags = {"READ"}
    BY <1>5 DEF ReadWait
  <2>3. PhaseOf(t)'
    BY <1>5, <2>1, <2>2 DEF ReadWait
  <2> QED
    BY <1>5, <2>1, <2>3, PhaseStep DEF ReadWait
<1>6. CASE ReadWaitFails(t)
  BY <1>6, PhaseStep DEF ReadWaitFails
<1> QED
  BY <1>1, <1>2, <1>3, <1>4, <1>5, <1>6

\* ps_packet_reserve: it fails only before the size is set.
LEMMA ReservePhase ==
  ASSUME PhaseInv, WriterInv', ~cancelled, CommitUninterrupted, NEW t \in Threads,
         ReserveWait(t) \/ ReserveDrain(t) \/ ReserveBusy(t) \/ ReserveInterrupted(t)
  PROVE  PhaseInv'
<1> USE PhaseFacts
        DEF Goto, At, MutexNames, positions, cancelVars, Reserving, MutexStep, PhaseOf,
            FlagsFit, PlaceFits, MutexFits, InUse, SizeSet, Trying, CloseMutex
<1>1. CASE ReserveWait(t)
  BY <1>1, PhaseStep DEF ReserveWait
<1>2. CASE ReserveDrain(t)
  BY <1>2, PhaseStep DEF ReserveDrain
<1>3. ASSUME ReserveFails(t), pc[t] = "reserve", ~SizeSet(t)
      PROVE  PhaseInv'
  <2>1. "WRITE" \in packet[t].flags /\ t \in Producers
    BY <1>3 DEF ReservesOwnPacket, InReserve
  <2>2. pc'[t] = "open" /\ call'[t] = NoCall /\ UNCHANGED <<packet, mutex>>
    BY <1>3 DEF ReserveFails
  <2>3. PhaseOf(t)'
    BY <1>3, <2>1, <2>2
  <2> QED
    BY <1>3, <2>2, <2>3, PhaseStep DEF ReserveFails
<1>4. CASE ReserveBusy(t)
  BY <1>3, <1>4 DEF ReserveBusy
<1>5. CASE ReserveInterrupted(t)
  <2>1. pc[t] = "reserve" /\ call[t].op # "commit"
    BY <1>5 DEF ReserveInterrupted, CommitUninterrupted, ReservesOwnPacket, InReserve
  <2>2. mutex["write"] = t
    BY <2>1 DEF ReserveHoldsMutex, InReserve
  <2> QED
    BY <1>3, <1>5, <2>1, <2>2 DEF ReserveInterrupted
<1> QED
  BY <1>1, <1>2, <1>4, <1>5

\* ps_packet_write, ps_packet_setsize and ps_packet_cancel
LEMMA WritePhase ==
  ASSUME PhaseInv, WriterInv', ~cancelled, NEW t \in Threads,
         FinishWrite(t) \/ FinishSetSize(t) \/ CommitSize(t) \/ WriteCall(t)
  PROVE  PhaseInv'
<1> USE PhaseFacts
        DEF Goto, At, Release, MutexNames, positions, cancelVars, ReserveDone, CallReserve,
            MutexStep, PhaseOf, FlagsFit, PlaceFits, MutexFits, InUse, SizeSet, Trying,
            CloseMutex
<1>1. pc[t] = "reserve" =>
        /\ t \in Producers /\ t \notin Consumers /\ "WRITE" \in packet[t].flags
        /\ mutex["write"] = t
  BY DEF ReservesOwnPacket, ReserveHoldsMutex, InReserve
<1>2. CASE FinishWrite(t)
  <2>1. packet'[t].flags = packet[t].flags /\ pc'[t] = "open" /\ call'[t] = NoCall
    BY <1>2 DEF FinishWrite, Packet
  <2>2. pc[t] = "reserve" /\ call[t].op = "write" /\ UNCHANGED mutex
    BY <1>2 DEF FinishWrite
  <2>3. PhaseOf(t)'
    BY <1>1, <2>1, <2>2
  <2> QED
    BY <1>2, <2>2, <2>3, PhaseStep DEF FinishWrite
<1>3. CASE FinishSetSize(t)
  <2>1. /\ packet'[t].flags = (packet[t].flags \cup {"SIZE_SET"}) \ {"TRY"}
        /\ pc'[t] = "reserve" /\ call'[t].op = "commit"
    BY <1>3 DEF FinishSetSize, Packet
  <2>2. pc[t] = "reserve" /\ UNCHANGED mutex
    BY <1>3 DEF FinishSetSize
  <2>3. PhaseOf(t)'
    BY <1>1, <2>1, <2>2
  <2> QED
    BY <1>3, <2>2, <2>3, PhaseStep DEF FinishSetSize
<1>4. CASE CommitSize(t)
  <2>1. /\ packet'[t].flags = packet[t].flags /\ call'[t] = NoCall
        /\ pc'[t] \in {"close", "open"}
    BY <1>4 DEF CommitSize, Packet
  <2>2. /\ pc[t] = "reserve" /\ SizeSet(t)
        /\ mutex' = [mutex EXCEPT !["write"] = NoOwner]
    BY <1>4 DEF CommitSize, CommitIsSized, InReserve
  <2>3. PhaseOf(t)'
    BY <1>1, <2>1, <2>2
  <2> QED
    BY <1>1, <1>4, <2>2, <2>3, PhaseStep DEF CommitSize
<1>5. ASSUME t \in Producers, pc[t] = "open", ~SizeSet(t),
             pc'[t] = "reserve", UNCHANGED <<mutex, packet, cancelled>>,
             \A u \in Threads \ {t} : call'[u] = call[u] /\ pc'[u] = pc[u]
      PROVE  PhaseInv'
  BY <1>5, PhaseStep
<1>6. ASSUME NEW k \in WriteSizes, Write(t, k)
      PROVE  PhaseInv'
  BY <1>5, <1>6 DEF Write
<1>7. ASSUME NEW k \in WriteSizes, WriteSized(t, k)
      PROVE  PhaseInv'
  <2>1. packet'[t].flags = packet[t].flags /\ UNCHANGED <<pc, call, mutex>>
    BY <1>7 DEF WriteSized, Packet
  <2>2. PhaseOf(t)'
    BY <2>1
  <2> QED
    BY <1>7, <2>1, <2>2, PhaseStep DEF WriteSized
<1>8. ASSUME NEW k \in SetSizes, SetSize(t, k)
      PROVE  PhaseInv'
  BY <1>5, <1>8 DEF SetSize
<1>9. CASE CancelPacket(t)
  <2>1. packet'[t].flags = {} /\ pc'[t] = "idle" /\ UNCHANGED call /\ pc[t] = "open"
    BY <1>9 DEF CancelPacket, ClosedPacket
  <2>2. mutex["write"] = t
    BY <1>9 DEF CancelPacket, Cancellable, BuildsAtTail, Building
  <2>3. PhaseOf(t)' /\ mutex' = [mutex EXCEPT !["write"] = NoOwner]
    BY <1>9, <2>1, <2>2 DEF CancelPacket
  <2> QED
    BY <1>9, <2>2, <2>3, PhaseStep DEF CancelPacket
<1> QED
  BY <1>2, <1>3, <1>4, <1>6, <1>7, <1>8, <1>9 DEF WriteCall

\* ps_packet_close of a packet that has its size.
LEMMA CloseOpened ==
  ASSUME NEW t \in Threads, Close(t), t \in Consumers \/ SizeSet(t)
  PROVE  pc' = [pc EXCEPT ![t] = "close"] /\ UNCHANGED <<free_bytes, call>>
BY DEF Close, Goto

\* ps_packet_close, and a thread that is killed.
LEMMA ClosePhase ==
  ASSUME PhaseInv, WriterInv', ~cancelled, NEW t \in Threads,
         Close(t) \/ CloseStep(t) \/ Kill(t)
  PROVE  PhaseInv'
<1> USE PhaseFacts
        DEF Goto, At, Acquire, Release, MutexNames, positions, ringVars, cancelVars,
            MutexStep, PhaseOf, FlagsFit, PlaceFits, MutexFits, InUse, SizeSet, Trying,
            CloseMutex
<1>1. CASE Close(t)
  <2>1. packet'[t].flags = packet[t].flags \ {"TRY"} /\ pc[t] = "open" /\ UNCHANGED mutex
    BY <1>1 DEF Close, Packet
  <2>2. packet'[t].flags # {}
    BY <2>1
  <2>3. CASE t \in Consumers \/ SizeSet(t)
    <3>1. pc' = [pc EXCEPT ![t] = "close"] /\ UNCHANGED call
      BY <1>1, <2>3, CloseOpened
    <3>2. PhaseOf(t)'
      BY <2>1, <2>2, <2>3, <3>1
    <3> QED
      BY <1>1, <2>1, <3>1, <3>2, PhaseStep DEF Close
  <2>4. CASE ~(t \in Consumers \/ SizeSet(t))
    <3>1. pc'[t] = "reserve"
      BY <1>1, <2>4 DEF Close, CallReserve
    <3>2. PhaseOf(t)'
      BY <2>1, <2>2, <2>4, <3>1
    <3> QED
      BY <1>1, <2>1, <2>4, <3>2, PhaseStep DEF Close, CallReserve
  <2> QED
    BY <2>3, <2>4
<1>2. CASE LockClose(t)
  <2>1. /\ packet'[t].flags = {} /\ UNCHANGED call /\ pc[t] = "close"
        /\ mutex[CloseMutex(t)] = NoOwner
    BY <1>2 DEF LockClose, ClosedPacket, Free
  <2>2. mutex["write"] # t
    BY <2>1
  <2>3. \/ pc'[t] = "idle" /\ UNCHANGED mutex
        \/ pc'[t] = "post" /\ mutex' = [mutex EXCEPT ![CloseMutex(t)] = t]
    BY <1>2 DEF LockClose
  <2>4. PhaseOf(t)'
    BY <2>1, <2>2, <2>3
  <2> QED
    BY <1>2, <2>1, <2>3, <2>4, PhaseStep DEF LockClose
<1>3. CASE Post(t) \/ ScanOn(t)
  BY <1>3, PhaseStep DEF Post, ScanOn
<1>4. CASE ScanEnd(t)
  BY <1>4, PhaseStep DEF ScanEnd
<1>5. CASE Kill(t)
  BY <1>5, PhaseStep DEF Kill
<1> QED
  BY <1>1, <1>2, <1>3, <1>4, <1>5 DEF CloseStep

LEMMA InitPhase == Init => PhaseInv
BY InitWriter, ThreadAssumption
   DEF Init, PhaseInv, PhaseOf, FlagsFit, PlaceFits, MutexFits, InUse, SizeSet, At,
       ClosedPacket, MutexNames, Threads, CloseMutex

\* In a buffer that is not cancelled, these are all the steps of a thread.
LEMMA ThreadSteps ==
  ASSUME NEW t \in Threads, ~cancelled, Open(t) \/ ThreadStep(t) \/ ThreadEvent(t)
  PROVE  \/ Open(t) \/ OpenBusy(t) \/ OpenWrite(t) \/ OpenRead(t)
         \/ ReadWait(t) \/ ReadWaitFails(t)
         \/ ReserveWait(t) \/ ReserveDrain(t) \/ ReserveBusy(t) \/ ReserveInterrupted(t)
         \/ FinishWrite(t) \/ FinishSetSize(t) \/ CommitSize(t) \/ WriteCall(t)
         \/ Close(t) \/ CloseStep(t) \/ Kill(t)
BY DEF ThreadStep, ThreadEvent, ReserveStep, OpenCancelled, ReserveCancelled, DestroyPacket

\* Only ps_buffer_cancel sets the flag, and nothing takes it back.
LEMMA ThreadsKeepFlag ==
  ASSUME NEW t \in Threads, Open(t) \/ ThreadStep(t) \/ ThreadEvent(t)
  PROVE  cancelled' = cancelled
BY DEF cancelVars, ThreadStep, ThreadEvent, ReserveStep, ReturnsIdle, ReserveFails,
   Open, OpenBusy, OpenCancelled, OpenWrite, OpenRead, ReadWait, ReadWaitFails,
   ReserveWait, ReserveCancelled, ReserveDrain, ReserveBusy, ReserveInterrupted,
   DestroyPacket,
   FinishWrite, FinishSetSize, CommitSize, WriteCall, Write, WriteSized, SetSize,
   CancelPacket, Close, CloseStep, LockClose, Post, ScanOn, ScanEnd, Kill

LEMMA CancelledStays ==
  ASSUME CancelOrder, [Next]_vars, ~cancelled'
  PROVE  /\ ~cancelled
         /\ \/ \E t \in Threads : Open(t) \/ ThreadStep(t) \/ ThreadEvent(t)
            \/ UNCHANGED vars
<1>1. CASE BufferCancel
  BY <1>1 DEF CancelOrder, BufferCancel, CancelFlag, CancelPostRead, CancelPostWritten,
              CancelUnlockRead, CancelUnlockWrite, CancelStep
<1> QED
  BY <1>1, ThreadsKeepFlag DEF Next, vars, cancelVars

LEMMA NextPhase == CommitUninterrupted /\ PhaseInv /\ [Next]_vars => PhaseInv'
<1> SUFFICES ASSUME CommitUninterrupted, PhaseInv, [Next]_vars
             PROVE  PhaseInv'
  OBVIOUS
<1>1. WriterInv /\ WriterInv' /\ CancelOrder
  BY NextWriter DEF PhaseInv, WriterInv
<1>2. CASE cancelled'
  BY <1>1, <1>2 DEF PhaseInv
<1>3. CASE ~cancelled'
  <2>1. ~cancelled
    BY <1>1, <1>3, CancelledStays
  <2>2. ASSUME NEW t \in Threads, Open(t) \/ ThreadStep(t) \/ ThreadEvent(t)
        PROVE  PhaseInv'
    BY <1>1, <2>1, <2>2, ThreadSteps, OpenPhase, ReservePhase, WritePhase, ClosePhase
  <2>3. CASE UNCHANGED vars
    BY <1>1, <2>3
       DEF vars, cancelVars, ringVars, threadVars, PhaseInv, PhaseOf, FlagsFit, PlaceFits,
           MutexFits, InUse, SizeSet, Trying, At, CloseMutex
  <2> QED
    BY <1>1, <1>3, <2>2, <2>3, CancelledStays
<1> QED
  BY <1>2, <1>3

-----------------------------------------------------------------------------
(* The packets.                                                            *)

Place(off, i) == off[i] % Size
HeaderAt(off, i) == memory[Place(off, i)]

\* Space of the packet under construction: what it has got, and what it has
\* claimed, the claim of a ps_packet_reserve in progress included.
Met == IF Free("write") THEN 0 ELSE packet[mutex["write"]].reserved
Claimed == IF Free("write") THEN 0 ELSE Claim(mutex["write"])

\* Where the closing consumer or producer has got to.
ReadPosted == IF Free("read_close") THEN read_pos ELSE cursor[mutex["read_close"]]
WritePosted == IF Free("write_close") THEN write_pos ELSE cursor[mutex["write_close"]]

\* No packet reaches the next one, nor the last one the first.
Laid(off, f, n) ==
  /\ \A i \in f .. n : off[i] \in Nat /\ Place(off, i) \in HeaderPos
  /\ \A i, j \in f .. n : i < j => off[i] + HeaderSize + HeaderAt(off, i).size <= off[j]
  /\ \A i \in f .. n : i < n =>
       off[i + 1] = off[i] + Footprint(Place(off, i), HeaderAt(off, i).size)
  /\ off[n] + HeaderSize + Met <= off[f] + Size

Indexed(off, f, r, b, w, n) ==
  /\ f <= r /\ r <= b /\ b <= w /\ w <= n
  /\ read_first = Place(off, f) /\ ReadPosted = Place(off, r)
  /\ read_next = Place(off, b) /\ WritePosted = Place(off, w)
  /\ RingEnd = Place(off, n)
  /\ read_packets = r - f /\ written_packets = w - b

\* How far the headers are marked.
Marked(off, f, r, b, w, n) ==
  /\ \A i \in f .. n : i < r => "READ" \in HeaderAt(off, i).flags
  /\ \A i \in f .. n : i >= b => "READ" \notin HeaderAt(off, i).flags
  /\ \A i \in f .. n : i < w => "WRITTEN" \in HeaderAt(off, i).flags
  /\ HeaderAt(off, n).flags = {}
  /\ Free("write") => HeaderAt(off, n) = NullHeader /\ write_next = Place(off, n)
  /\ \A t \in Threads : At(t, "post") => NextClosed(t)

\* A packet in use is one of the list: one whose size is set still has to be
\* closed, one that is read has not been closed yet.
Used(off, r, b, w, n) ==
  /\ \A t \in Producers : InUse(t) /\ mutex["write"] # t =>
       \E i \in w .. n : i < n /\ packet[t].buffer_pos = Place(off, i)
                         /\ "WRITTEN" \notin HeaderAt(off, i).flags
  /\ \A t \in Consumers : InUse(t) =>
       \E i \in r .. b : i < b /\ packet[t].buffer_pos = Place(off, i)
                         /\ HeaderAt(off, i).flags = {"WRITTEN"}
  /\ \A t, u \in Threads : InUse(t) /\ InUse(u) /\ t # u =>
       packet[t].buffer_pos # packet[u].buffer_pos

\* The commit of a packet: what it claims is what the packet takes.
Committing(t) ==
  SizeSet(t) /\ mutex["write"] = t =>
    /\ call[t].len = Footprint(packet[t].buffer_pos, HeaderOf(t).size)
    /\ write_next = NextPos(packet[t].buffer_pos, HeaderOf(t).size)
    /\ HeaderOf(t).size <= packet[t].reserved

\* free_bytes never counts a byte that is taken, nor, unless a claim has been left
\* behind, forgets one that is not.
Accounted(off, f, n) ==
  LET left == Size - HeaderSize - (off[n] - off[f]) - Claimed
  IN  free_bytes <= left /\ (Lossless => free_bytes = left)

Ring(off, f, r, b, w, n) ==
  /\ Laid(off, f, n)
  /\ Indexed(off, f, r, b, w, n)
  /\ Marked(off, f, r, b, w, n)
  /\ Used(off, r, b, w, n)
  /\ \A t \in Threads : Committing(t)
  /\ Accounted(off, f, n)

RingInv ==
  /\ PhaseInv
  /\ ~cancelled => \E off : \E f, r, b, w, n \in Nat : Ring(off, f, r, b, w, n)

-----------------------------------------------------------------------------
(* What the layout gives.                                                  *)

LEMMA ClaimIs ==
  ASSUME TypeOK, NEW t \in Threads
  PROVE  /\ Claim(t) = Larger(call[t].len, packet[t].reserved)
         /\ Claim(t) = packet[t].reserved + Missing(t)
         /\ Claim(t) \in Nat /\ Missing(t) \in Nat
         /\ Claim(t) >= call[t].len /\ packet[t].reserved \in Nat /\ call[t].len \in Nat
<1>1. call[t].len \in Nat /\ packet[t].reserved \in Nat
  BY DEF TypeOK, Call, Packet
<1>2. call[t] = NoCall => call[t].len = 0
  BY DEF NoCall
<1>3. Claim(t) = Larger(call[t].len, packet[t].reserved)
  BY <1>1, <1>2 DEF Claim, Larger
<1> QED
  BY <1>1, <1>3 DEF Missing, Larger

LEMMA MetType ==
  ASSUME TypeOK
  PROVE  Met \in Nat /\ Claimed \in Nat /\ Met <= Claimed
<1>1. CASE Free("write")
  BY <1>1 DEF Met, Claimed
<1>2. CASE ~Free("write")
  <2>1. mutex["write"] \in Threads
    BY <1>2 DEF TypeOK, Free, MutexNames
  <2> QED
    BY <1>2, <2>1, ClaimIs DEF Met, Claimed
<1> QED
  BY <1>1, <1>2

\* Headers of the list are within Size of each other and do not overlap.
LEMMA Window ==
  ASSUME TypeOK, NEW off, NEW f \in Nat, NEW n \in Nat, Laid(off, f, n), f <= n
  PROVE  /\ \A i \in f .. n : /\ off[i] \in Nat /\ Place(off, i) \in HeaderPos
                              /\ HeaderAt(off, i) \in Header /\ HeaderAt(off, i).size \in Nat
                              /\ off[i] + HeaderSize <= off[f] + Size
                              /\ off[i] <= off[n] /\ off[f] <= off[i]
         /\ \A i, j \in f .. n : i < j =>
              /\ off[i] + HeaderSize <= off[j]
              /\ off[j] + HeaderSize <= off[i] + Size
<1> USE RingAssumption
<1>1. \A i \in f .. n : off[i] \in Nat /\ Place(off, i) \in HeaderPos
  BY DEF Laid
<1>2. \A i \in f .. n : HeaderAt(off, i) \in Header /\ HeaderAt(off, i).size \in Nat
  BY <1>1 DEF TypeOK, Header, HeaderAt
<1>3. \A i, j \in f .. n : i < j => off[i] + HeaderSize <= off[j]
  <2> SUFFICES ASSUME NEW i \in f .. n, NEW j \in f .. n, i < j
               PROVE  off[i] + HeaderSize <= off[j]
    OBVIOUS
  <2>1. off[i] + HeaderSize + HeaderAt(off, i).size <= off[j]
    BY DEF Laid
  <2> QED
    BY <1>1, <1>2, <2>1
<1>4. f \in f .. n /\ n \in f .. n
  OBVIOUS
<1>5. off[n] + HeaderSize <= off[f] + Size
  <2>1. off[n] + HeaderSize + Met <= off[f] + Size
    BY DEF Laid
  <2> QED
    BY <1>1, <1>4, <2>1, MetType
<1>6. \A i \in f .. n : off[i] <= off[n] /\ off[f] <= off[i]
  <2> TAKE i \in f .. n
  <2>1. i = f \/ f < i
    OBVIOUS
  <2>2. i = n \/ i < n
    OBVIOUS
  <2> QED
    BY <1>1, <1>3, <1>4, <2>1, <2>2
<1>7. \A i \in f .. n : off[i] + HeaderSize <= off[f] + Size
  BY <1>1, <1>4, <1>5, <1>6
<1>8. \A i, j \in f .. n : i < j => off[j] + HeaderSize <= off[i] + Size
  BY <1>1, <1>4, <1>6, <1>7
<1> QED
  BY <1>1, <1>2, <1>3, <1>6, <1>7, <1>8

\* Different packets are at different places.
LEMMA PlacesDiffer ==
  ASSUME TypeOK, NEW off, NEW f \in Nat, NEW n \in Nat, Laid(off, f, n), f <= n,
         NEW i \in f .. n, NEW j \in f .. n, Place(off, i) = Place(off, j)
  PROVE  i = j
<1>1. ASSUME NEW k \in f .. n, NEW l \in f .. n, k < l
      PROVE  Place(off, k) # Place(off, l)
  <2>1. /\ off[k] \in Nat /\ off[l] \in Nat
        /\ off[k] + HeaderSize <= off[l] /\ off[l] + HeaderSize <= off[k] + Size
    BY <1>1, Window
  <2>2. off[k] < off[l] /\ off[l] < off[k] + Size
    BY <2>1, RingAssumption
  <2> QED
    BY <2>1, <2>2, SamePlace DEF Place
<1>2. i < j \/ j < i \/ i = j
  OBVIOUS
<1> QED
  BY <1>1, <1>2

\* The position after a packet is that of the next one.
LEMMA PlaceAfter ==
  ASSUME TypeOK, NEW off, NEW f \in Nat, NEW n \in Nat, Laid(off, f, n), f <= n,
         NEW i \in f .. n, i < n
  PROVE  /\ i + 1 \in f .. n
         /\ NextPos(Place(off, i), HeaderAt(off, i).size) = Place(off, i + 1)
<1>1. /\ off[i] \in Nat /\ Place(off, i) \in HeaderPos /\ HeaderAt(off, i).size \in Nat
  BY Window
<1>2. off[i + 1] = off[i] + Footprint(Place(off, i), HeaderAt(off, i).size)
  BY DEF Laid
<1> QED
  BY <1>1, <1>2, NextPlace DEF Place

-----------------------------------------------------------------------------
(* One lemma per kind of step: which indices move, and what the headers become. *)

\* The parts of the ring, and what they give for any step.
LEMMA RingFacts ==
  ASSUME PhaseInv, ~cancelled,
         NEW off, NEW f \in Nat, NEW r \in Nat, NEW b \in Nat, NEW w \in Nat, NEW n \in Nat,
         Ring(off, f, r, b, w, n)
  PROVE  /\ TypeOK /\ f <= n
         /\ Laid(off, f, n) /\ Indexed(off, f, r, b, w, n) /\ Marked(off, f, r, b, w, n)
         /\ Used(off, r, b, w, n) /\ (\A t \in Threads : Committing(t))
         /\ Accounted(off, f, n)
         /\ Producers \subseteq Threads /\ Consumers \subseteq Threads
         /\ Met \in Nat /\ Claimed \in Nat /\ free_bytes \in Int
         /\ ~Free("write") => mutex["write"] \in Threads
BY MetType DEF Ring, Indexed, PhaseInv, WriterInv, TypeOK, Threads, Free, MutexNames

\* A thread that posts is at the first packet not posted yet.
LEMMA CursorPlace ==
  ASSUME PhaseInv, ~cancelled,
         NEW off, NEW f \in Nat, NEW r \in Nat, NEW b \in Nat, NEW w \in Nat, NEW n \in Nat,
         Indexed(off, f, r, b, w, n), NEW t \in Threads, pc[t] \in {"post", "scan"}
  PROVE  /\ mutex[CloseMutex(t)] = t
         /\ t \in Producers => cursor[t] = Place(off, w) /\ CloseFlag(t) = "WRITTEN"
         /\ t \in Consumers => cursor[t] = Place(off, r) /\ CloseFlag(t) = "READ"
         /\ cursor[t] \in {Place(off, r), Place(off, w)} /\ r \in f .. n /\ w \in f .. n
<1>1. mutex[CloseMutex(t)] = t /\ t # NoOwner
  BY PhaseFacts DEF MutexFits
<1>2. t \in Producers => t \notin Consumers /\ cursor[t] = WritePosted
  BY <1>1, PhaseFacts DEF CloseMutex, WritePosted, Free
<1>3. t \in Consumers => t \notin Producers /\ cursor[t] = ReadPosted
  BY <1>1, PhaseFacts DEF CloseMutex, ReadPosted, Free
<1> QED
  BY <1>1, <1>2, <1>3 DEF Indexed, CloseFlag, Threads

\* The same after a step.
LEMMA CursorPlaceNext ==
  ASSUME NEW off, NEW f \in Nat, NEW r \in Nat, NEW b \in Nat, NEW w \in Nat, NEW n \in Nat,
         NEW t \in Threads
  PROVE  (PhaseInv /\ ~cancelled /\ Indexed(off, f, r, b, w, n) /\ pc[t] \in {"post", "scan"}
            => cursor[t] \in {Place(off, r), Place(off, w)} /\ r \in f .. n /\ w \in f .. n)'
<1>1. PhaseInv /\ ~cancelled /\ Indexed(off, f, r, b, w, n) /\ pc[t] \in {"post", "scan"}
        => cursor[t] \in {Place(off, r), Place(off, w)} /\ r \in f .. n /\ w \in f .. n
  BY CursorPlace
<1> QED
  BY <1>1, PTL

\* The thread that has write_mutex, and the packet it builds at the end of the ring.
LEMMA HolderFacts ==
  ASSUME PhaseInv, ~cancelled, NEW t \in Threads, mutex["write"] = t,
         NEW off, NEW n, RingEnd = Place(off, n)
  PROVE  /\ ~Free("write") /\ Met = packet[t].reserved /\ Claimed = Claim(t)
         /\ packet[t].buffer_pos = Place(off, n)
         /\ t \in Producers /\ InUse(t)
<1>1. ~Free("write")
  BY PhaseFacts DEF Free
<1> QED
  BY <1>1, PhaseFacts DEF Met, Claimed, RingEnd, MutexFits

\* A thread whose packet has no size has write_mutex.
LEMMA BuilderHolds ==
  ASSUME PhaseInv, ~cancelled, NEW t \in Producers, InUse(t), ~SizeSet(t)
  PROVE  mutex["write"] = t /\ packet[t].buffer_pos = write_next
<1>1. t \in Threads
  BY DEF Threads
<1>2. FlagsFit(t) /\ BuildsAtTail(t)
  BY <1>1, PhaseFacts
<1> QED
  BY <1>2 DEF FlagsFit, BuildsAtTail, Building

\* The headers and positions stay, and with them everything but the account.
LEMMA CallStep ==
  ASSUME PhaseInv, PhaseInv', ~cancelled, ~cancelled',
         NEW off, NEW f \in Nat, NEW r \in Nat, NEW b \in Nat, NEW w \in Nat, NEW n \in Nat,
         Ring(off, f, r, b, w, n),
         UNCHANGED <<cursor, positions, semaphores>>,
         \A i \in f .. n : HeaderAt(off, i)' = HeaderAt(off, i),
         \A m \in {"write", "read_close", "write_close"} : mutex'[m] = mutex[m],
         \A u \in Threads :
           /\ packet'[u].buffer_pos = packet[u].buffer_pos
           /\ packet'[u].reserved = packet[u].reserved
           /\ (InUse(u)' <=> InUse(u)) /\ (SizeSet(u)' <=> SizeSet(u))
           /\ SizeSet(u) /\ mutex["write"] = u => call'[u] = call[u]
           /\ At(u, "post")' => At(u, "post") \/ NextClosed(u),
         Accounted(off, f, n)'
  PROVE  Ring(off, f, r, b, w, n)'
<1>1. TypeOK /\ Laid(off, f, n) /\ Indexed(off, f, r, b, w, n) /\ Marked(off, f, r, b, w, n)
      /\ Used(off, r, b, w, n) /\ \A t \in Threads : Committing(t)
  BY DEF Ring, PhaseInv, WriterInv
<1>2. ~Free("write") => mutex["write"] \in Threads
  BY <1>1 DEF Free, TypeOK, MutexNames
<1>3. (Free("write")' <=> Free("write")) /\ Met' = Met /\ RingEnd' = RingEnd
  BY <1>2 DEF Free, Met, RingEnd, positions
<1>4. ReadPosted' = ReadPosted /\ WritePosted' = WritePosted
  BY DEF ReadPosted, WritePosted, Free, positions
<1>5. /\ \A i : Place(off, i)' = Place(off, i)
      /\ f <= r /\ r <= b /\ b <= w /\ w <= n /\ n \in f .. n
  BY <1>1 DEF Place, Indexed
<1>6. Laid(off, f, n)'
  BY <1>1, <1>3, <1>5 DEF Laid
<1>7. Indexed(off, f, r, b, w, n)'
  BY <1>1, <1>3, <1>4, <1>5 DEF Indexed, positions, semaphores
<1>8. Marked(off, f, r, b, w, n)'
  <2>1. ASSUME NEW u \in Threads, At(u, "post")'
        PROVE  NextClosed(u)'
    <3>1. At(u, "post") \/ NextClosed(u)
      BY <2>1
    <3>2. NextClosed(u)
      BY <1>1, <3>1 DEF Marked
    <3>3. pc'[u] \in {"post", "scan"} /\ Indexed(off, f, r, b, w, n)'
      BY <1>7, <2>1 DEF At
    <3>4. cursor'[u] \in {Place(off, r), Place(off, w)} /\ r \in f .. n /\ w \in f .. n
      BY <3>3, CursorPlaceNext
    <3>5. memory'[cursor[u]] = memory[cursor[u]]
      BY <1>5, <3>4 DEF HeaderAt
    <3> QED
      BY <3>2, <3>5 DEF NextClosed, CloseFlag
  <2> QED
    BY <1>1, <1>3, <1>5, <2>1 DEF Marked, positions
<1>9. Used(off, r, b, w, n)'
  <2>1. Producers \subseteq Threads /\ Consumers \subseteq Threads
    BY DEF Threads
  <2>2. w .. n \subseteq f .. n /\ r .. b \subseteq f .. n
    BY <1>5
  <2> QED
    BY <1>1, <1>5, <2>1, <2>2 DEF Used
<1>10. ASSUME NEW u \in Threads, SizeSet(u), mutex["write"] = u
       PROVE  Committing(u)'
  <2>1. packet[u].buffer_pos = Place(off, n)
    BY <1>1, <1>10, HolderFacts DEF Indexed
  <2>2. HeaderOf(u)' = HeaderOf(u)
    BY <1>5, <1>10, <2>1 DEF HeaderOf, HeaderAt
  <2> QED
    BY <1>1, <1>10, <2>2 DEF Committing, positions
<1>11. \A u \in Threads : Committing(u)'
  BY <1>10 DEF Committing
<1> QED
  BY <1>6, <1>7, <1>8, <1>9, <1>11 DEF Ring

LEMMA Balance ==
  ASSUME NEW kept \in Int, NEW x \in Int, NEW c \in Int, NEW y \in Int, NEW d \in Int,
         x <= kept - c
  PROVE  /\ y + d = x + c => y <= kept - d
         /\ y + d = x + c /\ x = kept - c => y = kept - d
         /\ y = x /\ d <= c => y <= kept - d
OBVIOUS

\* What leaves free_bytes goes into the claim, and the other way round.
LEMMA AccountStep ==
  ASSUME NEW off, NEW f, NEW n, off[n] \in Nat, off[f] \in Nat, Accounted(off, f, n),
         free_bytes \in Int, Claimed \in Int, free_bytes' \in Int, Claimed' \in Int,
         \/ free_bytes' + Claimed' = free_bytes + Claimed
         \/ ~Lossless /\ free_bytes' = free_bytes /\ Claimed' <= Claimed
  PROVE  Accounted(off, f, n)'
<1> DEFINE kept == Size - HeaderSize - (off[n] - off[f])
<1>1. kept \in Int
  BY RingAssumption
<1>2. free_bytes <= kept - Claimed /\ (Lossless => free_bytes = kept - Claimed)
  BY DEF Accounted
<1>3. free_bytes' <= kept - Claimed' /\ (Lossless => free_bytes' = kept - Claimed')
  <2> HIDE DEF kept
  <2>1. PICK c \in Int, d \in Int, y \in Int : c = Claimed /\ d = Claimed' /\ y = free_bytes'
    OBVIOUS
  <2>2. free_bytes <= kept - c /\ (Lossless => free_bytes = kept - c)
    BY <1>2, <2>1
  <2>3. y + d = free_bytes + c \/ (~Lossless /\ y = free_bytes /\ d <= c)
    BY <2>1
  <2>4. y <= kept - d /\ (Lossless => y = kept - d)
    BY <1>1, <2>2, <2>3, Balance
  <2> QED
    BY <2>1, <2>4
<1> QED
  BY <1>3 DEF Accounted

\* A call that changes no more than what thread t claims.
LEMMA ClaimStep ==
  ASSUME PhaseInv, PhaseInv', ~cancelled, ~cancelled', NEW t \in Threads,
         NEW off, NEW f \in Nat, NEW r \in Nat, NEW b \in Nat, NEW w \in Nat, NEW n \in Nat,
         Ring(off, f, r, b, w, n),
         UNCHANGED <<memory, mutex, cursor, positions, semaphores>>,
         mutex["write"] = t, ~SizeSet(t),
         packet'[t].buffer_pos = packet[t].buffer_pos,
         packet'[t].reserved = packet[t].reserved,
         InUse(t)' <=> InUse(t), SizeSet(t)' <=> SizeSet(t),
         pc'[t] # "post",
         \A u \in Threads \ {t} :
           packet'[u] = packet[u] /\ call'[u] = call[u] /\ pc'[u] = pc[u],
         Claim(t)' \in Int,
         \/ free_bytes' + Claim(t)' = free_bytes + Claim(t)
         \/ ~Lossless /\ free_bytes' = free_bytes /\ Claim(t)' <= Claim(t)
  PROVE  Ring(off, f, r, b, w, n)'
<1>1. TypeOK /\ TypeOK'
  BY DEF PhaseInv, WriterInv
<1>2. Claimed = Claim(t) /\ Claimed' = Claim(t)'
  BY PhaseFacts DEF Claimed, Free
<1>3. off[n] \in Nat /\ off[f] \in Nat
  BY <1>1, Window DEF Ring, Indexed
<1>4. Accounted(off, f, n)'
  <2>1. Claimed \in Int /\ Claimed' \in Int /\ free_bytes \in Int /\ free_bytes' \in Int
    BY <1>1, <1>2, MetType DEF TypeOK
  <2>2. Accounted(off, f, n)
    BY DEF Ring
  <2> QED
    BY <1>2, <1>3, <2>1, <2>2, AccountStep
<1>5. \A u \in Threads :
        /\ packet'[u].buffer_pos = packet[u].buffer_pos
        /\ packet'[u].reserved = packet[u].reserved
        /\ (InUse(u)' <=> InUse(u)) /\ (SizeSet(u)' <=> SizeSet(u))
        /\ SizeSet(u) /\ mutex["write"] = u => call'[u] = call[u]
        /\ At(u, "post")' => At(u, "post") \/ NextClosed(u)
  BY DEF InUse, SizeSet, At
<1>6. \A i : HeaderAt(off, i)' = HeaderAt(off, i)
  BY DEF HeaderAt, Place
<1> QED
  BY <1>4, <1>5, <1>6, CallStep

\* Steps in which a thread only moves on, or takes or releases read_mutex.
LEMMA QuietRing ==
  ASSUME PhaseInv, PhaseInv', ~cancelled, ~cancelled', NEW t \in Threads,
         NEW off, NEW f \in Nat, NEW r \in Nat, NEW b \in Nat, NEW w \in Nat, NEW n \in Nat,
         Ring(off, f, r, b, w, n),
         \/ Open(t) \/ OpenBusy(t) \/ OpenRead(t) \/ ReadWaitFails(t) \/ Kill(t)
         \/ ScanOn(t)
         \/ ReserveDrain(t) /\ ~(read_packets > 0)
         \/ Close(t) /\ (t \in Consumers \/ SizeSet(t))
  PROVE  Ring(off, f, r, b, w, n)'
<1> USE PhaseFacts
<1>1. /\ UNCHANGED <<memory, cursor, positions, semaphores, free_bytes, call>>
      /\ \A m \in {"write", "read_close", "write_close"} : mutex'[m] = mutex[m]
  <2>1. CASE ReserveDrain(t) /\ ~(read_packets > 0)
    BY <2>1 DEF ReserveDrain, positions, semaphores
  <2>2. CASE Close(t) /\ (t \in Consumers \/ SizeSet(t))
    BY <2>2, CloseOpened DEF Close
  <2>3. CASE \/ Open(t) \/ OpenBusy(t) \/ OpenRead(t) \/ ReadWaitFails(t) \/ Kill(t)
             \/ ScanOn(t)
    BY <2>3
       DEF Open, OpenBusy, ReturnsIdle, OpenRead, ReadWaitFails, Kill, ScanOn, ringVars,
           MutexNames, Acquire, Release
  <2> QED
    BY <2>1, <2>2, <2>3
<1>2. \A u \in Threads : At(u, "post")' => At(u, "post") \/ NextClosed(u)
  BY CloseOpened
     DEF Open, OpenBusy, ReturnsIdle, OpenRead, ReadWaitFails, Kill, ScanOn, ReserveDrain,
         Goto, At
<1>3. \A u \in Threads :
        /\ packet'[u].buffer_pos = packet[u].buffer_pos
        /\ packet'[u].reserved = packet[u].reserved
        /\ SizeSet(u)' <=> SizeSet(u)
  <2>1. CASE Close(t)
    <3>1. packet' = [packet EXCEPT ![t].flags = @ \ {"TRY"}]
      BY <2>1 DEF Close
    <3> QED
      BY <3>1 DEF SizeSet, Packet
  <2>2. CASE ~Close(t)
    BY <2>2
       DEF Open, OpenBusy, ReturnsIdle, OpenRead, ReadWaitFails, Kill, ScanOn, ReserveDrain,
           SizeSet
  <2> QED
    BY <2>1, <2>2
<1>4. \A u \in Threads : InUse(u)' <=> InUse(u)
  <2>1. CASE Close(t)
    <3>1. /\ packet' = [packet EXCEPT ![t].flags = @ \ {"TRY"}]
          /\ pc[t] = "open"
      BY <2>1 DEF Close, At
    <3>2. InUse(t) /\ FlagsFit(t) /\ (t \in Consumers \/ t \in Producers)
      BY <3>1 DEF PlaceFits
    <3>3. packet[t].flags \ {"TRY"} # {}
      BY <3>2 DEF FlagsFit, InUse
    <3> QED
      BY <3>1, <3>3 DEF InUse, Packet
  <2>2. CASE ~Close(t)
    BY <2>2
       DEF Open, OpenBusy, ReturnsIdle, OpenRead, ReadWaitFails, Kill, ScanOn, ReserveDrain,
           InUse
  <2> QED
    BY <2>1, <2>2
<1>5. Accounted(off, f, n)'
  <2>1. ~Free("write") => mutex["write"] \in Threads
    BY DEF Free, MutexNames
  <2>2. Claimed' = Claimed
    BY <1>1, <1>3, <2>1 DEF Claimed, Free, Claim
  <2> QED
    BY <1>1, <2>2 DEF Ring, Accounted
<1>6. \A i : HeaderAt(off, i)' = HeaderAt(off, i)
  BY <1>1 DEF HeaderAt, Place
<1> QED
  BY <1>1, <1>2, <1>3, <1>4, <1>5, <1>6, CallStep

\* ps_packet_reserve is called for the data of a packet, or gives up.
LEMMA ClaimRing ==
  ASSUME PhaseInv, PhaseInv', ~cancelled, ~cancelled', CommitUninterrupted, NEW t \in Threads,
         NEW off, NEW f \in Nat, NEW r \in Nat, NEW b \in Nat, NEW w \in Nat, NEW n \in Nat,
         Ring(off, f, r, b, w, n),
         \/ \E k \in WriteSizes : Write(t, k)
         \/ \E k \in SetSizes : SetSize(t, k)
         \/ Close(t) /\ ~(t \in Consumers \/ SizeSet(t))
         \/ ReserveBusy(t) \/ ReserveInterrupted(t)
  PROVE  Ring(off, f, r, b, w, n)'
<1> USE PhaseFacts
<1>1. TypeOK /\ TypeOK' /\ free_bytes \in Int
  BY DEF PhaseInv, WriterInv, TypeOK
<1>2. /\ packet[t].reserved \in Nat /\ call[t].len \in Nat
      /\ Claim(t) = packet[t].reserved + Missing(t) /\ Missing(t) \in Nat
  BY <1>1, ClaimIs
<1>3. ASSUME pc[t] = "open", t \in Producers, ~SizeSet(t),
             NEW op \in {"write", "setsize"}, NEW len \in Nat, NEW closing \in BOOLEAN,
             CallReserve(t, op, len, packet[t].reserved, closing),
             UNCHANGED <<memory, mutex, cursor, positions, semaphores>>,
             packet' = packet \/ packet' = [packet EXCEPT ![t].flags = @ \ {"TRY"}]
      PROVE  Ring(off, f, r, b, w, n)'
  <2>1. InUse(t) /\ call[t] = NoCall
    BY <1>3 DEF PlaceFits
  <2>2. mutex["write"] = t
    BY <1>3, <2>1, BuilderHolds
  <2>3. /\ call' = [call EXCEPT ![t] = [op |-> op, len |-> len, closing |-> closing]]
        /\ free_bytes' = free_bytes - (Larger(len, packet[t].reserved) - packet[t].reserved)
        /\ pc' = [pc EXCEPT ![t] = "reserve"]
    BY <1>3 DEF CallReserve, Goto
  <2>4. /\ packet'[t].buffer_pos = packet[t].buffer_pos
        /\ packet'[t].reserved = packet[t].reserved
        /\ \A u \in Threads \ {t} : packet'[u] = packet[u]
        /\ packet'[t].flags = packet[t].flags \/ packet'[t].flags = packet[t].flags \ {"TRY"}
    BY <1>3 DEF Packet
  <2>5. (InUse(t)' <=> InUse(t)) /\ (SizeSet(t)' <=> SizeSet(t))
    <3>1. "WRITE" \in packet[t].flags
      BY <1>3, <2>1 DEF FlagsFit
    <3> QED
      BY <2>4, <3>1 DEF InUse, SizeSet
  <2>6. Claim(t)' = Larger(len, packet[t].reserved) /\ Claim(t) = packet[t].reserved
    <3>1. call'[t].op = op /\ call'[t].len = len /\ NoCall.op = "none" /\ op # "none"
      BY <2>3 DEF NoCall
    <3>2. call'[t] # NoCall
      BY <3>1
    <3> QED
      BY <2>1, <2>4, <3>1, <3>2 DEF Claim
  <2>7. Claim(t)' \in Int /\ free_bytes' + Claim(t)' = free_bytes + Claim(t)
    BY <1>1, <1>2, <2>3, <2>6 DEF Larger
  <2>8. pc'[t] # "post" /\ \A u \in Threads \ {t} : call'[u] = call[u] /\ pc'[u] = pc[u]
    BY <2>3
  <2> QED
    BY <1>3, <2>2, <2>4, <2>5, <2>7, <2>8, ClaimStep
<1>4. ASSUME ReserveFails(t), pc[t] = "reserve", ~SizeSet(t),
             \/ free_bytes' = free_bytes + Missing(t)
             \/ free_bytes' = free_bytes /\ ~Lossless
      PROVE  Ring(off, f, r, b, w, n)'
  <2>1. mutex["write"] = t
    BY <1>4 DEF ReserveHoldsMutex, InReserve
  <2>2. /\ UNCHANGED <<memory, mutex, cursor, positions, semaphores, packet>>
        /\ call' = [call EXCEPT ![t] = NoCall] /\ pc' = [pc EXCEPT ![t] = "open"]
    BY <1>4 DEF ReserveFails, Goto
  <2>3. Claim(t)' = packet[t].reserved
    BY <2>2 DEF Claim
  <2>4. /\ Claim(t)' \in Int
        /\ \/ free_bytes' + Claim(t)' = free_bytes + Claim(t)
           \/ ~Lossless /\ free_bytes' = free_bytes /\ Claim(t)' <= Claim(t)
    BY <1>1, <1>2, <1>4, <2>3
  <2>5. (InUse(t)' <=> InUse(t)) /\ (SizeSet(t)' <=> SizeSet(t))
    BY <2>2 DEF InUse, SizeSet
  <2>6. pc'[t] # "post" /\ \A u \in Threads \ {t} : call'[u] = call[u] /\ pc'[u] = pc[u]
    BY <2>2
  <2> QED
    BY <1>4, <2>1, <2>2, <2>4, <2>5, <2>6, ClaimStep
<1>5. ASSUME NEW k \in WriteSizes, Write(t, k)
      PROVE  Ring(off, f, r, b, w, n)'
  <2>1. packet[t].pos + k \in Nat
    <3>1. k \in Nat /\ packet[t].pos \in Nat
      BY SizeAssumption DEF Packet
    <3> QED
      BY <3>1
  <2> QED
    BY <1>3, <1>5, <2>1 DEF Write, At
<1>6. ASSUME NEW k \in SetSizes, SetSize(t, k)
      PROVE  Ring(off, f, r, b, w, n)'
  <2>1. k \in Nat
    <3>1. k \in 0 .. MaxSize /\ MaxSize \in Nat
      BY SizeAssumption
    <3> QED
      BY <3>1
  <2> QED
    BY <1>3, <1>6, <2>1 DEF SetSize, At
<1>7. CASE Close(t) /\ ~(t \in Consumers \/ SizeSet(t))
  <2>1. HeaderOf(t).size \in Nat /\ t \in Producers
    BY <1>1, <1>7 DEF HeaderOf, TypeOK, Packet, Header
  <2> QED
    BY <1>3, <1>7, <2>1 DEF Close, At
<1>8. CASE ReserveBusy(t)
  <2>1. ~SizeSet(t)
    BY <1>8 DEF ReserveBusy, FlagsFit
  <2> QED
    BY <1>4, <1>8, <2>1 DEF ReserveBusy, GivenBack, Reserving, At
<1>9. CASE ReserveInterrupted(t)
  <2>1. pc[t] = "reserve" /\ call[t].op \in InterruptedCalls /\ t \in Interruptible
    BY <1>9 DEF ReserveInterrupted, Reserving, At
  <2>2. mutex["write"] = t /\ t \in Producers
    BY <2>1 DEF ReserveHoldsMutex, ReservesOwnPacket, InReserve
  <2>3. ~SizeSet(t) /\ ~Lossless
    BY <2>1, <2>2 DEF MutexFits, CommitUninterrupted, Lossless
  <2> QED
    BY <1>4, <1>9, <2>1, <2>3 DEF ReserveInterrupted
<1> QED
  BY <1>5, <1>6, <1>7, <1>8, <1>9

\* ps_packet_reserve takes the oldest packet off the ring: a reader has posted it.
LEMMA ConsumeRing ==
  ASSUME PhaseInv, PhaseInv', ~cancelled, ~cancelled', NEW t \in Threads,
         NEW off, NEW f \in Nat, NEW r \in Nat, NEW b \in Nat, NEW w \in Nat, NEW n \in Nat,
         Ring(off, f, r, b, w, n),
         ReserveWait(t) \/ (ReserveDrain(t) /\ read_packets > 0)
  PROVE  f + 1 \in Nat /\ Ring(off, f + 1, r, b, w, n)'
<1>0. /\ TypeOK /\ f <= n
      /\ Laid(off, f, n) /\ Indexed(off, f, r, b, w, n) /\ Marked(off, f, r, b, w, n)
      /\ Used(off, r, b, w, n) /\ (\A u \in Threads : Committing(u))
      /\ Accounted(off, f, n)
  BY RingFacts
<1>1. /\ read_packets > 0 /\ read_packets' = read_packets - 1
      /\ ConsumeOldest
      /\ UNCHANGED <<read_pos, write_pos, read_next, write_next, written_packets, memory,
                     mutex, packet, call, cursor>>
      /\ \A u \in Threads : At(u, "post")' => At(u, "post")
  BY PhaseFacts DEF ReserveWait, ReserveDrain, Goto, At
<1>2. f + 1 \in Nat /\ f + 1 <= r /\ f < n /\ f \in f .. n /\ f + 1 \in f .. n /\ n \in f .. n
  BY <1>0, <1>1 DEF Indexed
<1>3. /\ read_first = Place(off, f)
      /\ free_bytes' = free_bytes + Footprint(Place(off, f), HeaderAt(off, f).size)
      /\ read_first' = Place(off, f + 1)
  BY <1>0, <1>1, <1>2, PlaceAfter DEF ConsumeOldest, Indexed, HeaderAt
<1>4. Met' = Met /\ Claimed' = Claimed /\ RingEnd' = RingEnd /\ (Free("write")' <=> Free("write"))
  BY <1>1 DEF Met, Claimed, RingEnd, Free, Claim
<1>5. ReadPosted' = ReadPosted /\ WritePosted' = WritePosted
  BY <1>1 DEF ReadPosted, WritePosted, Free
<1>6. \A i : HeaderAt(off, i)' = HeaderAt(off, i) /\ Place(off, i)' = Place(off, i)
  BY <1>1 DEF HeaderAt, Place
<1>7. off[f] \in Nat /\ off[f + 1] \in Nat /\ off[n] \in Nat /\ off[f] <= off[f + 1]
  BY <1>0, <1>2, Window
<1>8. (f + 1) .. n \subseteq f .. n
  OBVIOUS
<1>9. Laid(off, f + 1, n)'
  <2>1. off[n] + HeaderSize + Met <= off[f + 1] + Size
    <3>1. off[n] + HeaderSize + Met <= off[f] + Size /\ Met \in Nat
      BY <1>0, RingFacts DEF Laid
    <3> QED
      BY <1>7, <3>1, RingAssumption
  <2> QED
    BY <1>0, <1>4, <1>6, <1>8, <2>1 DEF Laid
<1>10. Indexed(off, f + 1, r, b, w, n)'
  <2>1. read_packets' = r - (f + 1)
    BY <1>0, <1>1 DEF Indexed
  <2> QED
    BY <1>0, <1>1, <1>2, <1>3, <1>4, <1>5, <1>6, <2>1 DEF Indexed
<1>11. Marked(off, f + 1, r, b, w, n)'
  <2>1. \A u \in Threads : NextClosed(u)' <=> NextClosed(u)
    BY <1>1 DEF NextClosed, CloseFlag
  <2> QED
    BY <1>0, <1>1, <1>4, <1>6, <1>8, <2>1 DEF Marked
<1>12. Used(off, r, b, w, n)'
  <2>1. Producers \subseteq Threads /\ Consumers \subseteq Threads
    BY DEF Threads
  <2> QED
    BY <1>0, <1>1, <1>6, <2>1 DEF Used, InUse
<1>13. \A u \in Threads : Committing(u)'
  BY <1>0, <1>1 DEF Committing, SizeSet, HeaderOf
<1>14. Accounted(off, f + 1, n)'
  <2>1. off[f + 1] = off[f] + Footprint(Place(off, f), HeaderAt(off, f).size)
    BY <1>0, <1>2 DEF Laid
  <2>2. PICK x \in Nat, y \in Nat, z \in Nat, c \in Nat, p \in Nat, u \in Int, v \in Int :
          /\ x = off[f] /\ y = off[f + 1] /\ z = off[n] /\ c = Claimed
          /\ p = Footprint(Place(off, f), HeaderAt(off, f).size)
          /\ u = free_bytes /\ v = free_bytes'
    <3>1. Footprint(Place(off, f), HeaderAt(off, f).size) \in Nat
      BY <1>0, <1>2, Window, FootprintType
    <3>2. Claimed \in Nat /\ free_bytes \in Int /\ free_bytes' \in Int
      BY RingFacts DEF PhaseInv, WriterInv, TypeOK
    <3> QED
      BY <1>7, <3>1, <3>2
  <2>3. y = x + p /\ v = u + p
    BY <1>3, <2>1, <2>2
  <2>4. u <= ((Size - HeaderSize) - (z - x)) - c
        /\ (Lossless => u = ((Size - HeaderSize) - (z - x)) - c)
    BY <1>0, <2>2 DEF Accounted
  <2>5. v <= ((Size - HeaderSize) - (z - y)) - c
        /\ (Lossless => v = ((Size - HeaderSize) - (z - y)) - c)
    BY <2>3, <2>4, RingAssumption
  <2> QED
    BY <1>4, <2>2, <2>5 DEF Accounted
<1> QED
  BY <1>2, <1>9, <1>10, <1>11, <1>12, <1>13, <1>14 DEF Ring

\* A producer works on the packet at the end of the ring, and on nothing else.
LEMMA BuilderStep ==
  ASSUME PhaseInv, PhaseInv', ~cancelled, ~cancelled', NEW t \in Threads,
         NEW off, NEW f \in Nat, NEW r \in Nat, NEW b \in Nat, NEW w \in Nat, NEW n \in Nat,
         Ring(off, f, r, b, w, n),
         UNCHANGED <<read_pos, write_pos, read_next, read_first, cursor, semaphores>>,
         \A m \in {"read_close", "write_close"} : mutex'[m] = mutex[m],
         mutex["write"] \in {t, NoOwner}, mutex'["write"] \in {t, NoOwner},
         pc'[t] # "post",
         \A u \in Threads \ {t} :
           packet'[u] = packet[u] /\ call'[u] = call[u] /\ pc'[u] = pc[u],
         \A i \in f .. n : /\ HeaderAt(off, i)'.flags = HeaderAt(off, i).flags
                           /\ i < n => HeaderAt(off, i)'.size = HeaderAt(off, i).size,
         t \in Producers, RingEnd' = Place(off, n),
         Free("write")' => HeaderAt(off, n)' = NullHeader /\ write_next' = Place(off, n),
         InUse(t)' => mutex'["write"] = t,
         off[n] + HeaderSize + Met' <= off[f] + Size,
         Committing(t)', Accounted(off, f, n)'
  PROVE  Ring(off, f, r, b, w, n)'
<1>1. /\ TypeOK /\ f <= n
      /\ Laid(off, f, n) /\ Indexed(off, f, r, b, w, n) /\ Marked(off, f, r, b, w, n)
      /\ Used(off, r, b, w, n) /\ (\A u \in Threads : Committing(u))
      /\ Producers \subseteq Threads /\ Consumers \subseteq Threads
      /\ t \notin Consumers
  BY RingFacts, ThreadAssumption
<1>2. /\ \A i : Place(off, i)' = Place(off, i)
      /\ f <= r /\ r <= b /\ b <= w /\ w <= n /\ n \in f .. n
  BY <1>1 DEF Place, Indexed
<1>3. \A u \in Threads \ {t} : /\ mutex["write"] # u /\ mutex'["write"] # u
                               /\ InUse(u)' <=> InUse(u)
  BY ThreadAssumption DEF InUse
<1>4. Laid(off, f, n)'
  BY <1>1, <1>2 DEF Laid
<1>5. Indexed(off, f, r, b, w, n)'
  <2>1. ReadPosted' = ReadPosted /\ WritePosted' = WritePosted
    BY DEF ReadPosted, WritePosted, Free
  <2> QED
    BY <1>1, <1>2, <2>1 DEF Indexed, semaphores
<1>6. Marked(off, f, r, b, w, n)'
  <2>1. ASSUME NEW u \in Threads, At(u, "post")'
        PROVE  NextClosed(u)'
    <3>1. u # t /\ At(u, "post")
      BY <2>1 DEF At
    <3>2. NextClosed(u)
      BY <1>1, <3>1 DEF Marked
    <3>3. cursor[u] \in {Place(off, r), Place(off, w)} /\ r \in f .. n /\ w \in f .. n
      <4>1. pc[u] \in {"post", "scan"}
        BY <3>1 DEF At
      <4> QED
        BY <1>1, <4>1, CursorPlace
    <3>4. memory'[cursor[u]].flags = memory[cursor[u]].flags
      BY <1>2, <3>3 DEF HeaderAt
    <3> QED
      BY <3>2, <3>4 DEF NextClosed, CloseFlag
  <2> QED
    BY <1>1, <1>2, <2>1 DEF Marked
<1>7. Used(off, r, b, w, n)'
  <2>1. w .. n \subseteq f .. n /\ r .. b \subseteq f .. n
    BY <1>2
  <2>2. ASSUME NEW u \in Producers, InUse(u)', mutex'["write"] # u
        PROVE  \E i \in w .. n : i < n /\ packet'[u].buffer_pos = Place(off, i)'
                                 /\ "WRITTEN" \notin HeaderAt(off, i)'.flags
    <3>1. u # t /\ InUse(u) /\ mutex["write"] # u
      BY <1>1, <1>3, <2>2
    <3>2. PICK i \in w .. n : i < n /\ packet[u].buffer_pos = Place(off, i)
                              /\ "WRITTEN" \notin HeaderAt(off, i).flags
      BY <1>1, <3>1 DEF Used
    <3> QED
      BY <1>1, <1>2, <2>1, <3>1, <3>2
  <2>3. ASSUME NEW u \in Consumers, InUse(u)'
        PROVE  \E i \in r .. b : i < b /\ packet'[u].buffer_pos = Place(off, i)'
                                 /\ HeaderAt(off, i)'.flags = {"WRITTEN"}
    <3>1. u # t /\ InUse(u)
      BY <1>1, <1>3, <2>3
    <3>2. PICK i \in r .. b : i < b /\ packet[u].buffer_pos = Place(off, i)
                              /\ HeaderAt(off, i).flags = {"WRITTEN"}
      BY <1>1, <3>1 DEF Used
    <3> QED
      BY <1>1, <1>2, <2>1, <3>1, <3>2
  <2>4. ASSUME NEW u \in Threads \ {t}, InUse(u)', InUse(t)'
        PROVE  packet'[u].buffer_pos # packet'[t].buffer_pos
    <3>1. InUse(u) /\ mutex["write"] # u
      BY <1>3, <2>4
    <3>2. PICK i \in f .. n : i < n /\ packet[u].buffer_pos = Place(off, i)
      BY <1>1, <1>2, <2>1, <3>1, ThreadAssumption DEF Used, Threads
    <3>3. packet'[t].buffer_pos = Place(off, n)
      BY <2>4, ThreadAssumption DEF RingEnd, Free
    <3>4. Place(off, i) # Place(off, n)
      BY <1>1, <1>2, <3>2, PlacesDiffer
    <3> QED
      BY <3>2, <3>3, <3>4
  <2>5. ASSUME NEW u \in Threads \ {t}, NEW v \in Threads \ {t}, u # v, InUse(u)', InUse(v)'
        PROVE  packet'[u].buffer_pos # packet'[v].buffer_pos
    BY <1>1, <1>3, <2>5 DEF Used
  <2> QED
    BY <2>2, <2>3, <2>4, <2>5 DEF Used
<1>8. \A u \in Threads : Committing(u)'
  BY <1>3 DEF Committing
<1> QED
  BY <1>4, <1>5, <1>6, <1>7, <1>8 DEF Ring

\* The packets before the one being built keep their sizes and flags.
Kept(off, f, n) ==
  \A i \in f .. n : i < n => /\ HeaderAt(off, i)'.flags = HeaderAt(off, i).flags
                            /\ HeaderAt(off, i)'.size = HeaderAt(off, i).size

\* The header at the end of the ring is set NULL: the others stay.
LEMMA NullTail ==
  ASSUME TypeOK, NEW off, NEW f \in Nat, NEW n \in Nat, Laid(off, f, n), f <= n,
         HeaderAt(off, n).flags = {},
         memory' = StoreHeader(memory, Place(off, n), NullHeader)
  PROVE  /\ HeaderAt(off, n)' = NullHeader
         /\ \A i \in f .. n : i < n => HeaderAt(off, i)' = HeaderAt(off, i)
         /\ \A i \in f .. n : /\ HeaderAt(off, i)'.flags = HeaderAt(off, i).flags
                              /\ i < n => HeaderAt(off, i)'.size = HeaderAt(off, i).size
<1>1. n \in f .. n
  OBVIOUS
<1>2. HeaderAt(off, n)' = NullHeader
  BY <1>1, Window, StoreHeaderReads DEF HeaderAt, Place
<1>3. ASSUME NEW i \in f .. n, i < n
      PROVE  HeaderAt(off, i)' = HeaderAt(off, i)
  <2>1. /\ off[i] \in Nat /\ off[n] \in Nat
        /\ off[i] + HeaderSize <= off[n] /\ off[n] + HeaderSize <= off[i] + Size
        /\ off[i] % Size \in HeaderPos /\ off[n] % Size \in HeaderPos
    BY <1>1, <1>3, Window DEF Place
  <2> QED
    BY <2>1, StoreHeaderApart DEF HeaderAt, Place
<1>4. NullHeader.flags = {}
  BY DEF NullHeader
<1> QED
  BY <1>2, <1>3, <1>4

\* Data goes behind the header at the end of the ring, up to where the claim ends.
LEMMA StoreTail ==
  ASSUME TypeOK, NEW off, NEW f \in Nat, NEW n \in Nat, Laid(off, f, n), f <= n,
         NEW pos \in Nat, NEW len \in Nat, off[n] + HeaderSize + len <= off[f] + Size,
         NEW i \in f .. n
  PROVE  StoreData(memory, (Place(off, n) + HeaderSize + pos) % Size, len - pos)[Place(off, i)]
           = HeaderAt(off, i)
<1>1. /\ off[i] \in Nat /\ off[n] \in Nat /\ off[f] \in Nat
      /\ off[i] <= off[n] /\ off[f] <= off[i] /\ off[i] % Size \in HeaderPos
  BY Window DEF Place
<1> DEFINE y == off[n] + (HeaderSize + pos)
<1>2. y \in Nat /\ HeaderSize + pos \in Nat /\ len - pos \in Int
  BY <1>1, RingAssumption
<1>3. (Place(off, n) + HeaderSize + pos) % Size = y % Size
  <2>1. (off[n] % Size) \in Nat
    BY <1>1, Quotient
  <2>2. (off[n] % Size) + HeaderSize + pos = (off[n] % Size) + (HeaderSize + pos)
    BY <2>1, RingAssumption
  <2>3. ((off[n] % Size) + (HeaderSize + pos)) % Size = (off[n] + (HeaderSize + pos)) % Size
    BY <1>1, <1>2, PlaceOnward
  <2> QED
    BY <2>2, <2>3 DEF Place
<1>4. off[i] + HeaderSize <= y
  BY <1>1, RingAssumption
<1>5. y + (len - pos) <= off[i] + Size
  <2>1. y + (len - pos) = off[n] + HeaderSize + len
    BY <1>1, RingAssumption
  <2> QED
    BY <1>1, <2>1, RingAssumption
<1> HIDE DEF y
<1> QED
  BY <1>1, <1>2, <1>3, <1>4, <1>5, StoreDataBehind DEF HeaderAt, Place

\* A claim that is met fits between the packet and the oldest one.
LEMMA ClaimFits ==
  ASSUME PhaseInv, ~cancelled, NEW t \in Threads, ReserveDone(t),
         NEW off, NEW f \in Nat, NEW r \in Nat, NEW b \in Nat, NEW w \in Nat, NEW n \in Nat,
         Ring(off, f, r, b, w, n)
  PROVE  /\ off[n] + HeaderSize + Claim(t) <= off[f] + Size
         /\ Claim(t) = Larger(call[t].len, packet[t].reserved)
         /\ Claim(t) \in Nat /\ call[t].len \in Nat /\ packet[t].reserved \in Nat
         /\ call[t].len <= Claim(t) /\ packet[t].reserved <= Claim(t)
         /\ mutex["write"] = t /\ t \in Producers /\ InUse(t) /\ pc[t] = "reserve"
         /\ packet[t].buffer_pos = Place(off, n)
<1>1. /\ TypeOK /\ f <= n
      /\ Laid(off, f, n) /\ Indexed(off, f, r, b, w, n) /\ Accounted(off, f, n)
  BY RingFacts
<1>2. pc[t] = "reserve" /\ mutex["write"] = t
  BY PhaseFacts DEF ReserveDone, ReserveHoldsMutex, InReserve, At
<1>3. /\ Met = packet[t].reserved /\ Claimed = Claim(t)
      /\ packet[t].buffer_pos = Place(off, n)
      /\ t \in Producers /\ InUse(t)
  BY <1>1, <1>2, HolderFacts DEF Indexed
<1>4. /\ Claim(t) = Larger(call[t].len, packet[t].reserved)
      /\ Claim(t) = packet[t].reserved + Missing(t)
      /\ Claim(t) \in Nat /\ Missing(t) \in Nat
      /\ Claim(t) >= call[t].len /\ packet[t].reserved \in Nat /\ call[t].len \in Nat
  BY <1>1, ClaimIs
<1>5. off[n] \in Nat /\ off[f] \in Nat /\ free_bytes \in Int
  BY <1>1, Window DEF TypeOK
<1>6. off[n] + HeaderSize + Claim(t) <= off[f] + Size
  <2>1. CASE Missing(t) = 0
    BY <1>1, <1>3, <1>4, <2>1 DEF Laid
  <2>2. CASE free_bytes >= 0
    <3>1. free_bytes <= Size - HeaderSize - (off[n] - off[f]) - Claim(t)
      BY <1>1, <1>3 DEF Accounted
    <3> QED
      BY <1>4, <1>5, <2>2, <3>1, RingAssumption
  <2> QED
    BY <2>1, <2>2 DEF ReserveDone
<1> QED
  BY <1>2, <1>3, <1>4, <1>6

\* ps_packet_openwrite: the header it sets NULL is NULL already.
LEMMA OpenWriteRing ==
  ASSUME PhaseInv, PhaseInv', ~cancelled, ~cancelled', NEW t \in Threads,
         NEW off, NEW f \in Nat, NEW r \in Nat, NEW b \in Nat, NEW w \in Nat, NEW n \in Nat,
         Ring(off, f, r, b, w, n), OpenWrite(t)
  PROVE  Ring(off, f, r, b, w, n)' /\ Kept(off, f, n)
<1>1. /\ TypeOK /\ f <= n
      /\ Laid(off, f, n) /\ Indexed(off, f, r, b, w, n) /\ Marked(off, f, r, b, w, n)
      /\ Accounted(off, f, n)
  BY RingFacts
<1>2. /\ t \in Producers /\ pc[t] = "lock" /\ mutex["write"] = NoOwner
      /\ mutex' = [mutex EXCEPT !["write"] = t]
      /\ packet' = [packet EXCEPT ![t] =
           [flags |-> OpenFlags(t, "WRITE"), buffer_pos |-> write_next,
            pos |-> 0, reserved |-> 0]]
      /\ memory' = StoreHeader(memory, write_next, NullHeader)
      /\ pc' = [pc EXCEPT ![t] = "open"]
      /\ UNCHANGED <<cancelVars, positions, free_bytes, semaphores, call, cursor>>
  BY DEF OpenWrite, At, Free, Acquire, Goto
<1>3. /\ packet \in [Threads -> Packet] /\ pc \in [Threads -> ControlLocations]
      /\ mutex \in [MutexNames -> Threads \cup {NoOwner}]
      /\ call[t] = NoCall /\ t # NoOwner
  BY <1>2, PhaseFacts DEF PlaceFits
<1>4. write_next = Place(off, n) /\ HeaderAt(off, n).flags = {}
  BY <1>1, <1>2 DEF Marked, Free
<1>5. /\ packet'[t].buffer_pos = write_next /\ packet'[t].reserved = 0
      /\ packet'[t].flags = OpenFlags(t, "WRITE") /\ call'[t] = NoCall
      /\ mutex'["write"] = t
      /\ \A m \in {"read_close", "write_close"} : mutex'[m] = mutex[m]
  BY <1>2, <1>3 DEF MutexNames
<1>6. ~Free("write")' /\ Met' = 0 /\ Claimed' = 0 /\ RingEnd' = Place(off, n)
  BY <1>3, <1>4, <1>5 DEF Free, Met, Claimed, Claim, RingEnd
<1>7. Met = 0 /\ Claimed = 0
  BY <1>2 DEF Met, Claimed, Free
<1>8. Committing(t)'
  <2>1. ~SizeSet(t)'
    BY <1>5 DEF OpenFlags, SizeSet
  <2> QED
    BY <2>1 DEF Committing
<1>9. Accounted(off, f, n)' /\ off[n] + HeaderSize + Met' <= off[f] + Size
  BY <1>1, <1>2, <1>6, <1>7 DEF Accounted, Laid
<1>10. \A i \in f .. n : /\ HeaderAt(off, i)'.flags = HeaderAt(off, i).flags
                         /\ i < n => HeaderAt(off, i)'.size = HeaderAt(off, i).size
  BY <1>1, <1>2, <1>4, NullTail
<1>11. /\ UNCHANGED <<read_pos, write_pos, read_next, read_first, cursor, semaphores>>
       /\ \A u \in Threads \ {t} :
            packet'[u] = packet[u] /\ call'[u] = call[u] /\ pc'[u] = pc[u]
       /\ pc'[t] # "post"
  BY <1>2, <1>3 DEF positions
<1>ring. Ring(off, f, r, b, w, n)'
  BY <1>2, <1>5, <1>6, <1>8, <1>9, <1>10, <1>11, BuilderStep
<1>kept. Kept(off, f, n)
  BY <1>10 DEF Kept
<1> QED
  BY <1>ring, <1>kept

\* The copy of ps_packet_write, once its space is reserved.
LEMMA FinishWriteRing ==
  ASSUME PhaseInv, PhaseInv', ~cancelled, ~cancelled', NEW t \in Threads,
         NEW off, NEW f \in Nat, NEW r \in Nat, NEW b \in Nat, NEW w \in Nat, NEW n \in Nat,
         Ring(off, f, r, b, w, n), FinishWrite(t)
  PROVE  Ring(off, f, r, b, w, n)' /\ Kept(off, f, n)
<1>1. /\ TypeOK /\ f <= n
      /\ Laid(off, f, n) /\ Indexed(off, f, r, b, w, n)
      /\ Accounted(off, f, n)
  BY RingFacts
<1>2. ReserveDone(t)
  BY DEF FinishWrite
<1>3. /\ off[n] + HeaderSize + Claim(t) <= off[f] + Size
      /\ Claim(t) = Larger(call[t].len, packet[t].reserved)
      /\ Claim(t) \in Nat /\ call[t].len \in Nat /\ packet[t].reserved \in Nat
      /\ call[t].len <= Claim(t) /\ packet[t].reserved <= Claim(t)
      /\ mutex["write"] = t /\ t \in Producers /\ InUse(t) /\ pc[t] = "reserve"
      /\ packet[t].buffer_pos = Place(off, n)
  BY <1>2, ClaimFits
<1> DEFINE len == call[t].len
           m == StoreUpTo(t, len)
           bp == packet[t].buffer_pos
<1>step. /\ call[t].op = "write"
         /\ memory' = [m EXCEPT ![bp].size = Larger(@, len)]
         /\ packet' = [packet EXCEPT ![t].pos = len, ![t].reserved = Larger(@, len)]
         /\ call' = [call EXCEPT ![t] = NoCall]
         /\ pc' = [pc EXCEPT ![t] = "open"]
         /\ UNCHANGED <<cancelVars, positions, free_bytes, semaphores, mutex, cursor>>
  BY DEF FinishWrite, Goto
<1>4. /\ packet \in [Threads -> Packet] /\ pc \in [Threads -> ControlLocations]
      /\ call \in [Threads -> Call] /\ t # NoOwner /\ ~SizeSet(t)
  BY <1>step, <1>3, PhaseFacts DEF MutexFits
<1>5. /\ packet'[t].reserved = Claim(t) /\ packet'[t].buffer_pos = bp
      /\ packet'[t].flags = packet[t].flags /\ call'[t] = NoCall
  <2>1. packet'[t].reserved = Larger(packet[t].reserved, len)
    BY <1>step, <1>4 DEF Packet
  <2>2. Larger(packet[t].reserved, len) = Claim(t)
    BY <1>3 DEF Larger
  <2> QED
    BY <1>step, <1>4, <2>1, <2>2 DEF Packet
<1>6. ~Free("write")' /\ Met' = Claim(t) /\ Claimed' = Claim(t) /\ RingEnd' = Place(off, n)
  BY <1>step, <1>3, <1>4, <1>5 DEF Free, Met, Claimed, Claim, RingEnd
<1>7. Claimed = Claim(t)
  BY <1>1, <1>3, HolderFacts DEF Indexed
<1>8. Committing(t)'
  BY <1>4, <1>5 DEF Committing, SizeSet
<1>9. Accounted(off, f, n)'
  BY <1>step, <1>1, <1>6, <1>7 DEF Accounted
<1>10. \A i \in f .. n : /\ HeaderAt(off, i)'.flags = HeaderAt(off, i).flags
                         /\ i < n => HeaderAt(off, i)'.size = HeaderAt(off, i).size
  <2> TAKE i \in f .. n
  <2>1. m[Place(off, i)] = HeaderAt(off, i)
    <3>1. packet[t].pos \in Nat
      BY <1>4 DEF Packet
    <3>2. off[n] + HeaderSize + len <= off[f] + Size
      <4>1. n \in f .. n /\ f \in f .. n
        BY <1>1
      <4>2. off[n] \in Nat /\ off[f] \in Nat
        BY <1>1, <4>1, Window
      <4> QED
        BY <1>3, <4>2, RingAssumption
    <3> QED
      BY <1>1, <1>3, <3>1, <3>2, StoreTail DEF StoreUpTo
  <2>2. m \in [HeaderPos -> Header] /\ Place(off, i) \in HeaderPos
    BY <1>1, Window, StoreType, NullHeaderType DEF StoreUpTo, TypeOK
  <2>3. i < n => Place(off, i) # bp
    <3>1. n \in f .. n
      BY <1>1
    <3> QED
      BY <1>1, <1>3, <3>1, PlacesDiffer
  <2> HIDE DEF m, bp
  <2> QED
    BY <1>step, <2>1, <2>2, <2>3 DEF HeaderAt, Place, Header
<1>11. /\ UNCHANGED <<read_pos, write_pos, read_next, read_first, cursor, semaphores, mutex>>
       /\ \A u \in Threads \ {t} :
            packet'[u] = packet[u] /\ call'[u] = call[u] /\ pc'[u] = pc[u]
       /\ pc'[t] # "post"
  BY <1>step, <1>4 DEF positions
<1>12. off[n] + HeaderSize + Met' <= off[f] + Size
  BY <1>3, <1>6
<1> HIDE DEF len, m, bp
<1>ring. Ring(off, f, r, b, w, n)'
  BY <1>3, <1>6, <1>8, <1>9, <1>10, <1>11, <1>12, BuilderStep
<1>kept. Kept(off, f, n)
  BY <1>10 DEF Kept
<1> QED
  BY <1>ring, <1>kept

\* ps_packet_setsize stores the size, and goes on to reserve what follows the packet.
LEMMA FinishSetSizeRing ==
  ASSUME PhaseInv, PhaseInv', ~cancelled, ~cancelled', NEW t \in Threads,
         NEW off, NEW f \in Nat, NEW r \in Nat, NEW b \in Nat, NEW w \in Nat, NEW n \in Nat,
         Ring(off, f, r, b, w, n), FinishSetSize(t)
  PROVE  Ring(off, f, r, b, w, n)' /\ Kept(off, f, n)
<1>1. /\ TypeOK /\ f <= n
      /\ Laid(off, f, n) /\ Indexed(off, f, r, b, w, n)
      /\ Accounted(off, f, n)
  BY RingFacts
<1>2. ReserveDone(t)
  BY DEF FinishSetSize
<1>3. /\ off[n] + HeaderSize + Claim(t) <= off[f] + Size
      /\ Claim(t) = Larger(call[t].len, packet[t].reserved)
      /\ Claim(t) \in Nat /\ call[t].len \in Nat /\ packet[t].reserved \in Nat
      /\ call[t].len <= Claim(t) /\ packet[t].reserved <= Claim(t)
      /\ mutex["write"] = t /\ t \in Producers /\ InUse(t) /\ pc[t] = "reserve"
      /\ packet[t].buffer_pos = Place(off, n)
  BY <1>2, ClaimFits
<1>4. call[t].op = "setsize"
  BY DEF FinishSetSize
<1>5. /\ packet \in [Threads -> Packet] /\ pc \in [Threads -> ControlLocations]
      /\ call \in [Threads -> Call] /\ t # NoOwner /\ ~SizeSet(t)
  BY <1>3, <1>4, PhaseFacts DEF MutexFits
<1>6. write_next = packet[t].buffer_pos
  BY <1>3, <1>5, BuilderHolds
<1> DEFINE size == call[t].len
           bp == packet[t].buffer_pos
           foot == Footprint(bp, size)
<1>7. /\ memory' = [memory EXCEPT ![bp].size = size]
      /\ packet' = [packet EXCEPT ![t].flags = (@ \cup {"SIZE_SET"}) \ {"TRY"},
                                  ![t].reserved = Claim(t)]
      /\ write_next' = NextPos(bp, size)
      /\ call' = [call EXCEPT ![t] = [op |-> "commit", len |-> foot,
                                      closing |-> call[t].closing]]
      /\ free_bytes' = free_bytes - (Larger(foot, Claim(t)) - Claim(t))
      /\ pc' = [pc EXCEPT ![t] = "reserve"]
      /\ UNCHANGED <<cancelVars, read_pos, write_pos, read_next, read_first,
                     semaphores, mutex, cursor>>
  BY <1>3, <1>6 DEF FinishSetSize, CallReserve, Goto
<1>8. /\ packet'[t].reserved = Claim(t) /\ packet'[t].buffer_pos = bp
      /\ call'[t].op = "commit" /\ call'[t].len = foot
  BY <1>5, <1>7 DEF Packet
<1>9. bp \in HeaderPos /\ memory \in [HeaderPos -> Header] /\ foot \in Nat
  BY <1>1, <1>3, <1>5, FootprintType DEF TypeOK, Packet
<1>10. Claim(t)' = Larger(foot, Claim(t))
  <2>1. call'[t] # NoCall
    BY <1>8 DEF NoCall
  <2> QED
    BY <1>8, <2>1 DEF Claim
<1>11. ~Free("write")' /\ Met' = Claim(t) /\ Claimed' = Claim(t)' /\ RingEnd' = Place(off, n)
  BY <1>3, <1>5, <1>7, <1>8 DEF Free, Met, Claimed, RingEnd
<1>12. Claimed = Claim(t)
  BY <1>1, <1>3, HolderFacts DEF Indexed
<1>13. Committing(t)'
  <2>1. memory'[bp].size = size
    BY <1>7, <1>9 DEF Header
  <2> HIDE DEF size, bp, foot
  <2>2. HeaderOf(t)'.size = size
    BY <1>8, <2>1 DEF HeaderOf
  <2> USE DEF size, bp, foot
  <2> QED
    BY <1>3, <1>7, <1>8, <2>2 DEF Committing
<1>14. Accounted(off, f, n)'
  <2>1. off[n] \in Nat /\ off[f] \in Nat
    <3>1. n \in f .. n /\ f \in f .. n
      BY <1>1
    <3> QED
      BY <1>1, <3>1, Window
  <2>2. PICK c \in Nat, d \in Nat : c = Claim(t) /\ d = Larger(foot, Claim(t))
    BY <1>3, <1>9 DEF Larger
  <2>3. free_bytes \in Int
    BY <1>1 DEF TypeOK
  <2>4. PICK y \in Int : y = free_bytes'
    BY <1>7, <2>2, <2>3
  <2>5. y = free_bytes - (d - c)
    BY <1>7, <2>2, <2>4
  <2>6. y + d = free_bytes + c
    BY <2>3, <2>5
  <2>7. /\ free_bytes' \in Int /\ Claimed \in Int /\ Claimed' \in Int
        /\ free_bytes' + Claimed' = free_bytes + Claimed
    BY <1>10, <1>11, <1>12, <2>2, <2>4, <2>6
  <2> QED
    BY <1>1, <2>1, <2>3, <2>7, AccountStep
<1>15. \A i \in f .. n : /\ HeaderAt(off, i)'.flags = HeaderAt(off, i).flags
                         /\ i < n => HeaderAt(off, i)'.size = HeaderAt(off, i).size
  <2> TAKE i \in f .. n
  <2>1. Place(off, i) \in HeaderPos
    BY <1>1, Window
  <2>2. i < n => Place(off, i) # bp
    <3>1. n \in f .. n
      BY <1>1
    <3> QED
      BY <1>1, <1>3, <3>1, PlacesDiffer
  <2> HIDE DEF bp, size, foot
  <2> QED
    BY <1>7, <1>9, <2>1, <2>2 DEF HeaderAt, Place, Header
<1>16. /\ UNCHANGED <<read_pos, write_pos, read_next, read_first, cursor, semaphores, mutex>>
       /\ \A u \in Threads \ {t} :
            packet'[u] = packet[u] /\ call'[u] = call[u] /\ pc'[u] = pc[u]
       /\ pc'[t] # "post"
  BY <1>5, <1>7
<1>17. off[n] + HeaderSize + Met' <= off[f] + Size
  BY <1>3, <1>11
<1> HIDE DEF size, bp, foot
<1>ring. Ring(off, f, r, b, w, n)'
  BY <1>3, <1>11, <1>13, <1>14, <1>15, <1>16, <1>17, BuilderStep
<1>kept. Kept(off, f, n)
  BY <1>15 DEF Kept
<1> QED
  BY <1>ring, <1>kept

\* ps_packet_cancel
LEMMA CancelPacketRing ==
  ASSUME PhaseInv, PhaseInv', ~cancelled, ~cancelled', NEW t \in Threads,
         NEW off, NEW f \in Nat, NEW r \in Nat, NEW b \in Nat, NEW w \in Nat, NEW n \in Nat,
         Ring(off, f, r, b, w, n), CancelPacket(t)
  PROVE  Ring(off, f, r, b, w, n)' /\ Kept(off, f, n)
<1>1. /\ TypeOK /\ f <= n
      /\ Laid(off, f, n) /\ Indexed(off, f, r, b, w, n) /\ Marked(off, f, r, b, w, n)
      /\ Accounted(off, f, n)
  BY RingFacts
<1>2. /\ t \in Producers /\ ~SizeSet(t) /\ pc[t] = "open"
      /\ free_bytes' = free_bytes + packet[t].reserved
      /\ memory' = StoreHeader(memory, packet[t].buffer_pos, NullHeader)
      /\ mutex' = [mutex EXCEPT !["write"] = NoOwner]
      /\ packet' = [packet EXCEPT ![t] = ClosedPacket]
      /\ pc' = [pc EXCEPT ![t] = "idle"]
      /\ UNCHANGED <<cancelVars, positions, semaphores, call, cursor>>
  BY DEF CancelPacket, Cancellable, CancelRefund, Release, Goto, At
<1>3. /\ packet \in [Threads -> Packet] /\ pc \in [Threads -> ControlLocations]
      /\ mutex \in [MutexNames -> Threads \cup {NoOwner}]
      /\ call[t] = NoCall /\ t # NoOwner /\ InUse(t)
  BY <1>2, PhaseFacts DEF PlaceFits
<1>4. mutex["write"] = t /\ packet[t].buffer_pos = write_next
  BY <1>2, <1>3, BuilderHolds
<1>5. Claimed = packet[t].reserved /\ write_next = Place(off, n)
  BY <1>1, <1>3, <1>4, HolderFacts DEF Indexed, Claim
<1>6. /\ Free("write")' /\ Met' = 0 /\ Claimed' = 0 /\ RingEnd' = Place(off, n)
      /\ mutex'["write"] = NoOwner
      /\ \A m \in {"read_close", "write_close"} : mutex'[m] = mutex[m]
  BY <1>2, <1>3, <1>5 DEF Free, Met, Claimed, RingEnd, MutexNames, positions
<1>7. packet'[t].flags = {}
  BY <1>2, <1>3 DEF ClosedPacket
<1>8. Committing(t)' /\ ~InUse(t)'
  BY <1>7 DEF Committing, SizeSet, InUse
<1>9. off[n] \in Nat /\ off[f] \in Nat /\ n \in f .. n /\ free_bytes \in Int
  <2>1. n \in f .. n /\ f \in f .. n
    BY <1>1
  <2> QED
    BY <1>1, <2>1, Window DEF TypeOK
<1>10. Accounted(off, f, n)'
  <2>1. packet[t].reserved \in Nat
    BY <1>3 DEF Packet
  <2>2. /\ free_bytes' \in Int /\ Claimed \in Int /\ Claimed' \in Int
        /\ free_bytes' + Claimed' = free_bytes + Claimed
    BY <1>2, <1>5, <1>6, <1>9, <2>1
  <2> QED
    BY <1>1, <1>9, <2>2, AccountStep
<1>11. off[n] + HeaderSize + Met' <= off[f] + Size
  <2>1. off[n] + HeaderSize <= off[f] + Size
    BY <1>1, <1>9, Window
  <2> QED
    BY <1>6, <1>9, <2>1, RingAssumption
<1>12. /\ HeaderAt(off, n)' = NullHeader
       /\ \A i \in f .. n : /\ HeaderAt(off, i)'.flags = HeaderAt(off, i).flags
                            /\ i < n => HeaderAt(off, i)'.size = HeaderAt(off, i).size
  <2>1. HeaderAt(off, n).flags = {}
    BY <1>1 DEF Marked
  <2> QED
    BY <1>1, <1>2, <1>4, <1>5, <2>1, NullTail
<1>13. /\ UNCHANGED <<read_pos, write_pos, read_next, read_first, cursor, semaphores>>
       /\ \A u \in Threads \ {t} :
            packet'[u] = packet[u] /\ call'[u] = call[u] /\ pc'[u] = pc[u]
       /\ pc'[t] # "post" /\ write_next' = Place(off, n)
  BY <1>2, <1>3, <1>5 DEF positions
<1>ring. Ring(off, f, r, b, w, n)'
  BY <1>2, <1>4, <1>6, <1>8, <1>10, <1>11, <1>12, <1>13, BuilderStep
<1>kept. Kept(off, f, n)
  BY <1>12 DEF Kept
<1> QED
  BY <1>ring, <1>kept

\* memory after the data of packet i has been written from pos to len.
Filled(off, i, pos, len) ==
  StoreData(memory, (Place(off, i) + HeaderSize + pos) % Size, len - pos)

\* Data written inside a packet with a size leaves every header as it is.
LEMMA StoreInside ==
  ASSUME TypeOK, NEW off, NEW f \in Nat, NEW n \in Nat, Laid(off, f, n), f <= n,
         NEW i \in f .. n, i < n,
         NEW pos \in Nat, NEW len \in Nat, len <= HeaderAt(off, i).size,
         NEW j \in f .. n
  PROVE  Filled(off, i, pos, len)[Place(off, j)] = HeaderAt(off, j)
<1>1. /\ off[i] \in Nat /\ off[j] \in Nat /\ off[n] \in Nat /\ off[f] \in Nat
      /\ off[j] % Size \in HeaderPos /\ HeaderAt(off, i).size \in Nat
      /\ off[f] <= off[i] /\ off[f] <= off[j]
      /\ off[j] + HeaderSize <= off[f] + Size /\ off[n] + HeaderSize <= off[f] + Size
  <2>1. f \in f .. n /\ n \in f .. n
    OBVIOUS
  <2> QED
    BY <2>1, Window DEF Place
<1> DEFINE y == off[i] + (HeaderSize + pos)
<1>2. y \in Nat /\ HeaderSize + pos \in Nat /\ len - pos \in Int
  BY <1>1, RingAssumption
<1>3. (Place(off, i) + HeaderSize + pos) % Size = y % Size
  <2>1. (off[i] % Size) \in Nat
    BY <1>1, Quotient
  <2>2. (off[i] % Size) + HeaderSize + pos = (off[i] % Size) + (HeaderSize + pos)
    BY <2>1, RingAssumption
  <2>3. ((off[i] % Size) + (HeaderSize + pos)) % Size = (off[i] + (HeaderSize + pos)) % Size
    BY <1>1, <1>2, PlaceOnward
  <2> QED
    BY <2>2, <2>3 DEF Place
<1>4. y + (len - pos) = off[i] + HeaderSize + len
  BY <1>1, RingAssumption
<1>5. \A k \in f .. n : i < k => off[i] + HeaderSize + HeaderAt(off, i).size <= off[k]
  BY DEF Laid
<1>6. CASE j <= i
  <2>1. off[j] <= off[i]
    <3>1. j = i \/ j < i
      BY <1>6
    <3>2. j < i => off[j] + HeaderSize <= off[i]
      BY Window
    <3> QED
      BY <1>1, <3>1, <3>2, RingAssumption
  <2>2. off[j] + HeaderSize <= y
    BY <1>1, <2>1, RingAssumption
  <2>3. off[i] + HeaderSize + HeaderAt(off, i).size <= off[n]
    BY <1>5
  <2>4. y + (len - pos) <= off[j] + Size
    BY <1>1, <1>4, <2>3, RingAssumption
  <2> HIDE DEF y
  <2> QED
    BY <1>1, <1>2, <1>3, <2>2, <2>4, StoreDataBehind DEF HeaderAt, Place, Filled
<1>7. CASE i < j
  <2>1. off[i] + HeaderSize + HeaderAt(off, i).size <= off[j]
    BY <1>5, <1>7
  <2>2. y + (len - pos) <= off[j]
    BY <1>1, <1>4, <2>1, RingAssumption
  <2>3. off[j] + HeaderSize <= y + Size
    BY <1>1, RingAssumption
  <2> HIDE DEF y
  <2> QED
    BY <1>1, <1>2, <1>3, <2>2, <2>3, StoreDataBefore DEF HeaderAt, Place, Filled
<1> QED
  BY <1>6, <1>7

\* ps_packet_write in a packet with a size, while others are opened and closed.
LEMMA WriteSizedRing ==
  ASSUME PhaseInv, PhaseInv', ~cancelled, ~cancelled', NEW t \in Threads,
         NEW off, NEW f \in Nat, NEW r \in Nat, NEW b \in Nat, NEW w \in Nat, NEW n \in Nat,
         Ring(off, f, r, b, w, n), NEW k \in WriteSizes, WriteSized(t, k)
  PROVE  Ring(off, f, r, b, w, n)' /\ Kept(off, f, n)
<1>1. /\ TypeOK /\ f <= n
      /\ Laid(off, f, n) /\ Indexed(off, f, r, b, w, n) /\ Used(off, r, b, w, n)
      /\ Accounted(off, f, n)
      /\ ~Free("write") => mutex["write"] \in Threads
  BY RingFacts
<1> DEFINE len == packet[t].pos + k
<1>2. /\ t \in Producers /\ SizeSet(t) /\ pc[t] = "open"
      /\ len <= HeaderOf(t).size
      /\ memory' = StoreUpTo(t, len)
      /\ packet' = [packet EXCEPT ![t].pos = len]
      /\ UNCHANGED <<cancelVars, positions, free_bytes, semaphores, mutex, call, cursor, pc>>
  BY DEF WriteSized, At
<1>3. /\ packet \in [Threads -> Packet] /\ InUse(t) /\ mutex["write"] # t
      /\ packet[t].pos \in Nat
  BY <1>2, PhaseFacts DEF PlaceFits, MutexFits, Packet
<1>4. len \in Nat
  <2>1. k \in Nat
    BY SizeAssumption
  <2> QED
    BY <1>3, <2>1
<1>5. PICK i \in f .. n : i < n /\ packet[t].buffer_pos = Place(off, i)
  <2>1. PICK i \in w .. n : i < n /\ packet[t].buffer_pos = Place(off, i)
    BY <1>1, <1>2, <1>3 DEF Used
  <2>2. i \in f .. n
    BY <1>1, <2>1 DEF Indexed
  <2> QED
    BY <2>1, <2>2
<1>6. len <= HeaderAt(off, i).size
  BY <1>2, <1>5 DEF HeaderOf, HeaderAt
<1>7. \A j \in f .. n : HeaderAt(off, j)' = HeaderAt(off, j)
  <2> TAKE j \in f .. n
  <2>1. HeaderAt(off, j)' = StoreUpTo(t, len)[Place(off, j)]
    BY <1>2 DEF HeaderAt, Place
  <2> HIDE DEF len
  <2>2. StoreUpTo(t, len)[Place(off, j)] = HeaderAt(off, j)
    <3>1. StoreUpTo(t, len) = Filled(off, i, packet[t].pos, len)
      BY <1>5 DEF StoreUpTo, Filled
    <3>2. Filled(off, i, packet[t].pos, len)[Place(off, j)] = HeaderAt(off, j)
      <4>1. TypeOK /\ Laid(off, f, n) /\ f <= n
        BY <1>1
      <4>2. i \in f .. n /\ i < n
        BY <1>5
      <4>3. packet[t].pos \in Nat
        BY <1>3
      <4>4. len <= HeaderAt(off, i).size /\ len \in Nat
        BY <1>6, <1>4
      <4>5. \A p, l \in Nat :
              l <= HeaderAt(off, i).size =>
                Filled(off, i, p, l)[Place(off, j)] = HeaderAt(off, j)
        BY <4>1, <4>2, StoreInside
      <4> QED
        BY <4>3, <4>4, <4>5
    <3> QED
      BY <3>1, <3>2
  <2> QED
    BY <2>1, <2>2
<1>8. \A u \in Threads :
        /\ packet'[u].buffer_pos = packet[u].buffer_pos
        /\ packet'[u].reserved = packet[u].reserved
        /\ packet'[u].flags = packet[u].flags
  BY <1>2, <1>3 DEF Packet
<1>9. \A u \in Threads :
        /\ (InUse(u)' <=> InUse(u)) /\ (SizeSet(u)' <=> SizeSet(u))
        /\ SizeSet(u) /\ mutex["write"] = u => call'[u] = call[u]
        /\ At(u, "post")' => At(u, "post") \/ NextClosed(u)
  BY <1>2, <1>8 DEF InUse, SizeSet, At
<1>10. Accounted(off, f, n)'
  <2>1. Claimed' = Claimed
    BY <1>1, <1>2, <1>8 DEF Claimed, Free, Claim
  <2> QED
    BY <1>1, <1>2, <2>1 DEF Accounted
<1>11. UNCHANGED <<cursor, positions, semaphores>>
       /\ \A m \in {"write", "read_close", "write_close"} : mutex'[m] = mutex[m]
  BY <1>2
<1>ring. Ring(off, f, r, b, w, n)'
  BY <1>7, <1>8, <1>9, <1>10, <1>11, CallStep
<1>kept. Kept(off, f, n)
  BY <1>7 DEF Kept
<1> QED
  BY <1>ring, <1>kept

\* The list with a packet more, d bytes after packet n.
Extended(off, n, d) == [i \in Nat |-> IF i = n + 1 THEN off[n] + d ELSE off[i]]

LEMMA ExtendedReads ==
  ASSUME NEW off, NEW n \in Nat, NEW d
  PROVE  /\ Extended(off, n, d)[n + 1] = off[n] + d
         /\ \A i \in 0 .. n : Extended(off, n, d)[i] = off[i]
BY DEF Extended

\* The list off2 is off with a packet more.
Prolongs(off2, off, f, n) ==
  \A i \in f .. n : off2[i] = off[i] /\ HeaderAt(off2, i)' = HeaderAt(off, i)

\* ps_packet_setsize commits the packet: it becomes one of the list, and the header
\* after it is NULL.
LEMMA CommitSizeRing ==
  ASSUME PhaseInv, PhaseInv', ~cancelled, ~cancelled', NEW t \in Threads,
         NEW off, NEW f \in Nat, NEW r \in Nat, NEW b \in Nat, NEW w \in Nat, NEW n \in Nat,
         Ring(off, f, r, b, w, n), CommitSize(t)
  PROVE  \E off2 : Ring(off2, f, r, b, w, n + 1)' /\ Prolongs(off2, off, f, n)
<1>1. /\ TypeOK /\ f <= n
      /\ Laid(off, f, n) /\ Indexed(off, f, r, b, w, n) /\ Marked(off, f, r, b, w, n)
      /\ Used(off, r, b, w, n) /\ (\A u \in Threads : Committing(u))
      /\ Accounted(off, f, n)
      /\ Producers \subseteq Threads /\ Consumers \subseteq Threads
  BY RingFacts
<1>2. ReserveDone(t)
  BY DEF CommitSize
<1>3. /\ off[n] + HeaderSize + Claim(t) <= off[f] + Size
      /\ Claim(t) = Larger(call[t].len, packet[t].reserved)
      /\ Claim(t) \in Nat /\ call[t].len \in Nat /\ packet[t].reserved \in Nat
      /\ call[t].len <= Claim(t) /\ packet[t].reserved <= Claim(t)
      /\ mutex["write"] = t /\ t \in Producers /\ InUse(t) /\ pc[t] = "reserve"
      /\ packet[t].buffer_pos = Place(off, n)
  BY <1>2, ClaimFits
<1>4. /\ packet \in [Threads -> Packet] /\ pc \in [Threads -> ControlLocations]
      /\ mutex \in [MutexNames -> Threads \cup {NoOwner}]
      /\ call \in [Threads -> Call] /\ t # NoOwner /\ SizeSet(t) /\ NoOwner \notin Threads
  BY <1>3, PhaseFacts DEF CommitSize, CommitIsSized, InReserve
<1>5. PICK d \in Nat, len \in Nat :
        /\ len = HeaderAt(off, n).size /\ d = Footprint(Place(off, n), len)
        /\ d >= HeaderSize + len /\ call[t].len = d
        /\ write_next = (off[n] + d) % Size
  <2>1. n \in f .. n
    BY <1>1
  <2>2. off[n] \in Nat /\ Place(off, n) \in HeaderPos /\ HeaderAt(off, n).size \in Nat
    BY <1>1, <2>1, Window
  <2>3. HeaderOf(t) = HeaderAt(off, n)
    BY <1>3 DEF HeaderOf, HeaderAt
  <2>4. /\ call[t].len = Footprint(Place(off, n), HeaderAt(off, n).size)
        /\ write_next = NextPos(Place(off, n), HeaderAt(off, n).size)
    BY <1>1, <1>3, <1>4, <2>3 DEF Committing
  <2>5. NextPos(Place(off, n), HeaderAt(off, n).size)
          = (off[n] + Footprint(Place(off, n), HeaderAt(off, n).size)) % Size
    BY <2>2, NextPlace DEF Place
  <2>6. PICK len \in Nat : len = HeaderAt(off, n).size
    BY <2>2
  <2>7. Footprint(Place(off, n), len) \in Nat /\ Footprint(Place(off, n), len) >= HeaderSize + len
    BY <2>2, FootprintType
  <2> QED
    BY <2>4, <2>5, <2>6, <2>7
<1>off. PICK off2 : off2 = Extended(off, n, d)
  OBVIOUS
<1>6. /\ memory' = StoreHeader(memory, write_next, NullHeader)
      /\ free_bytes' = (free_bytes + Claim(t)) - d
      /\ packet' = [packet EXCEPT ![t].reserved = Larger(@, call[t].len)]
      /\ mutex' = [mutex EXCEPT !["write"] = NoOwner]
      /\ call' = [call EXCEPT ![t] = NoCall]
      /\ pc' = [pc EXCEPT ![t] = IF call[t].closing THEN "close" ELSE "open"]
      /\ UNCHANGED <<cancelVars, positions, semaphores, cursor>>
  <2>1. free_bytes' = free_bytes + Larger(call[t].len, packet[t].reserved) - call[t].len
    BY DEF CommitSize
  <2>2. free_bytes \in Int
    BY <1>1 DEF TypeOK
  <2>3. free_bytes' = (free_bytes + Claim(t)) - d
    BY <1>3, <1>5, <2>1, <2>2
  <2> QED
    BY <2>3 DEF CommitSize, NextHeaderSet, Release, Goto
<1>7. /\ mutex'["write"] = NoOwner
      /\ \A m \in {"read_close", "write_close"} : mutex'[m] = mutex[m]
      /\ Free("write")' /\ Met' = 0 /\ Claimed' = 0 /\ RingEnd' = write_next
  BY <1>4, <1>6 DEF MutexNames, Free, Met, Claimed, RingEnd, positions
<1>8. \A u \in Threads : /\ packet'[u].flags = packet[u].flags
                         /\ packet'[u].buffer_pos = packet[u].buffer_pos
                         /\ InUse(u)' <=> InUse(u)
  BY <1>4, <1>6 DEF Packet, InUse
\* offsets
<1>9. /\ off2[n + 1] = off[n] + d
      /\ \A i \in f .. n : off2[i] = off[i]
      /\ n + 1 \in Nat /\ n \in f .. n /\ f \in f .. n /\ n + 1 \in f .. n + 1
      /\ \A i \in f .. n + 1 : i \in f .. n \/ i = n + 1
      /\ \A i \in f .. n : i \in f .. n + 1 /\ i < n + 1
  BY <1>1, <1>off, ExtendedReads
<1>10. /\ off[n] \in Nat /\ off[f] \in Nat /\ d \in Nat /\ off2[n + 1] \in Nat
       /\ off[n] + HeaderSize + len <= off2[n + 1]
       /\ off2[n + 1] + HeaderSize <= off[f] + Size
  <2>1. off[n] \in Nat /\ off[f] \in Nat
    BY <1>1, <1>9, Window
  <2>2. off[n] + HeaderSize + d <= off[f] + Size
    BY <1>3, <1>5, <2>1, RingAssumption
  <2>3. PICK y \in Nat : y = off2[n + 1] /\ y = off[n] + d
    BY <1>9, <2>1
  <2>4. off[n] + HeaderSize + len <= y /\ y + HeaderSize <= off[f] + Size
    BY <1>5, <2>1, <2>2, <2>3, RingAssumption
  <2> QED
    BY <2>1, <2>3, <2>4
<1>11. /\ \A i \in f .. n : Place(off2, i) = Place(off, i)
       /\ Place(off2, n + 1) = write_next /\ write_next \in HeaderPos
       /\ \A i : Place(off2, i)' = Place(off2, i)
  BY <1>1, <1>5, <1>9 DEF Place, TypeOK
\* headers
<1>12. HeaderAt(off2, n + 1)' = NullHeader
  BY <1>6, <1>11, StoreHeaderReads DEF HeaderAt, Place
<1>13. \A i \in f .. n : HeaderAt(off2, i)' = HeaderAt(off, i)
  <2> TAKE i \in f .. n
  <2>1. /\ off[i] \in Nat /\ off[i] % Size \in HeaderPos
        /\ off[i] <= off[n] /\ off[f] <= off[i]
    BY <1>1, Window DEF Place
  <2>2. PICK y \in Nat : y = off2[n + 1]
    BY <1>10
  <2>3. off[i] + HeaderSize <= y
    BY <1>5, <1>10, <2>1, <2>2, RingAssumption
  <2>4. y + HeaderSize <= off[i] + Size
    BY <1>10, <2>1, <2>2, RingAssumption
  <2>5. y % Size = write_next /\ write_next \in HeaderPos
    BY <1>11, <2>2 DEF Place
  <2>6. StoreHeader(memory, y % Size, NullHeader)[off[i] % Size] = memory[off[i] % Size]
    BY <2>1, <2>3, <2>4, <2>5, StoreHeaderApart
  <2>7. HeaderAt(off2, i)' = StoreHeader(memory, write_next, NullHeader)[Place(off, i)]
    BY <1>6, <1>11 DEF HeaderAt
  <2> QED
    BY <2>5, <2>6, <2>7 DEF HeaderAt, Place

\* the parts of the ring
<1>14. Laid(off2, f, n + 1)'
  <2>1. \A i \in f .. n + 1 : off2[i] \in Nat /\ Place(off2, i)' \in HeaderPos
    BY <1>1, <1>9, <1>10, <1>11 DEF Laid
  <2>2. ASSUME NEW i \in f .. n + 1, NEW j \in f .. n + 1, i < j
        PROVE  off2[i] + HeaderSize + HeaderAt(off2, i)'.size <= off2[j]
    <3>1. i \in f .. n /\ HeaderAt(off2, i)' = HeaderAt(off, i) /\ off2[i] = off[i]
      BY <1>9, <1>13, <2>2
    <3>2. CASE j \in f .. n
      BY <1>1, <1>9, <2>2, <3>1, <3>2 DEF Laid
    <3>3. CASE j = n + 1
      <4>1. PICK x \in Nat, s \in Nat, y \in Nat, z \in Nat :
              x = off[i] /\ s = HeaderAt(off, i).size /\ y = off[n] /\ z = off2[n + 1]
        BY <1>1, <1>10, <3>1, Window
      <4>2. i = n \/ i < n
        BY <3>1
      <4>3. CASE i = n
        BY <1>5, <1>10, <3>1, <3>3, <4>1, <4>3
      <4>4. CASE i < n
        <5>1. x + HeaderSize + s <= y
          BY <1>1, <1>9, <3>1, <4>1, <4>4 DEF Laid
        <5>2. y + HeaderSize + len <= z
          BY <1>10, <4>1
        <5>3. x + HeaderSize + s <= z
          BY <5>1, <5>2, RingAssumption
        <5> QED
          BY <3>1, <3>3, <4>1, <5>3
      <4> QED
        BY <4>2, <4>3, <4>4
    <3> QED
      BY <1>9, <3>2, <3>3
  <2>3. ASSUME NEW i \in f .. n + 1, i < n + 1
        PROVE  off2[i + 1] = off2[i] + Footprint(Place(off2, i)', HeaderAt(off2, i)'.size)
    <3>1. i \in f .. n /\ HeaderAt(off2, i)' = HeaderAt(off, i) /\ off2[i] = off[i]
          /\ Place(off2, i)' = Place(off, i)
      BY <1>9, <1>11, <1>13, <2>3
    <3>2. CASE i < n
      <4>1. i + 1 \in f .. n
        BY <3>1, <3>2
      <4> QED
        BY <1>1, <1>9, <3>1, <3>2, <4>1 DEF Laid
    <3>3. CASE i = n
      BY <1>5, <1>9, <3>1, <3>3
    <3> QED
      BY <3>1, <3>2, <3>3
  <2>4. off2[n + 1] + HeaderSize + Met' <= off2[f] + Size
    BY <1>7, <1>9, <1>10, RingAssumption
  <2> QED
    BY <2>1, <2>2, <2>3, <2>4 DEF Laid
<1>15. Indexed(off2, f, r, b, w, n + 1)'
  <2>1. ReadPosted' = ReadPosted /\ WritePosted' = WritePosted
    BY <1>6, <1>7 DEF ReadPosted, WritePosted, Free, positions
  <2>2. f \in f .. n /\ r \in f .. n /\ b \in f .. n /\ w \in f .. n
    BY <1>1 DEF Indexed
  <2>3. /\ Place(off2, f)' = Place(off, f) /\ Place(off2, r)' = Place(off, r)
        /\ Place(off2, b)' = Place(off, b) /\ Place(off2, w)' = Place(off, w)
        /\ Place(off2, n + 1)' = write_next
    BY <1>11, <2>2
  <2>4. w <= n + 1 /\ UNCHANGED <<read_first, read_next, read_packets, written_packets>>
    BY <1>1, <1>6 DEF Indexed, positions, semaphores
  <2> QED
    BY <1>1, <1>7, <2>1, <2>3, <2>4 DEF Indexed
<1>16. Marked(off2, f, r, b, w, n + 1)'
  <2>1. ASSUME NEW u \in Threads, At(u, "post")'
        PROVE  NextClosed(u)'
    <3>1. u # t /\ At(u, "post")
      BY <1>4, <1>6, <2>1 DEF At
    <3>2. NextClosed(u) /\ pc[u] \in {"post", "scan"}
      BY <1>1, <3>1 DEF Marked, At
    <3>3. cursor[u] \in {Place(off, r), Place(off, w)} /\ r \in f .. n /\ w \in f .. n
      BY <1>1, <3>2, CursorPlace
    <3>4. memory'[cursor[u]] = memory[cursor[u]]
      BY <1>11, <1>13, <3>3 DEF HeaderAt
    <3> QED
      BY <1>6, <3>2, <3>4 DEF NextClosed, CloseFlag
  <2>2. NullHeader.flags = {}
    BY DEF NullHeader
  <2>3. w <= n /\ r <= n /\ b <= n
    BY <1>1 DEF Indexed
  <2>4. ASSUME NEW i \in f .. n + 1
        PROVE  /\ i < r => "READ" \in HeaderAt(off2, i)'.flags
               /\ i < w => "WRITTEN" \in HeaderAt(off2, i)'.flags
    <3>1. i < r \/ i < w => i \in f .. n
      BY <1>1, <2>3 DEF Indexed
    <3> QED
      BY <1>1, <1>13, <3>1 DEF Marked
  <2>5. \A i \in f .. n + 1 : i >= b => "READ" \notin HeaderAt(off2, i)'.flags
    BY <1>1, <1>9, <1>12, <1>13, <2>2 DEF Marked
  <2>6. write_next' = Place(off2, n + 1)'
    BY <1>6, <1>11 DEF positions
  <2> QED
    BY <1>12, <2>1, <2>2, <2>4, <2>5, <2>6 DEF Marked
<1>17. Used(off2, r, b, w, n + 1)'
  <2>1. /\ \A i \in w .. n : i \in f .. n /\ i \in w .. n + 1
        /\ \A i \in r .. b : i \in f .. n
        /\ n \in w .. n + 1
    BY <1>1 DEF Indexed
  <2>2. ASSUME NEW u \in Producers, InUse(u)', mutex'["write"] # u
        PROVE  \E i \in w .. n + 1 : i < n + 1 /\ packet'[u].buffer_pos = Place(off2, i)'
                                     /\ "WRITTEN" \notin HeaderAt(off2, i)'.flags
    <3>1. InUse(u)
      BY <1>1, <1>8, <2>2
    <3>2. CASE u = t
      <4>1. HeaderAt(off2, n)'.flags = {}
        BY <1>1, <1>9, <1>13 DEF Marked
      <4>2. packet'[t].buffer_pos = Place(off2, n)'
        BY <1>3, <1>8, <1>9, <1>11
      <4> QED
        BY <1>9, <2>1, <3>2, <4>1, <4>2
    <3>3. CASE u # t
      <4>1. PICK i \in w .. n : i < n /\ packet[u].buffer_pos = Place(off, i)
                                /\ "WRITTEN" \notin HeaderAt(off, i).flags
        BY <1>1, <1>3, <3>1, <3>3 DEF Used
      <4>2. /\ i \in f .. n /\ i \in w .. n + 1 /\ i < n + 1
            /\ Place(off2, i)' = Place(off, i) /\ HeaderAt(off2, i)' = HeaderAt(off, i)
        BY <1>9, <1>11, <1>13, <2>1, <4>1
      <4> QED
        BY <1>1, <1>8, <4>1, <4>2
    <3> QED
      BY <3>2, <3>3
  <2>3. ASSUME NEW u \in Consumers, InUse(u)'
        PROVE  \E i \in r .. b : i < b /\ packet'[u].buffer_pos = Place(off2, i)'
                                 /\ HeaderAt(off2, i)'.flags = {"WRITTEN"}
    <3>1. PICK i \in r .. b : i < b /\ packet[u].buffer_pos = Place(off, i)
                              /\ HeaderAt(off, i).flags = {"WRITTEN"}
      BY <1>1, <1>8, <2>3 DEF Used
    <3> QED
      BY <1>1, <1>8, <1>11, <1>13, <2>1, <3>1
  <2>4. \A u, v \in Threads : InUse(u)' /\ InUse(v)' /\ u # v =>
          packet'[u].buffer_pos # packet'[v].buffer_pos
    BY <1>1, <1>8 DEF Used
  <2> QED
    BY <2>2, <2>3, <2>4 DEF Used
<1>18. \A u \in Threads : Committing(u)'
  BY <1>4, <1>7 DEF Committing
<1>19. Accounted(off2, f, n + 1)'
  <2>1. PICK x \in Nat, y \in Nat, z \in Nat, c \in Nat, u \in Int, v \in Int :
          /\ x = off[f] /\ y = off[n] /\ z = off2[n + 1] /\ z = y + d /\ c = Claim(t)
          /\ u = free_bytes /\ v = free_bytes'
    <3>1. free_bytes \in Int /\ free_bytes' \in Int
      BY RingFacts DEF PhaseInv, WriterInv, TypeOK
    <3> QED
      BY <1>3, <1>9, <1>10, <3>1
  <2>2. Claimed = Claim(t)
    BY <1>1, <1>3, HolderFacts DEF Indexed
  <2>3. u <= ((Size - HeaderSize) - (y - x)) - c
        /\ (Lossless => u = ((Size - HeaderSize) - (y - x)) - c)
    BY <1>1, <2>1, <2>2 DEF Accounted
  <2>4. v = (u + c) - d
    BY <1>6, <2>1
  <2>5. v <= ((Size - HeaderSize) - (z - x)) - 0
        /\ (Lossless => v = ((Size - HeaderSize) - (z - x)) - 0)
    BY <2>1, <2>3, <2>4, RingAssumption
  <2>6. off2[f] = x
    BY <1>9, <2>1
  <2> QED
    BY <1>7, <2>1, <2>5, <2>6 DEF Accounted
<1>20. Ring(off2, f, r, b, w, n + 1)'
  BY <1>14, <1>15, <1>16, <1>17, <1>18, <1>19 DEF Ring
<1>21. Prolongs(off2, off, f, n)
  BY <1>9, <1>13 DEF Prolongs
<1> QED
  BY <1>20, <1>21

\* ps_packet_openread: the packet after the last one opened has been posted.
LEMMA ReadWaitRing ==
  ASSUME PhaseInv, PhaseInv', ~cancelled, ~cancelled', NEW t \in Threads,
         NEW off, NEW f \in Nat, NEW r \in Nat, NEW b \in Nat, NEW w \in Nat, NEW n \in Nat,
         Ring(off, f, r, b, w, n), ReadWait(t)
  PROVE  b + 1 \in Nat /\ Ring(off, f, r, b + 1, w, n)'
<1>1. /\ TypeOK /\ f <= n
      /\ Laid(off, f, n) /\ Indexed(off, f, r, b, w, n) /\ Marked(off, f, r, b, w, n)
      /\ Used(off, r, b, w, n) /\ (\A u \in Threads : Committing(u))
      /\ Accounted(off, f, n)
      /\ Producers \subseteq Threads /\ Consumers \subseteq Threads
      /\ ~Free("write") => mutex["write"] \in Threads
  BY RingFacts
<1>2. /\ pc[t] = "wait" /\ written_packets > 0
      /\ written_packets' = written_packets - 1
      /\ mutex' = [mutex EXCEPT !["read"] = NoOwner]
      /\ packet' = [packet EXCEPT ![t] =
           [flags |-> {"READ"}, buffer_pos |-> read_next, pos |-> 0, reserved |-> 0]]
      /\ read_next' = NextPos(read_next, memory[read_next].size)
      /\ pc' = [pc EXCEPT ![t] = "open"]
      /\ UNCHANGED <<read_pos, write_pos, write_next, read_first,
                     free_bytes, read_packets, memory, call, cursor>>
  BY DEF ReadWait, At, Release, Goto
<1>3. /\ packet \in [Threads -> Packet] /\ pc \in [Threads -> ControlLocations]
      /\ mutex \in [MutexNames -> Threads \cup {NoOwner}]
      /\ t \in Consumers /\ t \notin Producers
  BY <1>2, PhaseFacts DEF ReservesOwnPacket, At
<1>4. /\ \A m \in {"write", "read_close", "write_close"} : mutex'[m] = mutex[m]
      /\ packet'[t].flags = {"READ"} /\ packet'[t].buffer_pos = read_next
      /\ \A u \in Threads \ {t} : packet'[u] = packet[u]
      /\ \A u \in Threads : At(u, "post")' => At(u, "post")
  BY <1>2, <1>3 DEF MutexNames, At
<1>5. mutex["write"] # t
  BY <1>3, PhaseFacts DEF MutexFits
<1>6. /\ Met' = Met /\ Claimed' = Claimed /\ RingEnd' = RingEnd
      /\ (Free("write")' <=> Free("write"))
  BY <1>1, <1>2, <1>4, <1>5 DEF Met, Claimed, RingEnd, Free, Claim
<1>7. ReadPosted' = ReadPosted /\ WritePosted' = WritePosted
  BY <1>2, <1>4 DEF ReadPosted, WritePosted, Free
<1>8. \A i : HeaderAt(off, i)' = HeaderAt(off, i) /\ Place(off, i)' = Place(off, i)
  BY <1>2 DEF HeaderAt, Place
<1>9. b \in f .. n /\ b < n /\ b + 1 <= w /\ b + 1 \in Nat
  BY <1>1, <1>2 DEF Indexed
<1>10. Laid(off, f, n)'
  BY <1>1, <1>6, <1>8 DEF Laid
<1>11. read_next = Place(off, b) /\ read_next' = Place(off, b + 1)
  <2>1. read_next = Place(off, b)
    BY <1>1 DEF Indexed
  <2> QED
    BY <1>1, <1>2, <1>9, <2>1, PlaceAfter DEF HeaderAt
<1>12. Indexed(off, f, r, b + 1, w, n)'
  <2>1. written_packets' = w - (b + 1) /\ r <= b + 1
    BY <1>1, <1>2 DEF Indexed
  <2> QED
    BY <1>1, <1>2, <1>6, <1>7, <1>8, <1>9, <1>11, <2>1 DEF Indexed
<1>13. Marked(off, f, r, b + 1, w, n)'
  <2>1. \A u \in Threads : NextClosed(u)' <=> NextClosed(u)
    BY <1>2 DEF NextClosed, CloseFlag
  <2>2. \A i \in f .. n : i >= b + 1 => i >= b
    BY <1>9
  <2> QED
    BY <1>1, <1>2, <1>4, <1>6, <1>8, <2>1, <2>2 DEF Marked
<1>14. Used(off, r, b + 1, w, n)'
  <2>1. HeaderAt(off, b).flags = {"WRITTEN"}
    <3>1. "READ" \notin HeaderAt(off, b).flags /\ "WRITTEN" \in HeaderAt(off, b).flags
      BY <1>1, <1>9 DEF Marked
    <3>2. HeaderAt(off, b).flags \subseteq {"WRITTEN", "READ"}
      BY <1>1, <1>9, Window DEF Header, HeaderFlags
    <3> QED
      BY <3>1, <3>2
  <2>2. /\ b \in r .. b + 1 /\ b < b + 1
        /\ \A i \in r .. b : i < b => i \in r .. b + 1 /\ i < b + 1
    BY <1>1 DEF Indexed
  <2>3. \A u \in Threads \ {t} : InUse(u)' <=> InUse(u)
    BY <1>4 DEF InUse
  <2>4. ASSUME NEW u \in Producers, InUse(u)', mutex'["write"] # u
        PROVE  \E i \in w .. n : i < n /\ packet'[u].buffer_pos = Place(off, i)'
                                 /\ "WRITTEN" \notin HeaderAt(off, i)'.flags
    <3>1. u # t /\ InUse(u) /\ mutex["write"] # u
      BY <1>1, <1>3, <1>4, <2>3, <2>4
    <3>2. PICK i \in w .. n : i < n /\ packet[u].buffer_pos = Place(off, i)
                              /\ "WRITTEN" \notin HeaderAt(off, i).flags
      BY <1>1, <3>1 DEF Used
    <3> QED
      BY <1>1, <1>4, <1>8, <3>1, <3>2
  <2>5. ASSUME NEW u \in Consumers, InUse(u)'
        PROVE  \E i \in r .. b + 1 : i < b + 1 /\ packet'[u].buffer_pos = Place(off, i)'
                                     /\ HeaderAt(off, i)'.flags = {"WRITTEN"}
    <3>1. CASE u = t
      BY <1>4, <1>8, <1>11, <2>1, <2>2, <3>1
    <3>2. CASE u # t
      <4>1. PICK i \in r .. b : i < b /\ packet[u].buffer_pos = Place(off, i)
                                /\ HeaderAt(off, i).flags = {"WRITTEN"}
        BY <1>1, <2>3, <2>5, <3>2 DEF Used
      <4> QED
        BY <1>1, <1>4, <1>8, <2>2, <3>2, <4>1
    <3> QED
      BY <3>1, <3>2
  <2>6. ASSUME NEW u \in Threads \ {t}, InUse(u)
        PROVE  packet[u].buffer_pos # read_next
    <3>1. PICK i \in f .. n : i # b /\ packet[u].buffer_pos = Place(off, i)
      <4>1. CASE mutex["write"] = u
        <5>1. RingEnd = Place(off, n)
          BY <1>1 DEF Indexed
        <5>2. packet[u].buffer_pos = Place(off, n)
          BY <4>1, <5>1, HolderFacts
        <5> QED
          BY <1>1, <1>9, <5>2
      <4>2. CASE u \in Producers /\ mutex["write"] # u
        <5>1. PICK i \in w .. n : i < n /\ packet[u].buffer_pos = Place(off, i)
          BY <1>1, <2>6, <4>2 DEF Used
        <5>2. \A j \in w .. n : j \in f .. n /\ j # b
          BY <1>1, <1>9 DEF Indexed
        <5> QED
          BY <5>1, <5>2
      <4>3. CASE u \in Consumers
        <5>1. PICK i \in r .. b : i < b /\ packet[u].buffer_pos = Place(off, i)
          BY <1>1, <2>6, <4>3 DEF Used
        <5>2. \A j \in r .. b : j < b => j \in f .. n /\ j # b
          BY <1>1 DEF Indexed
        <5> QED
          BY <5>1, <5>2
      <4> QED
        BY <4>1, <4>2, <4>3 DEF Threads
    <3> QED
      BY <1>1, <1>9, <1>11, <3>1, PlacesDiffer
  <2>7. \A u, v \in Threads : InUse(u)' /\ InUse(v)' /\ u # v =>
          packet'[u].buffer_pos # packet'[v].buffer_pos
    BY <1>1, <1>4, <2>3, <2>6 DEF Used
  <2> QED
    BY <2>4, <2>5, <2>7 DEF Used
<1>15. ASSUME NEW u \in Threads
       PROVE  Committing(u)'
  <2>1. CASE u = t
    BY <1>4, <1>5, <2>1 DEF Committing
  <2>2. CASE u # t
    BY <1>1, <1>2, <1>4, <2>2 DEF Committing, SizeSet, HeaderOf
  <2> QED
    BY <2>1, <2>2
<1>16. Accounted(off, f, n)'
  BY <1>1, <1>2, <1>6 DEF Accounted
<1> QED
  BY <1>9, <1>10, <1>12, <1>13, <1>14, <1>15, <1>16 DEF Ring

\* The packet that is closed lies before the one being built, and in front of the
\* packets that the other side still needs.
LEMMA ClosingPlace ==
  ASSUME PhaseInv, ~cancelled, NEW t \in Threads, At(t, "close"),
         NEW off, NEW f \in Nat, NEW r \in Nat, NEW b \in Nat, NEW w \in Nat, NEW n \in Nat,
         Ring(off, f, r, b, w, n)
  PROVE  /\ InUse(t) /\ mutex["write"] # t
         /\ \E i \in f .. n :
              /\ i < n /\ packet[t].buffer_pos = Place(off, i)
              /\ t \in Consumers => i < b
<1>1. /\ TypeOK /\ Indexed(off, f, r, b, w, n) /\ Used(off, r, b, w, n)
  BY RingFacts
<1>2. InUse(t) /\ mutex["write"] # t
  BY PhaseFacts DEF PlaceFits, MutexFits, At
<1>3. CASE t \in Producers
  <2>1. PICK i \in w .. n : i < n /\ packet[t].buffer_pos = Place(off, i)
    BY <1>1, <1>2, <1>3 DEF Used
  <2>2. \A j \in w .. n : j \in f .. n
    BY <1>1 DEF Indexed
  <2> QED
    BY <1>2, <1>3, <2>1, <2>2, ThreadAssumption
<1>4. CASE t \in Consumers
  <2>1. PICK i \in r .. b : i < b /\ packet[t].buffer_pos = Place(off, i)
    BY <1>1, <1>2, <1>4 DEF Used
  <2>2. \A j \in r .. b : j < b => j \in f .. n /\ j < n
    BY <1>1 DEF Indexed
  <2> QED
    BY <1>2, <2>1, <2>2
<1> QED
  BY <1>3, <1>4 DEF Threads

\* ps_packet_close marks the header; the thread that goes on to post starts at the
\* shared position.
LEMMA LockCloseRing ==
  ASSUME PhaseInv, PhaseInv', ~cancelled, ~cancelled', NEW t \in Threads,
         NEW off, NEW f \in Nat, NEW r \in Nat, NEW b \in Nat, NEW w \in Nat, NEW n \in Nat,
         Ring(off, f, r, b, w, n), LockClose(t)
  PROVE  Ring(off, f, r, b, w, n)'
<1>1. /\ TypeOK /\ f <= n
      /\ Laid(off, f, n) /\ Indexed(off, f, r, b, w, n) /\ Marked(off, f, r, b, w, n)
      /\ Used(off, r, b, w, n) /\ (\A u \in Threads : Committing(u))
      /\ Accounted(off, f, n)
      /\ Producers \subseteq Threads /\ Consumers \subseteq Threads
      /\ ~Free("write") => mutex["write"] \in Threads
  BY RingFacts
<1> DEFINE pos == packet[t].buffer_pos
           lock == CloseMutex(t)
<1>2. /\ pc[t] = "close" /\ mutex[lock] = NoOwner
      /\ memory' = [memory EXCEPT ![pos].flags = @ \cup {CloseFlag(t)}]
      /\ packet' = [packet EXCEPT ![t] = ClosedPacket]
      /\ UNCHANGED <<cancelVars, positions, free_bytes, semaphores, call>>
  BY DEF LockClose, At, Free
<1>3. \/ /\ OldestOpen(t) = pos
         /\ mutex' = [mutex EXCEPT ![lock] = t]
         /\ cursor' = [cursor EXCEPT ![t] = pos]
         /\ pc' = [pc EXCEPT ![t] = "post"]
      \/ pc' = [pc EXCEPT ![t] = "idle"] /\ UNCHANGED <<mutex, cursor>>
  BY DEF LockClose, Acquire, Goto
<1>4. /\ packet \in [Threads -> Packet] /\ pc \in [Threads -> ControlLocations]
      /\ mutex \in [MutexNames -> Threads \cup {NoOwner}]
      /\ cursor \in [Threads -> HeaderPos]
      /\ memory \in [HeaderPos -> Header]
      /\ lock \in {"read_close", "write_close"} /\ t # NoOwner
      /\ t \in Producers <=> t \notin Consumers
      /\ mutex["write"] # t /\ InUse(t)
      /\ (mutex["write_close"] = t => t \in Producers)
      /\ (mutex["read_close"] = t => t \in Consumers)
  <2>1. At(t, "close")
    BY <1>2 DEF At
  <2>2. mutex["write"] # t /\ InUse(t)
    BY <2>1, ClosingPlace
  <2>3. MutexFits(t)
    BY PhaseFacts
  <2> QED
    BY <1>1, <2>2, <2>3, ThreadAssumption DEF TypeOK, CloseMutex, MutexFits, Threads
<1>5. PICK i \in f .. n : /\ i < n /\ pos = Place(off, i)
                          /\ t \in Consumers => i < b
  <2>1. At(t, "close")
    BY <1>2 DEF At
  <2> QED
    BY <2>1, ClosingPlace
\* the headers: packet i gets the flag
<1>6. /\ HeaderAt(off, i)'.flags = HeaderAt(off, i).flags \cup {CloseFlag(t)}
      /\ \A j \in f .. n : j # i => HeaderAt(off, j)' = HeaderAt(off, j)
      /\ \A j \in f .. n : /\ HeaderAt(off, j).flags \subseteq HeaderAt(off, j)'.flags
                           /\ HeaderAt(off, j)'.size = HeaderAt(off, j).size
      /\ \A j : Place(off, j)' = Place(off, j)
  <2>1. pos \in HeaderPos
    BY <1>4 DEF Packet
  <2>2. \A j \in f .. n : Place(off, j) \in HeaderPos
    BY <1>1, Window
  <2>3. \A j \in f .. n : j # i => Place(off, j) # pos
    BY <1>1, <1>5, PlacesDiffer
  <2> HIDE DEF pos
  <2>4. /\ memory'[pos].flags = memory[pos].flags \cup {CloseFlag(t)}
        /\ memory'[pos].size = memory[pos].size
        /\ \A p \in HeaderPos : p # pos => memory'[p] = memory[p]
    BY <1>2, <1>4, <2>1 DEF Header
  <2> QED
    BY <1>5, <2>2, <2>3, <2>4 DEF HeaderAt, Place
<1>7. /\ n \in f .. n /\ b \in f .. n
      /\ \A j \in w .. n : j \in f .. n
      /\ \A j \in r .. b : j \in f .. n
  BY <1>1 DEF Indexed
\* the mutexes
<1>8. /\ mutex'["write"] = mutex["write"] /\ packet'[t].flags = {}
      /\ \A u \in Threads \ {t} : packet'[u] = packet[u] /\ cursor'[u] = cursor[u]
      /\ \A u \in Threads : InUse(u)' <=> InUse(u) /\ u # t
  <2>1. packet'[t].flags = {} /\ \A u \in Threads \ {t} : packet'[u] = packet[u]
    BY <1>2, <1>4 DEF ClosedPacket
  <2>2. \A u \in Threads \ {t} : cursor'[u] = cursor[u]
    BY <1>3, <1>4
  <2>3. mutex'["write"] = mutex["write"]
    BY <1>3, <1>4 DEF MutexNames
  <2> QED
    BY <2>1, <2>2, <2>3 DEF InUse
<1>9. /\ Met' = Met /\ Claimed' = Claimed /\ RingEnd' = RingEnd
      /\ (Free("write")' <=> Free("write"))
  BY <1>1, <1>2, <1>4, <1>8 DEF Met, Claimed, RingEnd, Free, Claim, positions
<1>10. ReadPosted' = ReadPosted /\ WritePosted' = WritePosted
  <2>1. CASE UNCHANGED <<mutex, cursor>>
    BY <1>2, <2>1 DEF ReadPosted, WritePosted, Free, positions
  <2>2. CASE /\ OldestOpen(t) = pos
             /\ mutex' = [mutex EXCEPT ![lock] = t]
             /\ cursor' = [cursor EXCEPT ![t] = pos]
    <3>1. cursor'[t] = pos /\ mutex'[lock] = t
      BY <1>4, <2>2 DEF MutexNames
    <3>2. CASE t \in Producers
      <4>1. lock = "write_close" /\ pos = write_pos
        BY <2>2, <3>2 DEF CloseMutex, OldestOpen
      <4>2. mutex'["read_close"] = mutex["read_close"] /\ mutex["read_close"] # t
        BY <1>4, <2>2, <3>2, <4>1 DEF MutexNames
      <4>3. ReadPosted' = ReadPosted
        BY <1>2, <1>4, <1>8, <4>2 DEF ReadPosted, Free, positions, MutexNames
      <4>4. WritePosted' = WritePosted
        BY <1>2, <1>4, <3>1, <4>1 DEF WritePosted, Free, positions
      <4> QED
        BY <4>3, <4>4
    <3>3. CASE t \in Consumers
      <4>1. lock = "read_close" /\ pos = read_pos
        BY <1>4, <2>2, <3>3 DEF CloseMutex, OldestOpen
      <4>2. mutex'["write_close"] = mutex["write_close"] /\ mutex["write_close"] # t
        BY <1>4, <2>2, <3>3, <4>1 DEF MutexNames
      <4>3. WritePosted' = WritePosted
        BY <1>2, <1>4, <1>8, <4>2 DEF WritePosted, Free, positions, MutexNames
      <4>4. ReadPosted' = ReadPosted
        BY <1>2, <1>4, <3>1, <4>1 DEF ReadPosted, Free, positions
      <4> QED
        BY <4>3, <4>4
    <3> QED
      BY <1>4, <3>2, <3>3
  <2> QED
    BY <1>3, <2>1, <2>2
\* the parts of the ring
<1>11. Laid(off, f, n)'
  BY <1>1, <1>6, <1>9 DEF Laid
<1>12. Indexed(off, f, r, b, w, n)'
  BY <1>1, <1>2, <1>6, <1>9, <1>10 DEF Indexed, positions, semaphores
<1>13. Marked(off, f, r, b, w, n)'
  <2>1. ASSUME NEW u \in Threads, At(u, "post")'
        PROVE  NextClosed(u)'
    <3>1. CASE u = t
      <4>1. cursor'[t] = pos
        BY <1>3, <1>4, <2>1, <3>1 DEF At
      <4>2. CloseFlag(t) \in memory'[pos].flags
        BY <1>5, <1>6 DEF HeaderAt, Place
      <4> QED
        BY <3>1, <4>1, <4>2 DEF NextClosed, CloseFlag
    <3>2. CASE u # t
      <4>1. pc[u] = "post" /\ cursor'[u] = cursor[u]
        BY <1>3, <1>4, <1>8, <2>1, <3>2 DEF At
      <4>2. NextClosed(u)
        BY <1>1, <4>1 DEF Marked, At
      <4>3. cursor[u] \in {Place(off, r), Place(off, w)} /\ r \in f .. n /\ w \in f .. n
        BY <1>1, <4>1, CursorPlace
      <4>4. memory[cursor[u]].flags \subseteq memory'[cursor[u]].flags
        BY <1>6, <4>3 DEF HeaderAt, Place
      <4> QED
        BY <4>1, <4>2, <4>4 DEF NextClosed, CloseFlag
    <3> QED
      BY <3>1, <3>2
  <2>2. \A j \in f .. n : j >= b => "READ" \notin HeaderAt(off, j)'.flags
    <3> SUFFICES ASSUME NEW j \in f .. n, j >= b
                 PROVE  "READ" \notin HeaderAt(off, j)'.flags
      OBVIOUS
    <3>1. "READ" \notin HeaderAt(off, j).flags
      BY <1>1 DEF Marked
    <3>2. CASE j = i
      <4>1. t \in Producers
        BY <1>4, <1>5, <3>2
      <4> QED
        BY <1>6, <3>1, <3>2, <4>1 DEF CloseFlag
    <3>3. CASE j # i
      BY <1>6, <3>1, <3>3
    <3> QED
      BY <3>2, <3>3
  <2>3. HeaderAt(off, n)' = HeaderAt(off, n)
    BY <1>5, <1>6, <1>7
  <2> QED
    BY <1>1, <1>2, <1>6, <1>9, <2>1, <2>2, <2>3 DEF Marked, positions
<1>14. Used(off, r, b, w, n)'
  <2>1. \A u \in Threads, j \in f .. n :
          InUse(u) /\ u # t /\ packet[u].buffer_pos = Place(off, j) => j # i
    BY <1>1, <1>4, <1>5 DEF Used
  <2>2. ASSUME NEW u \in Producers, InUse(u)', mutex'["write"] # u
        PROVE  \E j \in w .. n : j < n /\ packet'[u].buffer_pos = Place(off, j)'
                                 /\ "WRITTEN" \notin HeaderAt(off, j)'.flags
    <3>1. u # t /\ InUse(u) /\ mutex["write"] # u /\ packet'[u] = packet[u]
      BY <1>1, <1>8, <2>2
    <3>2. PICK j \in w .. n : j < n /\ packet[u].buffer_pos = Place(off, j)
                              /\ "WRITTEN" \notin HeaderAt(off, j).flags
      BY <1>1, <3>1 DEF Used
    <3>3. j \in f .. n /\ j # i
      <4>1. j \in f .. n
        BY <1>7
      <4>2. u \in Threads
        BY <1>1
      <4> QED
        BY <2>1, <3>1, <3>2, <4>1, <4>2
    <3>4. HeaderAt(off, j)' = HeaderAt(off, j)
      BY <1>6, <3>3
    <3> QED
      BY <1>6, <3>1, <3>2, <3>4
  <2>3. ASSUME NEW u \in Consumers, InUse(u)'
        PROVE  \E j \in r .. b : j < b /\ packet'[u].buffer_pos = Place(off, j)'
                                 /\ HeaderAt(off, j)'.flags = {"WRITTEN"}
    <3>1. u # t /\ InUse(u) /\ packet'[u] = packet[u]
      BY <1>1, <1>8, <2>3
    <3>2. PICK j \in r .. b : j < b /\ packet[u].buffer_pos = Place(off, j)
                              /\ HeaderAt(off, j).flags = {"WRITTEN"}
      BY <1>1, <3>1 DEF Used
    <3>3. j \in f .. n /\ j # i
      <4>1. j \in f .. n
        BY <1>7
      <4>2. u \in Threads
        BY <1>1
      <4> QED
        BY <2>1, <3>1, <3>2, <4>1, <4>2
    <3>4. HeaderAt(off, j)' = HeaderAt(off, j)
      BY <1>6, <3>3
    <3> QED
      BY <1>6, <3>1, <3>2, <3>4
  <2>4. \A u, v \in Threads : InUse(u)' /\ InUse(v)' /\ u # v =>
          packet'[u].buffer_pos # packet'[v].buffer_pos
    BY <1>1, <1>8 DEF Used
  <2> QED
    BY <2>2, <2>3, <2>4 DEF Used
<1>15. ASSUME NEW u \in Threads, SizeSet(u)', mutex'["write"] = u
       PROVE  Committing(u)'
  <2>1. u # t /\ packet'[u] = packet[u] /\ mutex["write"] = u
    BY <1>4, <1>8, <1>15
  <2>2. packet[u].buffer_pos = Place(off, n)
    <3>1. RingEnd = Place(off, n)
      BY <1>1 DEF Indexed
    <3> QED
      BY <2>1, <3>1, HolderFacts
  <2>3. HeaderOf(u)' = HeaderOf(u)
    BY <1>5, <1>6, <1>7, <2>1, <2>2 DEF HeaderOf, HeaderAt, Place
  <2>4. Committing(u)
    BY <1>1
  <2> QED
    BY <1>2, <2>1, <2>3, <2>4 DEF Committing, SizeSet, positions
<1>16. \A u \in Threads : Committing(u)'
  BY <1>15 DEF Committing
<1>17. Accounted(off, f, n)'
  BY <1>1, <1>2, <1>9 DEF Accounted
<1> QED
  BY <1>11, <1>12, <1>13, <1>14, <1>16, <1>17 DEF Ring

\* A consumer that closes packets posts the one at its cursor, which has been read.
LEMMA PostReadRing ==
  ASSUME PhaseInv, PhaseInv', ~cancelled, ~cancelled', NEW t \in Consumers,
         NEW off, NEW f \in Nat, NEW r \in Nat, NEW b \in Nat, NEW w \in Nat, NEW n \in Nat,
         Ring(off, f, r, b, w, n), Post(t)
  PROVE  r + 1 \in Nat /\ Ring(off, f, r + 1, b, w, n)'
<1>1. /\ TypeOK /\ f <= n
      /\ Laid(off, f, n) /\ Indexed(off, f, r, b, w, n) /\ Marked(off, f, r, b, w, n)
      /\ Used(off, r, b, w, n) /\ (\A u \in Threads : Committing(u))
      /\ Accounted(off, f, n)
      /\ Producers \subseteq Threads /\ Consumers \subseteq Threads
      /\ t \in Threads /\ t \notin Producers
  BY RingFacts, ThreadAssumption
<1>2. /\ pc[t] = "post"
      /\ cursor' = [cursor EXCEPT ![t] = NextPos(@, memory[@].size)]
      /\ read_packets' = read_packets + 1
      /\ pc' = [pc EXCEPT ![t] = "scan"]
      /\ UNCHANGED <<cancelVars, positions, free_bytes, memory, mutex, packet, call,
                     written_packets>>
  BY <1>1 DEF Post, At, Goto
<1>3. /\ mutex["read_close"] = t /\ cursor[t] = Place(off, r) /\ CloseFlag(t) = "READ"
      /\ r \in f .. n
  <2>1. pc[t] \in {"post", "scan"}
    BY <1>2
  <2> QED
    BY <1>1, <2>1, CursorPlace DEF CloseMutex
<1>4. /\ pc \in [Threads -> ControlLocations] /\ cursor \in [Threads -> HeaderPos]
      /\ t # NoOwner /\ mutex["write_close"] # t
  <2>1. MutexFits(t)
    BY <1>1, PhaseFacts
  <2> QED
    BY <1>1, <2>1, ThreadAssumption DEF TypeOK, MutexFits
<1>5. "READ" \in HeaderAt(off, r).flags
  BY <1>1, <1>2, <1>3 DEF Marked, NextClosed, HeaderAt, At
<1>6. r < b /\ r < n /\ f <= r + 1 /\ r + 1 <= b /\ r + 1 \in Nat
  <2>1. ~(r >= b)
    BY <1>1, <1>3, <1>5 DEF Marked
  <2> QED
    BY <1>1, <2>1 DEF Indexed
<1>7. cursor'[t] = Place(off, r + 1)
  <2>1. cursor'[t] = NextPos(cursor[t], memory[cursor[t]].size)
    BY <1>1, <1>2, <1>4
  <2> QED
    BY <1>1, <1>3, <1>6, <2>1, PlaceAfter DEF HeaderAt
<1>8. ReadPosted' = Place(off, r + 1) /\ WritePosted' = WritePosted
  BY <1>2, <1>3, <1>4, <1>7 DEF ReadPosted, WritePosted, Free, positions
<1>9. /\ Met' = Met /\ Claimed' = Claimed /\ RingEnd' = RingEnd
      /\ (Free("write")' <=> Free("write"))
  BY <1>2 DEF Met, Claimed, RingEnd, Free, Claim, positions
<1>10. \A i : HeaderAt(off, i)' = HeaderAt(off, i) /\ Place(off, i)' = Place(off, i)
  BY <1>2 DEF HeaderAt, Place
<1>11. Laid(off, f, n)'
  BY <1>1, <1>9, <1>10 DEF Laid
<1>12. Indexed(off, f, r + 1, b, w, n)'
  <2>1. read_packets' = (r + 1) - f
    BY <1>1, <1>2 DEF Indexed
  <2> QED
    BY <1>1, <1>2, <1>6, <1>8, <1>9, <1>10, <2>1 DEF Indexed, positions
<1>13. Marked(off, f, r + 1, b, w, n)'
  <2>1. \A u \in Threads : At(u, "post")' => u # t /\ At(u, "post")
    BY <1>1, <1>2, <1>4 DEF At
  <2>2. \A u \in Threads \ {t} : NextClosed(u)' <=> NextClosed(u)
    BY <1>2, <1>4 DEF NextClosed, CloseFlag
  <2>3. \A i \in f .. n : i < r + 1 => i < r \/ i = r
    OBVIOUS
  <2> QED
    BY <1>1, <1>2, <1>5, <1>9, <1>10, <2>1, <2>2, <2>3 DEF Marked, positions
<1>14. Used(off, r + 1, b, w, n)'
  <2>1. ASSUME NEW u \in Consumers, InUse(u)
        PROVE  \E i \in r + 1 .. b : i < b /\ packet[u].buffer_pos = Place(off, i)
                                     /\ HeaderAt(off, i).flags = {"WRITTEN"}
    <3>1. PICK i \in r .. b : i < b /\ packet[u].buffer_pos = Place(off, i)
                              /\ HeaderAt(off, i).flags = {"WRITTEN"}
      BY <1>1, <2>1 DEF Used
    <3>2. i # r
      BY <1>5, <3>1
    <3>3. i \in r + 1 .. b
      BY <3>2
    <3> QED
      BY <3>1, <3>3
  <2> QED
    BY <1>1, <1>2, <1>10, <2>1 DEF Used, InUse
<1>15. \A u \in Threads : Committing(u)'
  BY <1>1, <1>2 DEF Committing, SizeSet, HeaderOf, positions
<1>16. Accounted(off, f, n)'
  BY <1>1, <1>2, <1>9 DEF Accounted
<1> QED
  BY <1>6, <1>11, <1>12, <1>13, <1>14, <1>15, <1>16 DEF Ring

\* A producer that closes packets posts the one at its cursor, which has been written.
LEMMA PostWrittenRing ==
  ASSUME PhaseInv, PhaseInv', ~cancelled, ~cancelled', NEW t \in Producers,
         NEW off, NEW f \in Nat, NEW r \in Nat, NEW b \in Nat, NEW w \in Nat, NEW n \in Nat,
         Ring(off, f, r, b, w, n), Post(t)
  PROVE  w + 1 \in Nat /\ Ring(off, f, r, b, w + 1, n)'
<1>1. /\ TypeOK /\ f <= n
      /\ Laid(off, f, n) /\ Indexed(off, f, r, b, w, n) /\ Marked(off, f, r, b, w, n)
      /\ Used(off, r, b, w, n) /\ (\A u \in Threads : Committing(u))
      /\ Accounted(off, f, n)
      /\ Producers \subseteq Threads /\ Consumers \subseteq Threads
      /\ t \in Threads /\ t \notin Consumers
  BY RingFacts, ThreadAssumption
<1>2. /\ pc[t] = "post"
      /\ cursor' = [cursor EXCEPT ![t] = NextPos(@, memory[@].size)]
      /\ written_packets' = written_packets + 1
      /\ pc' = [pc EXCEPT ![t] = "scan"]
      /\ UNCHANGED <<cancelVars, positions, free_bytes, memory, mutex, packet, call,
                     read_packets>>
  BY <1>1 DEF Post, At, Goto
<1>3. /\ mutex["write_close"] = t /\ cursor[t] = Place(off, w) /\ CloseFlag(t) = "WRITTEN"
      /\ w \in f .. n
  <2>1. pc[t] \in {"post", "scan"}
    BY <1>2
  <2>2. /\ mutex[CloseMutex(t)] = t
        /\ t \in Producers => cursor[t] = Place(off, w) /\ CloseFlag(t) = "WRITTEN"
        /\ w \in f .. n
    BY <1>1, <2>1, CursorPlace
  <2>3. CloseMutex(t) = "write_close"
    BY DEF CloseMutex
  <2> QED
    BY <2>2, <2>3
<1>4. /\ pc \in [Threads -> ControlLocations] /\ cursor \in [Threads -> HeaderPos]
      /\ t # NoOwner /\ mutex["read_close"] # t
  <2>1. MutexFits(t)
    BY <1>1, PhaseFacts
  <2> QED
    BY <1>1, <2>1, ThreadAssumption DEF TypeOK, MutexFits
<1>5. "WRITTEN" \in HeaderAt(off, w).flags
  BY <1>1, <1>2, <1>3 DEF Marked, NextClosed, HeaderAt, At
<1>6. w < n /\ b <= w + 1 /\ w + 1 <= n /\ w + 1 \in Nat
  <2>1. w # n
    BY <1>1, <1>5 DEF Marked
  <2> QED
    BY <1>1, <2>1 DEF Indexed
<1>7. cursor'[t] = Place(off, w + 1)
  <2>1. cursor'[t] = NextPos(cursor[t], memory[cursor[t]].size)
    BY <1>1, <1>2, <1>4
  <2> QED
    BY <1>1, <1>3, <1>6, <2>1, PlaceAfter DEF HeaderAt
<1>8. WritePosted' = Place(off, w + 1) /\ ReadPosted' = ReadPosted
  BY <1>2, <1>3, <1>4, <1>7 DEF ReadPosted, WritePosted, Free, positions
<1>9. /\ Met' = Met /\ Claimed' = Claimed /\ RingEnd' = RingEnd
      /\ (Free("write")' <=> Free("write"))
  BY <1>2 DEF Met, Claimed, RingEnd, Free, Claim, positions
<1>10. \A i : HeaderAt(off, i)' = HeaderAt(off, i) /\ Place(off, i)' = Place(off, i)
  BY <1>2 DEF HeaderAt, Place
<1>11. Laid(off, f, n)'
  BY <1>1, <1>9, <1>10 DEF Laid
<1>12. Indexed(off, f, r, b, w + 1, n)'
  <2>1. written_packets' = (w + 1) - b
    BY <1>1, <1>2 DEF Indexed
  <2> QED
    BY <1>1, <1>2, <1>6, <1>8, <1>9, <1>10, <2>1 DEF Indexed, positions
<1>13. Marked(off, f, r, b, w + 1, n)'
  <2>1. \A u \in Threads : At(u, "post")' => u # t /\ At(u, "post")
    BY <1>1, <1>2, <1>4 DEF At
  <2>2. \A u \in Threads \ {t} : NextClosed(u)' <=> NextClosed(u)
    BY <1>2, <1>4 DEF NextClosed, CloseFlag
  <2>3. \A i \in f .. n : i < w + 1 => i < w \/ i = w
    OBVIOUS
  <2> QED
    BY <1>1, <1>2, <1>5, <1>9, <1>10, <2>1, <2>2, <2>3 DEF Marked, positions
<1>14. Used(off, r, b, w + 1, n)'
  <2>1. ASSUME NEW u \in Producers, InUse(u), mutex["write"] # u
        PROVE  \E i \in w + 1 .. n : i < n /\ packet[u].buffer_pos = Place(off, i)
                                     /\ "WRITTEN" \notin HeaderAt(off, i).flags
    <3>1. PICK i \in w .. n : i < n /\ packet[u].buffer_pos = Place(off, i)
                              /\ "WRITTEN" \notin HeaderAt(off, i).flags
      BY <1>1, <2>1 DEF Used
    <3>2. i # w
      BY <1>5, <3>1
    <3>3. i \in w + 1 .. n
      BY <3>2
    <3> QED
      BY <3>1, <3>3
  <2>2. \A u \in Threads : packet'[u] = packet[u] /\ (InUse(u)' <=> InUse(u))
    BY <1>2 DEF InUse
  <2>3. \A u \in Producers : InUse(u)' /\ mutex'["write"] # u =>
          \E i \in w + 1 .. n : i < n /\ packet'[u].buffer_pos = Place(off, i)
                                /\ "WRITTEN" \notin HeaderAt(off, i)'.flags
    BY <1>1, <1>2, <1>10, <2>1, <2>2
  <2>4. \A u \in Consumers : InUse(u)' =>
          \E i \in r .. b : i < b /\ packet'[u].buffer_pos = Place(off, i)
                            /\ HeaderAt(off, i)'.flags = {"WRITTEN"}
    BY <1>1, <1>10, <2>2 DEF Used
  <2>5. \A u, v \in Threads : InUse(u)' /\ InUse(v)' /\ u # v =>
          packet'[u].buffer_pos # packet'[v].buffer_pos
    BY <1>1, <2>2 DEF Used
  <2> QED
    BY <1>10, <2>3, <2>4, <2>5 DEF Used
<1>15. \A u \in Threads : Committing(u)'
  BY <1>1, <1>2 DEF Committing, SizeSet, HeaderOf, positions
<1>16. Accounted(off, f, n)'
  BY <1>1, <1>2, <1>9 DEF Accounted
<1> QED
  BY <1>6, <1>11, <1>12, <1>13, <1>14, <1>15, <1>16 DEF Ring

\* The thread that has closed all it can stores how far it got.
LEMMA ScanEndRing ==
  ASSUME PhaseInv, PhaseInv', ~cancelled, ~cancelled', NEW t \in Threads,
         NEW off, NEW f \in Nat, NEW r \in Nat, NEW b \in Nat, NEW w \in Nat, NEW n \in Nat,
         Ring(off, f, r, b, w, n), ScanEnd(t)
  PROVE  Ring(off, f, r, b, w, n)'
<1>1. /\ TypeOK /\ f <= n
      /\ Laid(off, f, n) /\ Indexed(off, f, r, b, w, n) /\ Marked(off, f, r, b, w, n)
      /\ Used(off, r, b, w, n) /\ (\A u \in Threads : Committing(u))
      /\ Accounted(off, f, n)
      /\ Producers \subseteq Threads /\ Consumers \subseteq Threads
  BY RingFacts
<1> DEFINE lock == CloseMutex(t)
<1>2. /\ pc[t] = "scan"
      /\ IF t \in Producers
         THEN write_pos' = cursor[t] /\ UNCHANGED read_pos
         ELSE read_pos' = cursor[t] /\ UNCHANGED write_pos
      /\ mutex' = [mutex EXCEPT ![lock] = NoOwner]
      /\ cursor' = [cursor EXCEPT ![t] = 0]
      /\ pc' = [pc EXCEPT ![t] = "idle"]
      /\ UNCHANGED <<cancelVars, read_next, write_next, read_first, free_bytes,
                     semaphores, memory, packet, call>>
  BY DEF ScanEnd, At, Goto, Release
<1>3. mutex[lock] = t
  <2>1. pc[t] \in {"post", "scan"}
    BY <1>2
  <2> QED
    BY <1>1, <2>1, CursorPlace
<1>4. /\ pc \in [Threads -> ControlLocations] /\ cursor \in [Threads -> HeaderPos]
      /\ mutex \in [MutexNames -> Threads \cup {NoOwner}]
      /\ t # NoOwner /\ (t \in Producers <=> t \notin Consumers)
      /\ (mutex["write_close"] = t => t \in Producers)
      /\ (mutex["read_close"] = t => t \in Consumers)
  <2>1. MutexFits(t)
    BY <1>1, PhaseFacts
  <2> QED
    BY <1>1, <2>1, ThreadAssumption DEF TypeOK, MutexFits, Threads
<1>5. ReadPosted' = ReadPosted /\ WritePosted' = WritePosted
  <2>1. CASE t \in Producers
    <3>1. /\ lock = "write_close" /\ mutex'["write_close"] = NoOwner
          /\ mutex'["read_close"] = mutex["read_close"] /\ mutex["read_close"] # t
      BY <1>2, <1>4, <2>1 DEF CloseMutex, MutexNames
    <3>2. WritePosted = cursor[t] /\ WritePosted' = cursor[t]
      BY <1>2, <1>3, <1>4, <2>1, <3>1 DEF WritePosted, Free
    <3>3. ReadPosted' = ReadPosted
      <4>1. \A u \in Threads \ {t} : cursor'[u] = cursor[u]
        BY <1>2, <1>4
      <4>2. mutex["read_close"] \in Threads \cup {NoOwner}
        BY <1>4 DEF MutexNames
      <4> QED
        BY <1>2, <2>1, <3>1, <4>1, <4>2 DEF ReadPosted, Free
    <3> QED
      BY <3>2, <3>3
  <2>2. CASE t \notin Producers
    <3>1. /\ lock = "read_close" /\ mutex'["read_close"] = NoOwner
          /\ mutex'["write_close"] = mutex["write_close"] /\ mutex["write_close"] # t
      BY <1>2, <1>4, <2>2 DEF CloseMutex, MutexNames
    <3>2. ReadPosted = cursor[t] /\ ReadPosted' = cursor[t]
      BY <1>2, <1>3, <1>4, <2>2, <3>1 DEF ReadPosted, Free
    <3>3. WritePosted' = WritePosted
      <4>1. \A u \in Threads \ {t} : cursor'[u] = cursor[u]
        BY <1>2, <1>4
      <4>2. mutex["write_close"] \in Threads \cup {NoOwner}
        BY <1>4 DEF MutexNames
      <4> QED
        BY <1>2, <2>2, <3>1, <4>1, <4>2 DEF WritePosted, Free
    <3> QED
      BY <3>2, <3>3
  <2> QED
    BY <2>1, <2>2
<1>6. mutex'["write"] = mutex["write"]
  BY <1>2, <1>4 DEF CloseMutex, MutexNames
<1>7. /\ Met' = Met /\ Claimed' = Claimed /\ RingEnd' = RingEnd
      /\ (Free("write")' <=> Free("write"))
  BY <1>2, <1>6 DEF Met, Claimed, RingEnd, Free, Claim
<1>8. \A i : HeaderAt(off, i)' = HeaderAt(off, i) /\ Place(off, i)' = Place(off, i)
  BY <1>2 DEF HeaderAt, Place
<1>9. Laid(off, f, n)'
  BY <1>1, <1>7, <1>8 DEF Laid
<1>10. Indexed(off, f, r, b, w, n)'
  BY <1>1, <1>2, <1>5, <1>7, <1>8 DEF Indexed, semaphores
<1>11. Marked(off, f, r, b, w, n)'
  <2>1. \A u \in Threads : At(u, "post")' => u # t /\ At(u, "post")
    BY <1>2, <1>4 DEF At
  <2>2. \A u \in Threads \ {t} : NextClosed(u)' <=> NextClosed(u)
    BY <1>2, <1>4 DEF NextClosed, CloseFlag
  <2> QED
    BY <1>1, <1>2, <1>7, <1>8, <2>1, <2>2 DEF Marked
<1>12. Used(off, r, b, w, n)'
  BY <1>1, <1>2, <1>6, <1>8 DEF Used, InUse
<1>13. \A u \in Threads : Committing(u)'
  BY <1>1, <1>2, <1>6 DEF Committing, SizeSet, HeaderOf
<1>14. Accounted(off, f, n)'
  BY <1>1, <1>2, <1>7 DEF Accounted
<1> QED
  BY <1>9, <1>10, <1>11, <1>12, <1>13, <1>14 DEF Ring

-----------------------------------------------------------------------------
(* The ring is an invariant.                                               *)

\* A step of a thread, whichever it is.
LEMMA StepRing ==
  ASSUME PhaseInv, PhaseInv', ~cancelled, ~cancelled', CommitUninterrupted, NEW t \in Threads,
         NEW off, NEW f \in Nat, NEW r \in Nat, NEW b \in Nat, NEW w \in Nat, NEW n \in Nat,
         Ring(off, f, r, b, w, n), Open(t) \/ ThreadStep(t) \/ ThreadEvent(t)
  PROVE  \E off2 : \E f2, r2, b2, w2, n2 \in Nat : Ring(off2, f2, r2, b2, w2, n2)'
<1> DEFINE Goes ==
            \E off2 : \E f2, r2, b2, w2, n2 \in Nat : Ring(off2, f2, r2, b2, w2, n2)'
<1> SUFFICES Goes
  OBVIOUS
<1>1. ASSUME Ring(off, f, r, b, w, n)'
      PROVE  Goes
  BY <1>1
<1>2. CASE \/ Open(t) \/ OpenBusy(t) \/ OpenRead(t) \/ ReadWaitFails(t) \/ Kill(t)
           \/ ScanOn(t)
           \/ ReserveDrain(t) /\ ~(read_packets > 0)
           \/ Close(t) /\ (t \in Consumers \/ SizeSet(t))
  BY <1>1, <1>2, QuietRing
<1>3. CASE \/ \E k \in WriteSizes : Write(t, k)
           \/ \E k \in SetSizes : SetSize(t, k)
           \/ Close(t) /\ ~(t \in Consumers \/ SizeSet(t))
           \/ ReserveBusy(t) \/ ReserveInterrupted(t)
  BY <1>1, <1>3, ClaimRing
<1>4. CASE ReserveWait(t) \/ (ReserveDrain(t) /\ read_packets > 0)
  <2>1. f + 1 \in Nat /\ Ring(off, f + 1, r, b, w, n)'
    BY <1>4, ConsumeRing
  <2> QED
    BY <2>1
<1>5. CASE OpenWrite(t)
  BY <1>1, <1>5, OpenWriteRing
<1>6. CASE ReadWait(t)
  <2>1. b + 1 \in Nat /\ Ring(off, f, r, b + 1, w, n)'
    BY <1>6, ReadWaitRing
  <2> QED
    BY <2>1
<1>7. CASE FinishWrite(t)
  BY <1>1, <1>7, FinishWriteRing
<1>8. CASE FinishSetSize(t)
  BY <1>1, <1>8, FinishSetSizeRing
<1>9. CASE CommitSize(t)
  <2>1. \E off2 : Ring(off2, f, r, b, w, n + 1)'
    BY <1>9, CommitSizeRing
  <2> QED
    BY <2>1
<1>10. CASE \E k \in WriteSizes : WriteSized(t, k)
  BY <1>1, <1>10, WriteSizedRing
<1>11. CASE CancelPacket(t)
  BY <1>1, <1>11, CancelPacketRing
<1>12. CASE LockClose(t)
  BY <1>1, <1>12, LockCloseRing
<1>13. CASE Post(t)
  <2>1. CASE t \in Producers
    <3>1. w + 1 \in Nat /\ Ring(off, f, r, b, w + 1, n)'
      BY <1>13, <2>1, PostWrittenRing
    <3> QED
      BY <3>1
  <2>2. CASE t \in Consumers
    <3>1. r + 1 \in Nat /\ Ring(off, f, r + 1, b, w, n)'
      BY <1>13, <2>2, PostReadRing
    <3> QED
      BY <3>1
  <2> QED
    BY <2>1, <2>2 DEF Threads
<1>14. CASE ScanEnd(t)
  BY <1>1, <1>14, ScanEndRing
<1> HIDE DEF Goes
<1>15. \/ Open(t) \/ OpenBusy(t) \/ OpenWrite(t) \/ OpenRead(t)
       \/ ReadWait(t) \/ ReadWaitFails(t)
       \/ ReserveWait(t) \/ ReserveDrain(t) \/ ReserveBusy(t) \/ ReserveInterrupted(t)
       \/ FinishWrite(t) \/ FinishSetSize(t) \/ CommitSize(t)
       \/ (\E k \in WriteSizes : Write(t, k)) \/ (\E k \in WriteSizes : WriteSized(t, k))
       \/ (\E k \in SetSizes : SetSize(t, k)) \/ CancelPacket(t)
       \/ Close(t) \/ LockClose(t) \/ Post(t) \/ ScanOn(t) \/ ScanEnd(t) \/ Kill(t)
  BY ThreadSteps DEF WriteCall, CloseStep
<1> QED
  BY <1>2, <1>3, <1>4, <1>5, <1>6, <1>7, <1>8, <1>9, <1>10, <1>11, <1>12, <1>13, <1>14,
     <1>15

\* The list starts with the packet at 0, which is still to be built.
LEMMA InitRing == Init => RingInv
<1> SUFFICES ASSUME Init
             PROVE  RingInv
  OBVIOUS
<1> USE RingAssumption
<1>1. PICK off : off = [i \in Nat |-> 0]
  OBVIOUS
<1>2. TypeOK /\ PhaseInv
  BY InitType, InitPhase
<1>3. 0 \in HeaderPos /\ 0 % Size = 0
  BY DEF HeaderPos
<1>4. Place(off, 0) = 0 /\ HeaderAt(off, 0) = NullHeader
  BY <1>1, <1>3 DEF Place, HeaderAt, Init
<1>5. Free("write") /\ Free("read_close") /\ Free("write_close")
  BY DEF Free, Init, MutexNames
<1>6. Met = 0 /\ Claimed = 0 /\ ReadPosted = 0 /\ WritePosted = 0 /\ RingEnd = 0
  BY <1>5 DEF Met, Claimed, ReadPosted, WritePosted, RingEnd, Init
<1>7. \A t \in Threads : ~InUse(t) /\ ~SizeSet(t) /\ ~At(t, "post")
  BY DEF InUse, SizeSet, At, Init, ClosedPacket
<1>8. 0 .. 0 = {0} /\ 0 \in Nat
  OBVIOUS
<1>9. Laid(off, 0, 0)
  BY <1>1, <1>3, <1>4, <1>6, <1>8 DEF Laid
<1>10. Indexed(off, 0, 0, 0, 0, 0)
  BY <1>4, <1>6 DEF Indexed, Init
<1>11. Marked(off, 0, 0, 0, 0, 0)
  BY <1>4, <1>7, <1>8 DEF Marked, NullHeader, Init
<1>12. Used(off, 0, 0, 0, 0) /\ \A t \in Threads : Committing(t)
  BY <1>7 DEF Used, Committing, Threads
<1>13. Accounted(off, 0, 0)
  BY <1>1, <1>6 DEF Accounted, Init
<1> QED
  BY <1>2, <1>8, <1>9, <1>10, <1>11, <1>12, <1>13 DEF RingInv, Ring

LEMMA NextRing == CommitUninterrupted /\ RingInv /\ [Next]_vars => RingInv'
<1> SUFFICES ASSUME CommitUninterrupted, RingInv, [Next]_vars
             PROVE  RingInv'
  OBVIOUS
<1>1. PhaseInv /\ PhaseInv' /\ CancelOrder
  BY NextPhase DEF RingInv, PhaseInv, WriterInv
<1>2. CASE cancelled'
  BY <1>1, <1>2 DEF RingInv
<1>3. CASE ~cancelled'
  <2>1. ~cancelled
    BY <1>1, <1>3, CancelledStays
  <2>2. PICK off : \E f, r, b, w, n \in Nat : Ring(off, f, r, b, w, n)
    BY <2>1 DEF RingInv
  <2>3. PICK f \in Nat, r \in Nat, b \in Nat, w \in Nat, n \in Nat :
          Ring(off, f, r, b, w, n)
    BY <2>2
  <2>4. \E off2 : \E f2, r2, b2, w2, n2 \in Nat : Ring(off2, f2, r2, b2, w2, n2)'
    <3>1. ASSUME NEW t \in Threads, Open(t) \/ ThreadStep(t) \/ ThreadEvent(t)
          PROVE  \E off2 : \E f2, r2, b2, w2, n2 \in Nat : Ring(off2, f2, r2, b2, w2, n2)'
      BY <1>1, <1>3, <2>1, <2>3, <3>1, StepRing
    <3>2. CASE UNCHANGED vars
      <4>1. Ring(off, f, r, b, w, n)'
        BY <2>3, <3>2
           DEF vars, cancelVars, ringVars, positions, semaphores, threadVars, Ring, Laid,
               Indexed, Marked, Used, Committing, Accounted, Place, HeaderAt, Met, Claimed,
               ReadPosted, WritePosted, RingEnd, Claim, Free, InUse, SizeSet, HeaderOf, At,
               NextClosed
      <4> QED
        BY <4>1
    <3> QED
      BY <1>1, <1>3, <3>1, <3>2, CancelledStays
  <2> QED
    BY <1>1, <2>4 DEF RingInv
<1> QED
  BY <1>2, <1>3

\* The packets lie in the ring as described, whatever the threads do.
THEOREM RingCorrect == CommitUninterrupted => (Spec => []RingInv)
<1>1. CommitUninterrupted /\ Init => CommitUninterrupted /\ RingInv
  BY InitRing
<1>2. CommitUninterrupted /\ RingInv /\ [Next]_vars => (CommitUninterrupted /\ RingInv)'
  BY NextRing DEF CommitUninterrupted
<1> QED
  BY <1>1, <1>2, PTL DEF Spec
=============================================================================
