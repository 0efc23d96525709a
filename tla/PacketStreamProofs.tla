------------------------- MODULE PacketStreamProofs -------------------------
(***************************************************************************)
(* Theorems about PacketStream for any number of threads, any size of the  *)
(* data area and of a header, and any sequence of calls.                   *)
(***************************************************************************)
EXTENDS PacketStreamProperties, PacketRingProofs

-----------------------------------------------------------------------------
(* Type correctness, one lemma per part of the code.                       *)

LEMMA ReturnsIdleType ==
  ASSUME TypeOK, NEW t \in Threads, ReturnsIdle(t)
  PROVE  TypeOK'
BY DEF TypeOK, ReturnsIdle, Goto, ControlLocations, cancelVars, ringVars,
       positions, semaphores

\* ps_packet_open
LEMMA OpenType ==
  ASSUME TypeOK, NEW t \in Threads,
         Open(t) \/ OpenBusy(t) \/ OpenCancelled(t) \/ OpenWrite(t) \/ OpenRead(t)
           \/ ReadWait(t) \/ ReadWaitFails(t)
  PROVE  TypeOK'
<1> USE DEF TypeOK, Goto, ControlLocations, Acquire, Release, MutexNames, Threads,
            cancelVars, ringVars, positions, semaphores
<1>1. CASE Open(t)
  BY <1>1 DEF Open
<1>2. CASE OpenBusy(t) \/ OpenCancelled(t)
  BY <1>2, ReturnsIdleType DEF OpenBusy, OpenCancelled
<1>3. CASE OpenWrite(t)
  <2>1. memory' \in [HeaderPos -> Header]
    BY <1>3, StoreType, NullHeaderType DEF OpenWrite
  <2>2. packet' \in [Threads -> Packet]
    BY <1>3 DEF OpenWrite, Packet, PacketFlags, OpenFlags
  <2> QED
    BY <1>3, <2>1, <2>2 DEF OpenWrite
<1>4. CASE OpenRead(t)
  BY <1>4 DEF OpenRead
<1>5. CASE ReadWait(t)
  <2>1. memory[read_next].size \in Nat
    BY DEF Header
  <2>2. NextPos(read_next, memory[read_next].size) \in HeaderPos
    BY <2>1, NextPosType
  <2>3. read_next' \in HeaderPos
    BY <1>5, <2>2 DEF ReadWait
  <2>4. packet' \in [Threads -> Packet]
    BY <1>5 DEF ReadWait, Packet, PacketFlags
  <2> QED
    BY <1>5, <2>3, <2>4 DEF ReadWait
<1>6. CASE ReadWaitFails(t)
  BY <1>6 DEF ReadWaitFails
<1> QED
  BY <1>1, <1>2, <1>3, <1>4, <1>5, <1>6

\* Taking the oldest packet off the ring.
LEMMA ConsumeOldestType ==
  ASSUME TypeOK, ConsumeOldest
  PROVE  free_bytes' \in Int /\ read_first' \in HeaderPos
<1>1. memory[read_first].size \in Nat
  BY DEF TypeOK, Header
<1>2. /\ Footprint(read_first, memory[read_first].size) \in Nat
      /\ NextPos(read_first, memory[read_first].size) \in HeaderPos
  BY <1>1, FootprintType, NextPosType DEF TypeOK
<1> QED
  BY <1>2 DEF ConsumeOldest, TypeOK

\* The call of ps_packet_reserve.
LEMMA CallReserveType ==
  ASSUME TypeOK, NEW t \in Threads, NEW op \in {"write", "setsize", "commit"},
         NEW len \in Nat, NEW reserved \in Nat, NEW closing \in BOOLEAN,
         CallReserve(t, op, len, reserved, closing)
  PROVE  /\ call' \in [Threads -> Call]
         /\ free_bytes' \in Int
         /\ pc' \in [Threads -> ControlLocations]
BY DEF CallReserve, TypeOK, Call, Goto, ControlLocations, Larger

LEMMA NoCallType == NoCall \in Call
BY DEF NoCall, Call

LEMMA MissingType ==
  ASSUME TypeOK, NEW t \in Threads
  PROVE  Missing(t) \in Nat
<1>1. call[t].len \in Nat /\ packet[t].reserved \in Nat
  BY DEF TypeOK, Call, Packet
<1> QED
  BY <1>1 DEF Missing, Larger

LEMMA ReserveFailsType ==
  ASSUME TypeOK, NEW t \in Threads, ReserveFails(t), free_bytes' \in Int
  PROVE  TypeOK'
BY NoCallType DEF TypeOK, ReserveFails, Goto, ControlLocations, cancelVars,
       positions, semaphores

\* ps_packet_reserve
LEMMA ReserveType ==
  ASSUME TypeOK, NEW t \in Threads, ReserveStep(t) \/ ReserveInterrupted(t)
  PROVE  TypeOK'
<1> USE DEF TypeOK, Goto, ControlLocations, Release, MutexNames, cancelVars,
            positions, semaphores
<1>1. CASE ReserveWait(t)
  <2>1. ConsumeOldest
    BY <1>1 DEF ReserveWait
  <2> QED
    BY <1>1, <2>1, ConsumeOldestType DEF ReserveWait
<1>2. CASE ReserveCancelled(t)
  BY <1>2, NoCallType DEF ReserveCancelled
<1>3. CASE ReserveDrain(t)
  <2>1. CASE read_packets > 0
    <3>1. ConsumeOldest
      BY <1>3, <2>1 DEF ReserveDrain
    <3> QED
      BY <1>3, <2>1, <3>1, ConsumeOldestType DEF ReserveDrain
  <2>2. CASE ~(read_packets > 0)
    BY <1>3, <2>2 DEF ReserveDrain
  <2> QED
    BY <2>1, <2>2
<1>4. CASE ReserveBusy(t)
  <2>1. free_bytes' \in Int
    BY <1>4, MissingType DEF ReserveBusy, GivenBack
  <2> QED
    BY <1>4, <2>1, ReserveFailsType DEF ReserveBusy
<1>5. CASE ReserveInterrupted(t)
  BY <1>5, ReserveFailsType DEF ReserveInterrupted
<1> QED
  BY <1>1, <1>2, <1>3, <1>4, <1>5 DEF ReserveStep

\* ps_packet_write
LEMMA WriteType ==
  ASSUME TypeOK, NEW t \in Threads,
         FinishWrite(t) \/ \E n \in WriteSizes : Write(t, n) \/ WriteSized(t, n)
  PROVE  TypeOK'
<1> USE DEF TypeOK, Goto, ControlLocations, cancelVars, positions, semaphores
<1>1. /\ packet[t] \in Packet
      /\ packet[t].pos \in Nat
      /\ packet[t].reserved \in Nat
      /\ packet[t].buffer_pos \in HeaderPos
      /\ call[t].len \in Nat
  BY DEF Packet, Call
<1>2. CASE FinishWrite(t)
  <2> DEFINE len == call[t].len
             m == StoreUpTo(t, len)
             bp == packet[t].buffer_pos
  <2>1. m \in [HeaderPos -> Header]
    BY StoreType, NullHeaderType DEF StoreUpTo
  <2>2. memory' = [m EXCEPT ![bp].size = Larger(@, len)]
    BY <1>2 DEF FinishWrite
  <2>3. m[bp].size \in Nat
    BY <1>1, <2>1 DEF Header
  <2>4. Larger(m[bp].size, len) \in Nat
    BY <1>1, <2>3 DEF Larger
  <2>5. memory' \in [HeaderPos -> Header]
    <3> HIDE DEF m
    <3> QED
      BY <1>1, <2>1, <2>2, <2>4 DEF Header
  <2>6. packet' \in [Threads -> Packet]
    BY <1>1, <1>2 DEF FinishWrite, Packet, Larger
  <2> QED
    BY <1>2, <2>5, <2>6, NoCallType DEF FinishWrite
<1>3. ASSUME NEW n \in WriteSizes, Write(t, n)
      PROVE  TypeOK'
  <2>1. packet[t].pos + n \in Nat
    BY <1>1, SizeAssumption
  <2>2. CallReserve(t, "write", packet[t].pos + n, packet[t].reserved, FALSE)
    BY <1>3 DEF Write
  <2> QED
    BY <1>1, <1>3, <2>1, <2>2, CallReserveType DEF Write
<1>4. ASSUME NEW n \in WriteSizes, WriteSized(t, n)
      PROVE  TypeOK'
  <2>1. packet[t].pos + n \in Nat
    BY <1>1, SizeAssumption
  <2>2. memory' \in [HeaderPos -> Header]
    BY <1>4, StoreType, NullHeaderType DEF WriteSized, StoreUpTo
  <2>3. packet' \in [Threads -> Packet]
    BY <1>1, <1>4, <2>1 DEF WriteSized, Packet
  <2> QED
    BY <1>4, <2>2, <2>3 DEF WriteSized
<1> QED
  BY <1>2, <1>3, <1>4

\* ps_packet_setsize and ps_packet_cancel
LEMMA SetSizeType ==
  ASSUME TypeOK, NEW t \in Threads,
         FinishSetSize(t) \/ CommitSize(t) \/ CancelPacket(t)
           \/ \E n \in SetSizes : SetSize(t, n)
  PROVE  TypeOK'
<1> USE DEF TypeOK, Goto, ControlLocations, Release, MutexNames, cancelVars,
            positions, semaphores
<1>1. /\ packet[t] \in Packet
      /\ packet[t].reserved \in Nat
      /\ packet[t].buffer_pos \in HeaderPos
      /\ call[t].len \in Nat
      /\ call[t].closing \in BOOLEAN
  BY DEF Packet, Call
<1>2. ASSUME NEW n \in SetSizes, SetSize(t, n)
      PROVE  TypeOK'
  <2>1. n \in Nat
    <3>1. n \in 0 .. MaxSize
      BY SizeAssumption
    <3> QED
      BY <3>1
  <2>2. CallReserve(t, "setsize", n, packet[t].reserved, FALSE)
    BY <1>2 DEF SetSize
  <2> QED
    BY <1>1, <1>2, <2>1, <2>2, CallReserveType DEF SetSize
<1>3. CASE FinishSetSize(t)
  <2> DEFINE size == call[t].len
             reserved == Larger(size, packet[t].reserved)
  <2>1. reserved \in Nat
    BY <1>1 DEF Larger
  <2>2. Footprint(write_next, size) \in Nat /\ NextPos(write_next, size) \in HeaderPos
    BY <1>1, FootprintType, NextPosType
  <2>3. CallReserve(t, "commit", Footprint(write_next, size), reserved,
                    call[t].closing)
    BY <1>3 DEF FinishSetSize
  <2>4. /\ call' \in [Threads -> Call]
        /\ free_bytes' \in Int
        /\ pc' \in [Threads -> ControlLocations]
    BY <1>1, <2>1, <2>2, <2>3, CallReserveType
  <2>5. memory' \in [HeaderPos -> Header]
    BY <1>1, <1>3 DEF FinishSetSize, Header
  <2>6. packet' \in [Threads -> Packet]
    BY <1>1, <1>3, <2>1 DEF FinishSetSize, Packet, PacketFlags
  <2> QED
    BY <1>3, <2>2, <2>4, <2>5, <2>6 DEF FinishSetSize
<1>4. CASE CommitSize(t)
  <2>1. memory' \in [HeaderPos -> Header]
    BY <1>4, StoreType, NullHeaderType DEF CommitSize, NextHeaderSet
  <2>2. Larger(packet[t].reserved, call[t].len) \in Nat
        /\ Larger(call[t].len, packet[t].reserved) \in Nat
    BY <1>1 DEF Larger
  <2>3. packet' \in [Threads -> Packet]
    BY <1>1, <1>4, <2>2 DEF CommitSize, Packet
  <2>4. free_bytes' \in Int
    BY <1>1, <1>4, <2>2 DEF CommitSize
  <2> QED
    BY <1>4, <2>1, <2>3, <2>4, NoCallType DEF CommitSize
<1>5. CASE CancelPacket(t)
  <2>1. memory' \in [HeaderPos -> Header]
    BY <1>5, StoreType, NullHeaderType DEF CancelPacket
  <2>2. packet' \in [Threads -> Packet]
    BY <1>5, RingAssumption DEF CancelPacket, ClosedPacket, Packet, HeaderPos
  <2>3. free_bytes' \in Int
    BY <1>1, <1>5 DEF CancelPacket, CancelRefund
  <2> QED
    BY <1>5, <2>1, <2>2, <2>3 DEF CancelPacket
<1> QED
  BY <1>2, <1>3, <1>4, <1>5

LEMMA ClosedPacketType == ClosedPacket \in Packet /\ 0 \in HeaderPos
BY RingAssumption DEF ClosedPacket, Packet, HeaderPos

\* ps_packet_close
LEMMA CloseType ==
  ASSUME TypeOK, NEW t \in Threads,
         Close(t) \/ CloseStep(t) \/ DestroyPacket(t) \/ Kill(t)
  PROVE  TypeOK'
<1> USE DEF TypeOK, Goto, ControlLocations, Acquire, Release, MutexNames,
            CloseMutex, cancelVars, ringVars, positions, semaphores
<1>1. /\ packet[t] \in Packet
      /\ packet[t].reserved \in Nat
      /\ packet[t].buffer_pos \in HeaderPos
      /\ HeaderOf(t).size \in Nat
  BY DEF Packet, HeaderOf, Header
<1>2. CASE Close(t)
  <2>1. packet' \in [Threads -> Packet]
    BY <1>1, <1>2 DEF Close, Packet, PacketFlags
  <2>2. CASE t \in Consumers \/ SizeSet(t)
    BY <1>2, <2>1, <2>2 DEF Close
  <2>3. CASE ~(t \in Consumers \/ SizeSet(t))
    <3>1. CallReserve(t, "setsize", HeaderOf(t).size, packet[t].reserved, TRUE)
      BY <1>2, <2>3 DEF Close
    <3> QED
      BY <1>1, <1>2, <2>1, <3>1, CallReserveType DEF Close
  <2> QED
    BY <2>2, <2>3
<1>3. CASE LockClose(t)
  <2>1. memory' \in [HeaderPos -> Header]
    BY <1>1, <1>3 DEF LockClose, Header, HeaderFlags, CloseFlag
  <2>2. packet' \in [Threads -> Packet]
    BY <1>3, ClosedPacketType DEF LockClose
  <2>3. /\ mutex' \in [MutexNames -> Threads \cup {NoOwner}]
        /\ cursor' \in [Threads -> HeaderPos]
        /\ pc' \in [Threads -> ControlLocations]
    BY <1>1, <1>3 DEF LockClose
  <2> QED
    BY <1>3, <2>1, <2>2, <2>3 DEF LockClose
<1>4. CASE Post(t)
  <2>1. cursor[t] \in HeaderPos /\ memory[cursor[t]].size \in Nat
    BY DEF Header
  <2>2. NextPos(cursor[t], memory[cursor[t]].size) \in HeaderPos
    BY <2>1, NextPosType
  <2>3. cursor' \in [Threads -> HeaderPos]
    BY <1>4, <2>2 DEF Post
  <2> QED
    BY <1>4, <2>3 DEF Post
<1>5. CASE ScanOn(t)
  BY <1>5 DEF ScanOn
<1>6. CASE ScanEnd(t)
  BY <1>6, ClosedPacketType DEF ScanEnd
<1>7. CASE DestroyPacket(t)
  BY <1>7, ClosedPacketType DEF DestroyPacket
<1>8. CASE Kill(t)
  BY <1>8 DEF Kill
<1> QED
  BY <1>2, <1>3, <1>4, <1>5, <1>6, <1>7, <1>8 DEF CloseStep

LEMMA BufferCancelType ==
  ASSUME TypeOK, BufferCancel
  PROVE  TypeOK'
<1> USE DEF TypeOK, CancelStep, CancelSteps, Release, MutexNames, ringVars,
            positions, semaphores, threadVars
<1>1. CASE CancelFlag
  BY <1>1 DEF CancelFlag
<1>2. CASE CancelPostRead
  BY <1>2 DEF CancelPostRead
<1>3. CASE CancelPostWritten
  BY <1>3 DEF CancelPostWritten, Posted
<1>4. CASE CancelUnlockRead
  BY <1>4 DEF CancelUnlockRead
<1>5. CASE CancelUnlockWrite
  BY <1>5 DEF CancelUnlockWrite
<1> QED
  BY <1>1, <1>2, <1>3, <1>4, <1>5 DEF BufferCancel

LEMMA InitType == Init => TypeOK
<1> SUFFICES ASSUME Init
             PROVE  TypeOK
  OBVIOUS
<1>1. free_bytes \in Int /\ mutex \in [MutexNames -> Threads \cup {NoOwner}]
  BY RingAssumption DEF Init
<1>2. memory \in [HeaderPos -> Header]
  BY NullHeaderType DEF Init
<1>3. packet \in [Threads -> Packet] /\ cursor \in [Threads -> HeaderPos]
  BY ClosedPacketType DEF Init
<1>4. call \in [Threads -> Call]
  BY NoCallType DEF Init
<1>5. pc \in [Threads -> ControlLocations] /\ cancelStep \in CancelSteps
  BY DEF Init, ControlLocations, CancelSteps
<1> QED
  BY <1>1, <1>2, <1>3, <1>4, <1>5, ClosedPacketType DEF Init, TypeOK

LEMMA NextType == TypeOK /\ [Next]_vars => TypeOK'
<1> SUFFICES ASSUME TypeOK, [Next]_vars
             PROVE  TypeOK'
  OBVIOUS
<1>1. ASSUME NEW t \in Threads, Open(t) \/ ThreadStep(t) \/ ThreadEvent(t)
      PROVE  TypeOK'
  BY <1>1, OpenType, ReserveType, WriteType, SetSizeType, CloseType
     DEF ThreadStep, ThreadEvent, WriteCall
<1>2. CASE BufferCancel
  BY <1>2, BufferCancelType
<1>3. CASE UNCHANGED vars
  BY <1>3 DEF TypeOK, vars, cancelVars, ringVars, positions, semaphores, threadVars
<1> QED
  BY <1>1, <1>2, <1>3 DEF Next

\* Every variable keeps its type; in particular no position ever points to
\* where a header would run over the end of the data area.
THEOREM TypeCorrect == Spec => []TypeOK
BY InitType, NextType, PTL DEF Spec

-----------------------------------------------------------------------------
(* The producer that builds a packet stays at write_next.                  *)
(*                                                                         *)
(* WriterAtTail is not inductive: that nobody else is building a packet    *)
(* when one is opened, and that write_next only moves for the one that is  *)
(* built, follows from who holds write_mutex inside ps_packet_reserve,     *)
(* where a packet is either without a size or on its way to commit one.    *)

\* ps_buffer_cancel sets the flag before it touches the mutexes.
CancelOrder == ~cancelled => cancelStep = "none"

InReserve(t) == pc[t] \in {"reserve", "drain"}

\* Only producers reserve space, and with a packet open for writing.
ReservesOwnPacket(t) ==
  /\ At(t, "wait") => t \in Consumers
  /\ InReserve(t) => t \in Producers
  /\ t \in Producers /\ (InReserve(t) \/ At(t, "open")) =>
       "WRITE" \in packet[t].flags

ReserveHoldsMutex(t) ==
  ~cancelled /\ InReserve(t) => mutex["write"] = t

\* The second call of ps_packet_reserve in ps_packet_setsize.
CommitIsSized(t) ==
  InReserve(t) /\ call[t].op = "commit" => SizeSet(t)

BuildsAtTail(t) ==
  ~cancelled /\ Building(t) =>
    mutex["write"] = t /\ packet[t].buffer_pos = write_next

WriterThread(t) ==
  /\ ReservesOwnPacket(t)
  /\ ReserveHoldsMutex(t)
  /\ CommitIsSized(t)
  /\ BuildsAtTail(t)

WriterInv ==
  /\ TypeOK
  /\ CancelOrder
  /\ \A t \in Threads : WriterThread(t)

\* A step of one thread that moves the tail or gives up write_mutex only while
\* it holds write_mutex, or takes it when it is free, leaves the others alone.
LEMMA OtherWriters ==
  ASSUME WriterInv, NEW t \in Threads, NEW u \in Threads, u # t,
         cancelled' = cancelled,
         packet'[u] = packet[u], call'[u] = call[u], pc'[u] = pc[u],
         \/ write_next' = write_next /\ mutex'["write"] = mutex["write"]
         \/ cancelled
         \/ mutex["write"] \in {t, NoOwner}
  PROVE  WriterThread(u)'
<1>1. WriterThread(u)
  BY DEF WriterInv
<1>2. (ReservesOwnPacket(u) /\ CommitIsSized(u))'
  BY <1>1 DEF WriterThread, ReservesOwnPacket, CommitIsSized, InReserve, At, SizeSet
<1>3. (ReserveHoldsMutex(u) /\ BuildsAtTail(u))'
  BY <1>1, ThreadAssumption
     DEF WriterThread, ReserveHoldsMutex, BuildsAtTail, Building, InReserve, SizeSet
<1> QED
  BY <1>2, <1>3 DEF WriterThread

\* What is left to show of a step of thread t.
LEMMA WriterStep ==
  ASSUME WriterInv, TypeOK', NEW t \in Threads,
         UNCHANGED cancelVars,
         \A u \in Threads \ {t} :
           packet'[u] = packet[u] /\ call'[u] = call[u] /\ pc'[u] = pc[u],
         \/ write_next' = write_next /\ mutex'["write"] = mutex["write"]
         \/ cancelled
         \/ mutex["write"] \in {t, NoOwner},
         WriterThread(t)'
  PROVE  WriterInv'
<1>1. ASSUME NEW u \in Threads \ {t}
      PROVE  WriterThread(u)'
  BY <1>1, OtherWriters DEF cancelVars
<1>2. CancelOrder'
  BY DEF WriterInv, CancelOrder, cancelVars
<1> QED
  BY <1>1, <1>2 DEF WriterInv

\* The unfolded facts about thread t that every step starts from.
LEMMA WriterFacts ==
  ASSUME WriterInv, NEW t \in Threads
  PROVE  /\ WriterThread(t)
         /\ packet \in [Threads -> Packet]
         /\ call \in [Threads -> Call]
         /\ pc \in [Threads -> ControlLocations]
         /\ mutex \in [MutexNames -> Threads \cup {NoOwner}]
         /\ Producers \cap Consumers = {}
         /\ Threads = Producers \cup Consumers
BY ThreadAssumption DEF WriterInv, TypeOK, Threads

\* ps_packet_open: the mutex was free, so that nobody else builds a packet.
LEMMA OpenWriter ==
  ASSUME WriterInv, TypeOK', NEW t \in Threads,
         Open(t) \/ OpenBusy(t) \/ OpenCancelled(t) \/ OpenWrite(t) \/ OpenRead(t)
           \/ ReadWait(t) \/ ReadWaitFails(t)
  PROVE  WriterInv'
<1> USE WriterFacts
        DEF Goto, At, Acquire, Release, MutexNames, positions, ringVars, cancelVars,
            WriterThread, ReservesOwnPacket, ReserveHoldsMutex, CommitIsSized,
            BuildsAtTail, InReserve, Building, SizeSet
<1>1. CASE Open(t)
  BY <1>1, WriterStep DEF Open
<1>2. CASE OpenBusy(t) \/ OpenCancelled(t)
  BY <1>2, WriterStep DEF OpenBusy, OpenCancelled, ReturnsIdle
<1>3. CASE OpenWrite(t)
  <2>1. mutex["write"] = NoOwner /\ mutex'["write"] = t
    BY <1>3 DEF OpenWrite, Free
  <2>2. /\ packet'[t].buffer_pos = write_next'
        /\ "WRITE" \in packet'[t].flags
        /\ pc'[t] = "open"
    BY <1>3 DEF OpenWrite, OpenFlags
  <2>3. WriterThread(t)'
    BY <2>1, <2>2
  <2> QED
    BY <1>3, <2>1, <2>3, WriterStep DEF OpenWrite
<1>4. CASE OpenRead(t)
  BY <1>4, WriterStep DEF OpenRead
<1>5. CASE ReadWait(t)
  <2>1. t \notin Producers
    BY <1>5 DEF ReadWait
  <2>2. pc'[t] \in {"idle", "open"} /\ mutex'["write"] = mutex["write"]
    BY <1>5 DEF ReadWait
  <2>3. packet'[t].flags = {"READ"} \/ UNCHANGED packet
    BY <1>5 DEF ReadWait
  <2>4. WriterThread(t)'
    BY <1>5, <2>1, <2>2, <2>3 DEF ReadWait
  <2> QED
    BY <1>5, <2>2, <2>4, WriterStep DEF ReadWait
<1>6. CASE ReadWaitFails(t)
  BY <1>6, WriterStep DEF ReadWaitFails
<1> QED
  BY <1>1, <1>2, <1>3, <1>4, <1>5, <1>6

\* ps_packet_reserve: the mutex is given up only if the buffer is cancelled.
LEMMA ReserveWriter ==
  ASSUME WriterInv, TypeOK', NEW t \in Threads,
         ReserveStep(t) \/ ReserveInterrupted(t)
  PROVE  WriterInv'
<1> USE WriterFacts
        DEF Goto, At, Release, MutexNames, positions, cancelVars, Reserving,
            WriterThread, ReservesOwnPacket, ReserveHoldsMutex, CommitIsSized,
            BuildsAtTail, InReserve, Building, SizeSet
<1>1. CASE ReserveWait(t)
  BY <1>1, WriterStep DEF ReserveWait
<1>2. CASE ReserveCancelled(t)
  BY <1>2, WriterStep DEF ReserveCancelled
<1>3. CASE ReserveDrain(t)
  BY <1>3, WriterStep DEF ReserveDrain
<1>4. CASE ReserveBusy(t)
  BY <1>4, WriterStep DEF ReserveBusy, ReserveFails
<1>5. CASE ReserveInterrupted(t)
  BY <1>5, WriterStep DEF ReserveInterrupted, ReserveFails
<1> QED
  BY <1>1, <1>2, <1>3, <1>4, <1>5 DEF ReserveStep

\* ps_packet_write, ps_packet_setsize and ps_packet_cancel: whoever writes a
\* packet without a size holds the mutex, and keeps it until the size is set.
LEMMA WriteWriter ==
  ASSUME WriterInv, TypeOK', NEW t \in Threads,
         FinishWrite(t) \/ FinishSetSize(t) \/ CommitSize(t) \/ WriteCall(t)
  PROVE  WriterInv'
<1> USE WriterFacts
        DEF Goto, At, Release, MutexNames, positions, cancelVars, ReserveDone,
            CallReserve, Packet, Call,
            WriterThread, ReservesOwnPacket, ReserveHoldsMutex, CommitIsSized,
            BuildsAtTail, InReserve, Building, SizeSet
<1>1. CASE FinishWrite(t)
  <2>1. /\ packet'[t].flags = packet[t].flags
        /\ packet'[t].buffer_pos = packet[t].buffer_pos
        /\ pc'[t] = "open"
    BY <1>1 DEF FinishWrite
  <2>2. WriterThread(t)'
    BY <1>1, <2>1 DEF FinishWrite
  <2> QED
    BY <1>1, <2>2, WriterStep DEF FinishWrite
<1>2. CASE FinishSetSize(t)
  <2>1. /\ packet'[t].flags = (packet[t].flags \cup {"SIZE_SET"}) \ {"TRY"}
        /\ pc'[t] = "reserve"
        /\ UNCHANGED <<mutex, cancelled>>
    BY <1>2 DEF FinishSetSize
  <2>2. WriterThread(t)'
    BY <1>2, <2>1 DEF FinishSetSize
  <2>3. cancelled \/ mutex["write"] = t
    BY <1>2 DEF FinishSetSize
  <2> QED
    BY <1>2, <2>2, <2>3, WriterStep DEF FinishSetSize
<1>3. CASE CommitSize(t)
  <2>1. SizeSet(t) /\ (cancelled \/ mutex["write"] = t)
    BY <1>3 DEF CommitSize
  <2>2. packet'[t].flags = packet[t].flags /\ pc'[t] \in {"close", "open"}
    BY <1>3 DEF CommitSize
  <2>3. WriterThread(t)'
    BY <1>3, <2>1, <2>2 DEF CommitSize
  <2> QED
    BY <1>3, <2>1, <2>3, WriterStep DEF CommitSize
<1>4. ASSUME NEW n \in WriteSizes, Write(t, n)
      PROVE  WriterInv'
  BY <1>4, WriterStep DEF Write
<1>5. ASSUME NEW n \in WriteSizes, WriteSized(t, n)
      PROVE  WriterInv'
  <2>1. packet'[t].flags = packet[t].flags /\ UNCHANGED pc
    BY <1>5 DEF WriteSized
  <2>2. WriterThread(t)'
    BY <1>5, <2>1 DEF WriteSized
  <2> QED
    BY <1>5, <2>2, WriterStep DEF WriteSized
<1>6. ASSUME NEW n \in SetSizes, SetSize(t, n)
      PROVE  WriterInv'
  BY <1>6, WriterStep DEF SetSize
<1>7. CASE CancelPacket(t)
  <2>1. cancelled \/ mutex["write"] = t
    BY <1>7 DEF CancelPacket, Cancellable
  <2>2. packet'[t].flags = {} /\ pc'[t] = "idle"
    BY <1>7 DEF CancelPacket, ClosedPacket
  <2>3. WriterThread(t)'
    BY <2>2
  <2> QED
    BY <1>7, <2>1, <2>3, WriterStep DEF CancelPacket
<1> QED
  BY <1>1, <1>2, <1>3, <1>4, <1>5, <1>6, <1>7 DEF WriteCall

\* ps_packet_close, and what ends a packet otherwise.
LEMMA CloseWriter ==
  ASSUME WriterInv, TypeOK', NEW t \in Threads,
         Close(t) \/ CloseStep(t) \/ DestroyPacket(t) \/ Kill(t)
  PROVE  WriterInv'
<1> USE WriterFacts
        DEF Goto, At, Acquire, Release, MutexNames, CloseMutex, positions, ringVars,
            cancelVars, WriterThread, ReservesOwnPacket, ReserveHoldsMutex,
            CommitIsSized, BuildsAtTail, InReserve, Building, SizeSet
<1>1. CASE Close(t)
  <2>1. /\ packet'[t].flags = packet[t].flags \ {"TRY"}
        /\ packet'[t].buffer_pos = packet[t].buffer_pos
    BY <1>1 DEF Close, Packet
  <2>2. CASE t \in Consumers \/ SizeSet(t)
    <3>1. pc'[t] = "close" /\ UNCHANGED call
      BY <1>1, <2>2 DEF Close
    <3>2. WriterThread(t)'
      BY <1>1, <2>1, <3>1 DEF Close
    <3> QED
      BY <1>1, <2>2, <3>2, WriterStep DEF Close
  <2>3. CASE ~(t \in Consumers \/ SizeSet(t))
    <3>1. pc'[t] = "reserve" /\ call'[t].op = "setsize"
      BY <1>1, <2>3 DEF Close, CallReserve
    <3>2. WriterThread(t)'
      BY <1>1, <2>1, <2>3, <3>1 DEF Close
    <3> QED
      BY <1>1, <2>3, <3>2, WriterStep DEF Close, CallReserve
  <2> QED
    BY <2>2, <2>3
<1>2. CASE LockClose(t)
  <2>1. packet'[t].flags = {} /\ pc'[t] \in {"post", "idle"}
    BY <1>2 DEF LockClose, ClosedPacket
  <2>2. WriterThread(t)'
    BY <2>1
  <2>3. mutex'["write"] = mutex["write"]
    BY <1>2 DEF LockClose
  <2> QED
    BY <1>2, <2>2, <2>3, WriterStep DEF LockClose
<1>3. CASE Post(t) \/ ScanOn(t)
  BY <1>3, WriterStep DEF Post, ScanOn
<1>4. CASE ScanEnd(t)
  BY <1>4, WriterStep DEF ScanEnd
<1>5. CASE DestroyPacket(t)
  BY <1>5, WriterStep DEF DestroyPacket, ClosedPacket
<1>6. CASE Kill(t)
  BY <1>6, WriterStep DEF Kill
<1> QED
  BY <1>1, <1>2, <1>3, <1>4, <1>5, <1>6 DEF CloseStep

\* ps_buffer_cancel: after its first step nothing is promised any more.
LEMMA CancelWriter ==
  ASSUME WriterInv, TypeOK', BufferCancel
  PROVE  WriterInv'
<1>1. cancelled'
  BY DEF WriterInv, CancelOrder, BufferCancel, CancelFlag, CancelPostRead,
         CancelPostWritten, CancelUnlockRead, CancelUnlockWrite, CancelStep
<1>2. UNCHANGED threadVars
  BY DEF BufferCancel, CancelFlag, CancelPostRead, CancelPostWritten,
         CancelUnlockRead, CancelUnlockWrite
<1>3. ASSUME NEW t \in Threads
      PROVE  WriterThread(t)'
  BY <1>1, <1>2
     DEF WriterInv, WriterThread, ReservesOwnPacket, ReserveHoldsMutex,
         CommitIsSized, BuildsAtTail, InReserve, SizeSet, At, threadVars
<1> QED
  BY <1>1, <1>3 DEF WriterInv, CancelOrder

LEMMA InitWriter == Init => WriterInv
BY InitType
   DEF Init, WriterInv, CancelOrder, WriterThread, ReservesOwnPacket,
       ReserveHoldsMutex, CommitIsSized, BuildsAtTail, Building, InReserve, At,
       ClosedPacket

LEMMA NextWriter == WriterInv /\ [Next]_vars => WriterInv'
<1> SUFFICES ASSUME WriterInv, [Next]_vars
             PROVE  WriterInv'
  OBVIOUS
<1>1. TypeOK'
  BY NextType DEF WriterInv
<1>2. ASSUME NEW t \in Threads, Open(t) \/ ThreadStep(t) \/ ThreadEvent(t)
      PROVE  WriterInv'
  BY <1>1, <1>2, OpenWriter, ReserveWriter, WriteWriter, CloseWriter
     DEF ThreadStep, ThreadEvent
<1>3. CASE BufferCancel
  BY <1>1, <1>3, CancelWriter
<1>4. CASE UNCHANGED vars
  BY <1>1, <1>4
     DEF WriterInv, CancelOrder, WriterThread, ReservesOwnPacket,
         ReserveHoldsMutex, CommitIsSized, BuildsAtTail, Building, InReserve, At,
         SizeSet, vars, cancelVars, ringVars, positions, threadVars
<1> QED
  BY <1>2, <1>3, <1>4 DEF Next

\* A packet without a size is at write_next and its producer has write_mutex:
\* what ps_packet_setsize adds to write_next starts from the packet it is for.
THEOREM WriterCorrect == Spec => []WriterAtTail
<1>1. WriterInv => WriterAtTail
  BY DEF WriterInv, WriterThread, BuildsAtTail, WriterAtTail
<1> QED
  BY <1>1, InitWriter, NextWriter, PTL DEF Spec
=============================================================================
