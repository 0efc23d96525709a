---------------------------- MODULE PacketStream ----------------------------
(***************************************************************************)
(* src/common/packetstream.c: the ring buffer through which the processes  *)
(* of glc2 exchange messages.  Producers and consumers each use one        *)
(* packet; a call is split where another thread can get in between: at a   *)
(* mutex, at a semaphore operation and between the iterations of a loop    *)
(* that posts or drains a semaphore.  ps_packet_reserve, which every write *)
(* and every size change calls, is the control locations "reserve" (the    *)
(* top of its outer loop) and "drain" (the sem_trywait of its inner one);  *)
(* call[t] holds the caller to return to.                                  *)
(*                                                                         *)
(* Seeking and direct memory access only move positions inside a packet    *)
(* and are not part of this module.                                        *)
(***************************************************************************)
EXTENDS PacketRing

CONSTANTS
  Producers, Consumers,  \* the threads, of one or several processes
  TryThreads,            \* those that open their packets with PS_PACKET_TRY
  WriteSizes,            \* byte counts passed to ps_packet_write
  SetSizes,              \* sizes passed to ps_packet_setsize
  MaxSize,               \* the largest packet a caller builds
  Interruptible,         \* threads whose sem_wait a signal may interrupt,
  InterruptedCalls,      \* and the operations on a packet it interrupts
  Killable,              \* threads whose process may be killed
  MayCancel,             \* whether some thread calls ps_buffer_cancel
  NoOwner                \* the value of a mutex that nobody holds

Threads == Producers \cup Consumers

ASSUME ThreadAssumption ==
  /\ Producers \cap Consumers = {}
  /\ NoOwner \notin Threads
  /\ TryThreads \subseteq Threads
  /\ Interruptible \subseteq Threads
  /\ InterruptedCalls \subseteq {"write", "setsize", "commit"}
  /\ Killable \subseteq Threads
  /\ MayCancel \in BOOLEAN

\* A write of nothing changes nothing and is left out.
ASSUME SizeAssumption ==
  /\ WriteSizes \subseteq Nat \ {0}
  /\ MaxSize \in Nat
  /\ SetSizes \subseteq 0 .. MaxSize

VARIABLES
  \* struct ps_state_s, shared
  cancelled,         \* PS_BUFFER_CANCELLED is set in state->flags
  read_pos, write_pos, read_next, write_next, read_first, free_bytes,
  mutex,             \* the four mutexes, each its owner or NoOwner
  read_packets,      \* semaphore: read packets whose space is not reused yet
  written_packets,   \* semaphore: written packets nobody has opened yet
  memory,            \* what the data area reads as, see PacketRing
  \* each thread's ps_packet_t and position in the code
  packet, call, cursor, pc,
  cancelStep         \* progress of ps_buffer_cancel

cancelVars == <<cancelled, cancelStep>>
positions == <<read_pos, write_pos, read_next, write_next, read_first>>
semaphores == <<read_packets, written_packets>>
ringVars == <<positions, free_bytes, semaphores, memory>>
threadVars == <<packet, call, cursor, pc>>
vars == <<cancelVars, ringVars, mutex, threadVars>>

PacketFlags == {"READ", "WRITE", "SIZE_SET", "TRY"}
Packet == [flags: SUBSET PacketFlags, buffer_pos: HeaderPos,
           pos: Nat, reserved: Nat]
ClosedPacket == [flags |-> {}, buffer_pos |-> 0, pos |-> 0, reserved |-> 0]

Call == [op: {"none", "write", "setsize", "commit"}, len: Nat, closing: BOOLEAN]
NoCall == [op |-> "none", len |-> 0, closing |-> FALSE]

MutexNames == {"read", "write", "read_close", "write_close"}
ControlLocations ==
  {"idle", "lock", "wait", "open", "reserve", "drain", "close", "post", "scan",
   "dead"}
CancelSteps ==
  {"none", "flagged", "read_posted", "written_posted", "read_unlocked", "done"}

TypeOK ==
  /\ cancelled \in BOOLEAN
  /\ read_pos \in HeaderPos
  /\ write_pos \in HeaderPos
  /\ read_next \in HeaderPos
  /\ write_next \in HeaderPos
  /\ read_first \in HeaderPos
  /\ free_bytes \in Int
  /\ mutex \in [MutexNames -> Threads \cup {NoOwner}]
  /\ read_packets \in Nat
  /\ written_packets \in Nat
  /\ memory \in [HeaderPos -> Header]
  /\ packet \in [Threads -> Packet]
  /\ call \in [Threads -> Call]
  /\ cursor \in [Threads -> HeaderPos]
  /\ pc \in [Threads -> ControlLocations]
  /\ cancelStep \in CancelSteps

\* ps_buffer_init: the first header is reserved from the start.
Init ==
  /\ cancelled = FALSE
  /\ read_pos = 0 /\ write_pos = 0
  /\ read_next = 0 /\ write_next = 0 /\ read_first = 0
  /\ free_bytes = Size - HeaderSize
  /\ mutex = [m \in MutexNames |-> NoOwner]
  /\ read_packets = 0 /\ written_packets = 0
  /\ memory = [p \in HeaderPos |-> NullHeader]
  /\ packet = [t \in Threads |-> ClosedPacket]
  /\ call = [t \in Threads |-> NoCall]
  /\ cursor = [t \in Threads |-> 0]
  /\ pc = [t \in Threads |-> "idle"]
  /\ cancelStep = "none"

-----------------------------------------------------------------------------
At(t, location) == pc[t] = location
Goto(t, location) == pc' = [pc EXCEPT ![t] = location]

Free(m) == mutex[m] = NoOwner
Acquire(m, t) == mutex' = [mutex EXCEPT ![m] = t]
\* pthread_mutex_unlock of a normal mutex releases it whoever holds it.
Release(m) == mutex' = [mutex EXCEPT ![m] = NoOwner]

SizeSet(t) == "SIZE_SET" \in packet[t].flags
Trying(t) == "TRY" \in packet[t].flags
HeaderOf(t) == memory[packet[t].buffer_pos]

\* The call returns an error before it has changed anything.
ReturnsIdle(t) ==
  Goto(t, "idle") /\ UNCHANGED <<cancelVars, ringVars, mutex, packet, call,
                                 cursor>>

OpenFlags(t, mode) == IF t \in TryThreads THEN {mode, "TRY"} ELSE {mode}

-----------------------------------------------------------------------------
(* ps_packet_open.  A call on a cancelled buffer returns EINTR at once.    *)
Open(t) ==
  /\ At(t, "idle") /\ ~cancelled
  /\ Goto(t, "lock")
  /\ UNCHANGED <<cancelVars, ringVars, mutex, packet, call, cursor>>

ModeMutex(t) == IF t \in Producers THEN "write" ELSE "read"

\* pthread_mutex_trylock fails: EBUSY.
OpenBusy(t) ==
  /\ At(t, "lock") /\ t \in TryThreads /\ ~Free(ModeMutex(t))
  /\ ReturnsIdle(t)

\* The mutex is locked, the flag found set, the mutex unlocked: EINTR.
OpenCancelled(t) ==
  /\ At(t, "lock") /\ Free(ModeMutex(t)) /\ cancelled
  /\ ReturnsIdle(t)

\* ps_packet_openwrite keeps write_mutex until the size is set.
OpenWrite(t) ==
  /\ t \in Producers
  /\ At(t, "lock") /\ Free("write") /\ ~cancelled
  /\ Acquire("write", t)
  /\ packet' = [packet EXCEPT ![t] =
                  [flags |-> OpenFlags(t, "WRITE"), buffer_pos |-> write_next,
                   pos |-> 0, reserved |-> 0]]
  /\ memory' = StoreHeader(memory, write_next, NullHeader)
  /\ Goto(t, "open")
  /\ UNCHANGED <<cancelVars, positions, free_bytes, semaphores, call, cursor>>

\* ps_packet_openread up to its sem_wait.
OpenRead(t) ==
  /\ t \in Consumers
  /\ At(t, "lock") /\ Free("read") /\ ~cancelled
  /\ Acquire("read", t)
  /\ Goto(t, "wait")
  /\ UNCHANGED <<cancelVars, ringVars, packet, call, cursor>>

\* sem_wait (or sem_trywait) succeeds; the cancel flag is tested again.
ReadWait(t) ==
  /\ At(t, "wait") /\ written_packets > 0
  /\ written_packets' = written_packets - 1
  /\ Release("read")
  /\ IF cancelled
     THEN Goto(t, "idle") /\ UNCHANGED <<read_next, packet>>
     ELSE /\ packet' = [packet EXCEPT ![t] =
                          [flags |-> {"READ"}, buffer_pos |-> read_next,
                           pos |-> 0, reserved |-> 0]]
          /\ read_next' = NextPos(read_next, memory[read_next].size)
          /\ Goto(t, "open")
  /\ UNCHANGED <<cancelVars, read_pos, write_pos, write_next, read_first,
                 free_bytes, read_packets, memory, call, cursor>>

\* sem_trywait fails with EBUSY, or a signal interrupts sem_wait.
ReadWaitFails(t) ==
  /\ At(t, "wait") /\ written_packets = 0
  /\ t \in TryThreads \/ t \in Interruptible
  /\ Release("read")
  /\ Goto(t, "idle")
  /\ UNCHANGED <<cancelVars, ringVars, packet, call, cursor>>

-----------------------------------------------------------------------------
(* ps_packet_reserve(packet, len), len being the whole size of the packet. *)

Larger(a, b) == IF a > b THEN a ELSE b

CallReserve(t, op, len, reserved, closing) ==
  /\ call' = [call EXCEPT ![t] = [op |-> op, len |-> len, closing |-> closing]]
  /\ free_bytes' = free_bytes - (Larger(len, reserved) - reserved)
  /\ Goto(t, "reserve")

\* What the call adds to the packet's claim.
Missing(t) == Larger(call[t].len, packet[t].reserved) - packet[t].reserved

\* Mutant: a claim is met while it still lacks a header's worth of bytes.
ReserveDoneEarly(t) ==
  At(t, "reserve") /\ (free_bytes + HeaderSize >= 0 \/ Missing(t) = 0)

ReserveDone(t) ==
  At(t, "reserve") /\ (free_bytes >= 0 \/ Missing(t) = 0)
Reserving(t) == At(t, "reserve") /\ ~ReserveDone(t)

\* The body of the inner loop: the oldest packet is taken off the ring.
ConsumeOldest ==
  LET size == memory[read_first].size
  IN  /\ free_bytes' = free_bytes + Footprint(read_first, size)
      /\ read_first' = NextPos(read_first, size)

\* sem_wait (or sem_trywait) succeeds, the buffer is not cancelled.
ReserveWait(t) ==
  /\ Reserving(t) /\ read_packets > 0 /\ ~cancelled
  /\ read_packets' = read_packets - 1
  /\ ConsumeOldest
  /\ Goto(t, "drain")
  /\ UNCHANGED <<cancelVars, read_pos, write_pos, read_next, write_next,
                 written_packets, memory, mutex, packet, call, cursor>>

ReserveCancelled(t) ==
  /\ Reserving(t) /\ read_packets > 0 /\ cancelled
  /\ read_packets' = read_packets - 1
  /\ Release("write")
  /\ call' = [call EXCEPT ![t] = NoCall]
  /\ Goto(t, "open")
  /\ UNCHANGED <<cancelVars, positions, free_bytes, written_packets, memory,
                 packet, cursor>>

\* while (!sem_trywait(&state->read_packets)): no test of the cancel flag.
ReserveDrain(t) ==
  /\ At(t, "drain")
  /\ IF read_packets > 0
     THEN read_packets' = read_packets - 1 /\ ConsumeOldest /\ UNCHANGED pc
     ELSE Goto(t, "reserve") /\ UNCHANGED <<read_first, free_bytes,
                                            read_packets>>
  /\ UNCHANGED <<cancelVars, read_pos, write_pos, read_next, write_next,
                 written_packets, memory, mutex, packet, call, cursor>>

\* The call returns an error, the packet stays open.
ReserveFails(t) ==
  /\ call' = [call EXCEPT ![t] = NoCall]
  /\ Goto(t, "open")
  /\ UNCHANGED <<cancelVars, positions, semaphores, memory, mutex, packet, cursor>>

\* Mutant: EBUSY is returned with the claim still in free_bytes.
KeptBack(t) == 0

\* What EBUSY gives back.
GivenBack(t) == Missing(t)

\* sem_trywait fails: EBUSY.
ReserveBusy(t) ==
  /\ Reserving(t) /\ Trying(t) /\ read_packets = 0
  /\ free_bytes' = free_bytes + GivenBack(t)
  /\ ReserveFails(t)

\* A signal interrupts sem_wait: EINVAL, and the claim stays in free_bytes.
\* Bound: no more claims are lost once free_bytes is below -Size.
ReserveInterrupted(t) ==
  /\ Reserving(t) /\ ~Trying(t) /\ read_packets = 0
  /\ t \in Interruptible /\ call[t].op \in InterruptedCalls
  /\ free_bytes >= -Size
  /\ UNCHANGED free_bytes
  /\ ReserveFails(t)

-----------------------------------------------------------------------------
\* The test of ps_packet_write and ps_packet_setsize, else ENOBUFS.
Fits(size) == size + 2 * HeaderSize <= Size

(* ps_packet_write, in a packet whose size is not set: space is reserved,  *)
(* then the data copied.                                                   *)
Write(t, n) ==
  LET len == packet[t].pos + n
  IN  /\ At(t, "open") /\ t \in Producers /\ ~SizeSet(t) /\ ~cancelled
      /\ Fits(len) /\ len <= MaxSize
      /\ CallReserve(t, "write", len, packet[t].reserved, FALSE)
      /\ UNCHANGED <<cancelVars, positions, semaphores, memory, mutex, packet,
                     cursor>>

\* The copy itself, which ends at len.
StoreUpTo(t, len) ==
  StoreData(memory, (packet[t].buffer_pos + HeaderSize + packet[t].pos) % Size,
            len - packet[t].pos)

FinishWrite(t) ==
  LET len == call[t].len
  IN  /\ ReserveDone(t) /\ call[t].op = "write"
      /\ memory' = [StoreUpTo(t, len) EXCEPT ![packet[t].buffer_pos].size =
                                               Larger(@, len)]
      /\ packet' = [packet EXCEPT ![t].pos = len,
                                  ![t].reserved = Larger(@, len)]
      /\ call' = [call EXCEPT ![t] = NoCall]
      /\ Goto(t, "open")
      /\ UNCHANGED <<cancelVars, positions, free_bytes, semaphores, mutex,
                     cursor>>

\* ps_packet_write once the size is set: several producers write at a time.
WriteSized(t, n) ==
  LET len == packet[t].pos + n
  IN  /\ At(t, "open") /\ t \in Producers /\ SizeSet(t) /\ ~cancelled
      /\ len <= HeaderOf(t).size
      /\ memory' = StoreUpTo(t, len)
      /\ packet' = [packet EXCEPT ![t].pos = len]
      /\ UNCHANGED <<cancelVars, positions, free_bytes, semaphores, mutex, call,
                     cursor, pc>>

-----------------------------------------------------------------------------
(* ps_packet_setsize: the data is reserved, the size stored and write_next *)
(* moved, then the next header and the skipped bytes are reserved too.     *)

SetSize(t, n) ==
  /\ At(t, "open") /\ t \in Producers /\ ~SizeSet(t) /\ ~cancelled
  /\ Fits(n)
  /\ CallReserve(t, "setsize", n, packet[t].reserved, FALSE)
  /\ UNCHANGED <<cancelVars, positions, semaphores, memory, mutex, packet,
                 cursor>>

FinishSetSize(t) ==
  LET size == call[t].len
      reserved == Larger(size, packet[t].reserved)
  IN  /\ ReserveDone(t) /\ call[t].op = "setsize"
      /\ memory' = [memory EXCEPT ![packet[t].buffer_pos].size = size]
      /\ packet' = [packet EXCEPT
           ![t].flags = (@ \cup {"SIZE_SET"}) \ {"TRY"},
           ![t].reserved = reserved]
      /\ write_next' = NextPos(write_next, size)
      /\ CallReserve(t, "commit", Footprint(write_next, size), reserved,
                     call[t].closing)
      /\ UNCHANGED <<cancelVars, read_pos, write_pos, read_next, read_first,
                     semaphores, mutex, cursor>>

\* Mutant: the memset is left out.
NextHeaderKept == memory

\* memory once the next header is set NULL.
NextHeaderSet == StoreHeader(memory, write_next, NullHeader)

\* The next header is set NULL, what was reserved beyond the size is returned
\* and the next producer may open.
CommitSize(t) ==
  /\ ReserveDone(t) /\ call[t].op = "commit"
  /\ memory' = NextHeaderSet
  /\ free_bytes' = free_bytes + Larger(call[t].len, packet[t].reserved)
                              - call[t].len
  /\ packet' = [packet EXCEPT ![t].reserved = Larger(@, call[t].len)]
  /\ Release("write")
  /\ call' = [call EXCEPT ![t] = NoCall]
  /\ Goto(t, IF call[t].closing THEN "close" ELSE "open")
  /\ UNCHANGED <<cancelVars, positions, semaphores, cursor>>

\* Mutant: a packet with its size set can be cancelled too.
AnyCancellable(t) == t \in Producers

Cancellable(t) == t \in Producers /\ ~SizeSet(t)

\* Mutant: the packet's own header is given back as well.
CancelRefundHeader(t) == packet[t].reserved + HeaderSize

CancelRefund(t) == packet[t].reserved

\* ps_packet_cancel
CancelPacket(t) ==
  /\ At(t, "open") /\ Cancellable(t) /\ ~cancelled
  /\ free_bytes' = free_bytes + CancelRefund(t)
  /\ memory' = StoreHeader(memory, packet[t].buffer_pos, NullHeader)
  /\ Release("write")
  /\ packet' = [packet EXCEPT ![t] = ClosedPacket]
  /\ Goto(t, "idle")
  /\ UNCHANGED <<cancelVars, positions, semaphores, call, cursor>>

-----------------------------------------------------------------------------
(* ps_packet_close.  PS_PACKET_TRY is dropped first ("too late to          *)
(* cancel"); a packet without a size gets the size of what was written.    *)
Close(t) ==
  /\ At(t, "open") /\ ~cancelled
  /\ packet' = [packet EXCEPT ![t].flags = @ \ {"TRY"}]
  /\ IF t \in Consumers \/ SizeSet(t)
     THEN Goto(t, "close") /\ UNCHANGED <<free_bytes, call>>
     ELSE /\ Fits(HeaderOf(t).size)
          /\ CallReserve(t, "setsize", HeaderOf(t).size, packet[t].reserved, TRUE)
  /\ UNCHANGED <<cancelVars, positions, semaphores, memory, mutex, cursor>>

CloseMutex(t) == IF t \in Producers THEN "write_close" ELSE "read_close"
CloseFlag(t) == IF t \in Producers THEN "WRITTEN" ELSE "READ"

\* Mutant: whichever packet is closed counts as the oldest.
AnyOpen(t) == packet[t].buffer_pos

OldestOpen(t) == IF t \in Producers THEN write_pos ELSE read_pos

\* Under the close mutex the header is marked; only the oldest open packet
\* goes on to post the semaphore.  The thread's own packet is not looked at any
\* more and counts as closed from here.
LockClose(t) ==
  LET pos == packet[t].buffer_pos
  IN  /\ At(t, "close") /\ Free(CloseMutex(t))
      /\ memory' = [memory EXCEPT ![pos].flags = @ \cup {CloseFlag(t)}]
      /\ IF OldestOpen(t) = pos
         THEN /\ Acquire(CloseMutex(t), t)
              /\ cursor' = [cursor EXCEPT ![t] = pos]
              /\ Goto(t, "post")
         ELSE Goto(t, "idle") /\ UNCHANGED <<mutex, cursor>>
      /\ packet' = [packet EXCEPT ![t] = ClosedPacket]
      /\ UNCHANGED <<cancelVars, positions, free_bytes, semaphores, call>>

\* Mutant: only the packet that was closed is looked at.
NeverClosed(t) == FALSE

\* The packet at the cursor is closed.
NextClosed(t) == CloseFlag(t) \in memory[cursor[t]].flags

\* One iteration: past the packet at the cursor, sem_post ...
Post(t) ==
  /\ At(t, "post")
  /\ cursor' = [cursor EXCEPT ![t] = NextPos(@, memory[@].size)]
  /\ IF t \in Producers
     THEN written_packets' = written_packets + 1 /\ UNCHANGED read_packets
     ELSE read_packets' = read_packets + 1 /\ UNCHANGED written_packets
  /\ Goto(t, "scan")
  /\ UNCHANGED <<cancelVars, positions, free_bytes, memory, mutex, packet,
                 call>>

\* ... and on while the packet after it is closed as well.
ScanOn(t) ==
  /\ At(t, "scan") /\ NextClosed(t)
  /\ Goto(t, "post")
  /\ UNCHANGED <<cancelVars, ringVars, mutex, packet, call, cursor>>

ScanEnd(t) ==
  /\ At(t, "scan") /\ ~NextClosed(t)
  /\ IF t \in Producers
     THEN write_pos' = cursor[t] /\ UNCHANGED read_pos
     ELSE read_pos' = cursor[t] /\ UNCHANGED write_pos
  /\ Release(CloseMutex(t))
  /\ cursor' = [cursor EXCEPT ![t] = 0]
  /\ Goto(t, "idle")
  /\ UNCHANGED <<cancelVars, read_next, write_next, read_first, free_bytes,
                 semaphores, memory, packet, call>>

-----------------------------------------------------------------------------
(* ps_buffer_cancel, step by step; both mutexes are unlocked whoever holds *)
(* them.                                                                   *)
CancelStep(from, to) == cancelStep = from /\ cancelStep' = to

CancelFlag ==
  /\ MayCancel /\ CancelStep("none", "flagged")
  /\ cancelled' = TRUE
  /\ UNCHANGED <<ringVars, mutex, threadVars>>

CancelPostRead ==
  /\ CancelStep("flagged", "read_posted")
  /\ read_packets' = read_packets + 1
  /\ UNCHANGED <<cancelled, positions, free_bytes, written_packets, memory,
                 mutex, threadVars>>

\* Mutant: written_packets is not posted.
NotPosted == written_packets

Posted == written_packets + 1

CancelPostWritten ==
  /\ CancelStep("read_posted", "written_posted")
  /\ written_packets' = Posted
  /\ UNCHANGED <<cancelled, positions, free_bytes, read_packets, memory, mutex,
                 threadVars>>

CancelUnlockRead ==
  /\ CancelStep("written_posted", "read_unlocked")
  /\ Release("read")
  /\ UNCHANGED <<cancelled, ringVars, threadVars>>

CancelUnlockWrite ==
  /\ CancelStep("read_unlocked", "done")
  /\ Release("write")
  /\ UNCHANGED <<cancelled, ringVars, threadVars>>

BufferCancel ==
  CancelFlag \/ CancelPostRead \/ CancelPostWritten \/ CancelUnlockRead
  \/ CancelUnlockWrite

\* Every call on an open packet now returns EINTR; its owner is left with
\* ps_packet_destroy.
DestroyPacket(t) ==
  /\ At(t, "open") /\ cancelled
  /\ packet' = [packet EXCEPT ![t] = ClosedPacket]
  /\ Goto(t, "idle")
  /\ UNCHANGED <<cancelVars, ringVars, mutex, call, cursor>>

\* The thread's process is killed: what it holds in shared memory stays.
Kill(t) ==
  /\ t \in Killable /\ ~At(t, "dead")
  /\ Goto(t, "dead")
  /\ UNCHANGED <<cancelVars, ringVars, mutex, packet, call, cursor>>

-----------------------------------------------------------------------------
ReserveStep(t) ==
  ReserveWait(t) \/ ReserveCancelled(t) \/ ReserveDrain(t) \/ ReserveBusy(t)

CloseStep(t) == LockClose(t) \/ Post(t) \/ ScanOn(t) \/ ScanEnd(t)

WriteCall(t) ==
  \/ \E n \in WriteSizes : Write(t, n) \/ WriteSized(t, n)
  \/ \E n \in SetSizes : SetSize(t, n)
  \/ CancelPacket(t)

\* What a thread does of itself once it has called ps_packet_open.
ThreadStep(t) ==
  \/ OpenBusy(t) \/ OpenCancelled(t) \/ OpenWrite(t) \/ OpenRead(t)
  \/ ReadWait(t)
  \/ ReserveStep(t)
  \/ FinishWrite(t) \/ FinishSetSize(t) \/ CommitSize(t)
  \/ WriteCall(t) \/ Close(t) \/ CloseStep(t)
  \/ DestroyPacket(t)

\* What happens to it from outside.
ThreadEvent(t) == ReadWaitFails(t) \/ ReserveInterrupted(t) \/ Kill(t)

Next ==
  \/ \E t \in Threads : Open(t) \/ ThreadStep(t) \/ ThreadEvent(t)
  \/ BufferCancel

Spec == Init /\ [][Next]_vars

\* Threads keep running and consumers keep opening packets, as the receiving
\* loops of client and server do; nobody has to open a packet for writing, nor
\* to call ps_buffer_cancel, but once called it runs to its end.
LiveSpec ==
  /\ Spec
  /\ \A t \in Threads : WF_vars(ThreadStep(t))
  /\ \A t \in Consumers : WF_vars(Open(t))
  /\ WF_vars(cancelled /\ BufferCancel)

=============================================================================
