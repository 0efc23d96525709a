\* Two producers that use PS_PACKET_TRY and two consumers; a header of 2 bytes and
\* an area of 8, so that packets wrap and the end of the area is skipped.
CONSTANTS
  p1 = p1
  p2 = p2
  c1 = c1
  c2 = c2
  NoOwner = NoOwner
  Size = 8
  HeaderSize = 2
  Producers = {p1, p2}
  Consumers = {c1, c2}
  TryThreads = {p1, p2}
  WriteSizes = {2}
  SetSizes = {3}
  MaxSize = 3
  Interruptible = {}
  InterruptedCalls = {}
  Killable = {}
  MayCancel = FALSE
SPECIFICATION Spec
SYMMETRY ThreadSymmetry
INVARIANT TypeOK
INVARIANT WriterAtTail
INVARIANT FreeBytesExact
INVARIANT NextHeaderNull
INVARIANT PacketsDisjoint
INVARIANT ReaderSeesCompletePacket
INVARIANT SemaphoresCount
PROPERTY FreedOnlyIfRead
PROPERTY ImplementsFifo
