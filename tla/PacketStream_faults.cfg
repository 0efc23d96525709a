\* Signals interrupt the waits of one producer and one consumer, the others may be
\* killed at any point.
CONSTANTS
  p1 = p1
  p2 = p2
  c1 = c1
  c2 = c2
  NoOwner = NoOwner
  Size = 6
  HeaderSize = 2
  Producers = {p1, p2}
  Consumers = {c1, c2}
  TryThreads = {}
  WriteSizes = {1}
  SetSizes = {0}
  MaxSize = 1
  Interruptible = {p1, c1}
  InterruptedCalls = {"write", "setsize"}
  Killable = {p2, c2}
  MayCancel = FALSE
SPECIFICATION Spec
INVARIANT ReaderSeesCompletePacket
INVARIANT PacketsDisjoint
INVARIANT FreeBytesNeverOver
CHECK_DEADLOCK FALSE
