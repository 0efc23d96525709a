\* packetstream.h:364 against ps_packet_setsize.
CONSTANTS
  p1 = p1
  p2 = p2
  c1 = c1
  c2 = c2
  NoOwner = NoOwner
  Size = 7
  HeaderSize = 2
  Producers = {p1}
  Consumers = {c1}
  TryThreads = {p1}
  WriteSizes = {1}
  SetSizes = {2}
  MaxSize = 2
  Interruptible = {}
  InterruptedCalls = {}
  Killable = {}
  MayCancel = FALSE
SPECIFICATION Spec
INVARIANT TryNeverBlocks
