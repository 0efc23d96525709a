\* packetstream.h:415 against the size check of ps_packet_setsize.
CONSTANTS
  p1 = p1
  p2 = p2
  c1 = c1
  c2 = c2
  NoOwner = NoOwner
  Size = 8
  HeaderSize = 2
  Producers = {p1}
  Consumers = {c1}
  TryThreads = {}
  WriteSizes = {}
  SetSizes = {1, 4}
  MaxSize = 4
  Interruptible = {}
  InterruptedCalls = {}
  Killable = {}
  MayCancel = FALSE
SPECIFICATION LiveSpec
PROPERTY SetSizeLetsOthersOpen
CHECK_DEADLOCK FALSE
