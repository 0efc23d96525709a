\* packetstream.h:309 against ps_packet_reserve.
CONSTANTS
  p1 = p1
  p2 = p2
  c1 = c1
  c2 = c2
  NoOwner = NoOwner
  Size = 8
  HeaderSize = 2
  Producers = {p1}
  Consumers = {c1}
  TryThreads = {}
  WriteSizes = {}
  SetSizes = {0, 3}
  MaxSize = 3
  Interruptible = {}
  InterruptedCalls = {}
  Killable = {}
  MayCancel = TRUE
SPECIFICATION LiveSpec
PROPERTY CancelWakesProducers
CHECK_DEADLOCK FALSE
