\* Two producers and two consumers close their packets in any order.
CONSTANTS
  p1 = p1
  p2 = p2
  c1 = c1
  c2 = c2
  NoOwner = NoOwner
  Size = 6
  HeaderSize = 2
  Producers = {p1, p2}
  Consumers = {c1, c2}
  TryThreads = {}
  WriteSizes = {1}
  SetSizes = {}
  MaxSize = 1
  Interruptible = {}
  InterruptedCalls = {}
  Killable = {}
  MayCancel = FALSE
SPECIFICATION LiveSpec
PROPERTY WrittenIsOpened
PROPERTY ReserveReturns
