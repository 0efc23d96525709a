\* One ps_packet_t opened for writing and reading again and again, where its data
\* wraps in the middle, with every mix of transfers.
CONSTANTS
  x = x
  y = y
  Size = 8
  HeaderSize = 2
  Byte = {x, y}
  Unknown = Unknown
  Lengths = {2, 3}
  Starts = {3, 4}
  MaxAreas = 2
  MaxCalls = 6
SPECIFICATION Spec
SYMMETRY ByteSymmetry
INVARIANT TypeOK
INVARIANT DeliveredAsStored
INVARIANT CommitCannotFail
INVARIANT DataApartFromHeader
INVARIANT RefusedLosesNothing
INVARIANT NoStaleArea
