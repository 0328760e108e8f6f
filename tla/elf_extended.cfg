\* PN_XNUM program headers and few sections, written and read again.
SPECIFICATION Spec
CONSTANTS
  None = None
  Gone = Gone
  EhdrSize = 2
  PhdrSize = 1
  ShdrSize = 2
  HdrAlign = 2
  LoReserve = 4
  PnXnum = 2
  Commands = {"read", "rdwr", "write"}
  Files <- MCFiles
  Buffers <- MCBuffers
  Aligns = {0, 4}
  Phnums = {0, 2}
  Cuts = {0, 9}
  Offsets = {2, 8, 16}
  MaxScns = 3
  MaxCalls = 5
INVARIANT SectionsAreCounted
CHECK_DEADLOCK FALSE
