\* Objects opened, changed, laid out and written, with failing system calls.
SPECIFICATION Spec
CONSTANTS
  None = None
  Gone = Gone
  EhdrSize = 2
  PhdrSize = 1
  ShdrSize = 2
  HdrAlign = 2
  LoReserve = 4
  PnXnum = 2
  Commands = {"read", "rdwr", "write"}
  Files <- MCFiles
  Buffers <- MCBuffers
  Aligns = {0, 4}
  Phnums = {0, 2}
  Cuts = {0, 9}
  Offsets = {2, 8, 16}
  MaxScns = 3
  MaxCalls = 7
INVARIANTS
  TypeOK
  WrittenIsMeant
  LibraryLayoutFits
  NullForetells
PROPERTIES
  RewriteKeepsFile
CHECK_DEADLOCK FALSE
