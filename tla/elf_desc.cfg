\* The calls on descriptors, with the loop over an archive.
SPECIFICATION Spec
CONSTANTS
  Ids = {i1, i2, i3, i4}
  Images = {m1, m2}
  Fds = {3, 4, 5}
  None = None
  Objs = {"ar", "inner", "obj", "odd", "text", "bad", "bar"}
  FileObj <- MCFileObj
  Memory = {"inner", "bar"}
  Kind <- MCKind
  Size <- MCSize
  First <- MCFirst
  Hdr <- MCHdr
  MaxCalls = 4
  MaxSeen = 5
INVARIANTS
  TypeOK
  HandlesAreCounted
  ImagesStay
  LoopInOrder
PROPERTIES
  LoopEnds
  Refines
CHECK_DEADLOCK FALSE
