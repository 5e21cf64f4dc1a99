CONSTANTS
  p1 = p1
  p2 = p2
  Peers <- OnePeer
  NPieces = 1
  BlockCount <- OneBlock
  Sound = {0}
  DiskFails = FALSE
  Bitfields <- Seeds
  Haves = {}
  Eager <- OnePeer
SPECIFICATION Spec
INVARIANT PendingIsOwed
