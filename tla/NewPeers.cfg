CONSTANTS
  p1 = p1
  p2 = p2
  Peers <- OnePeer
  NPieces = 2
  BlockCount <- OneBlock
  Sound = {0, 1}
  DiskFails = FALSE
  Bitfields <- Seeds
  Haves = {}
  Eager <- OnePeer
SPECIFICATION Spec
PROPERTY NewPeersOnlyWhenStalled
