CONSTANTS
  p1 = p1
  p2 = p2
  Peers <- TwoPeers
  NPieces = 2
  BlockCount <- OneBlock
  Sound = {0, 1}
  DiskFails = FALSE
  Bitfields <- EmptyOrAll
  Haves = {1}
  Eager <- OnePeer
SPECIFICATION SilentSpec
PROPERTY TerminateEndsThread
PROPERTY CompletedDownloadEnds
