CONSTANTS
  p1 = p1
  p2 = p2
  Peers <- TwoPeers
  NPieces = 2
  BlockCount <- TwoBlocks
  Sound = {0, 1}
  DiskFails = TRUE
  Bitfields <- Seeds
  Haves = {}
  Eager <- TwoPeers
SPECIFICATION Spec
SYMMETRY PeerSymmetry
INVARIANT TypeOK
INVARIANT ExclusiveOwnership
INVARIANT OnlyVerifiedOnDisk
INVARIANT RequestFindsBlock
INVARIANT AnswerFitsPiece
INVARIANT InProgressNeverWraps
INVARIANT ReportedDownloadIsComplete
INVARIANT OneConnectionPerThread
PROPERTY SavedIsFinal
PROPERTY ImplementsLedger
PROPERTY ImplementsSession
