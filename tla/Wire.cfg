CONSTANTS
  NPieces = 9
  Index = 8
  PieceLength = 5
  BLOCK_SIZE = 2
  BitFields <- SomeBitFields
  Haves = {0, 7, 8}
  MaxMessages = 3
SPECIFICATION Spec
INVARIANT MessagesArriveAsSent
INVARIANT AvailabilityIsAnnounced
INVARIANT BlocksAreOfFile
INVARIANT PieceIsOfFile
