CONSTANTS
  Lengths <- SomeLengths
  PieceLengths = {1, 2, 3}
  Percents <- SomePercents
SPECIFICATION Spec
INVARIANT TypeOK
INVARIANT PiecesHaveBlocks
