CONSTANTS
  Lengths = {3}
  PieceLengths = {2}
  Percents = {100}
SPECIFICATION Spec
INVARIANT PiecesAreOfFile
