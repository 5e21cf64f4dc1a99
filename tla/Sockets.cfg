CONSTANTS
  c1 = c1
  c2 = c2
  c3 = c3
  Connections <- ThreeConnections
  Descriptors = {3, 4, 5, 6}
  OutputFile = 3
SPECIFICATION Spec
SYMMETRY ConnectionSymmetry
INVARIANT TypeOK
INVARIANT SocketIsOwn
INVARIANT RoundLeavesNothing
PROPERTY OnlyUnrunClosesFile
