CONSTANTS
  Values <- SomeValues
  Depth <- SomeDepth
  Chars <- SomeChars
  Numeral <- SomeNumeral
  Keys <- SomeKeys
  Sorted <- SomeSorted
  Torrents <- SomeTorrents
  HashSize = 2
  Swarms <- SomeSwarms
  Code <- SomeCode
  Reasons <- SomeReasons
SPECIFICATION Spec
INVARIANT ParserReadsBack
INVARIANT InfoHashIsOfInfo
INVARIANT LoadedAsWritten
INVARIANT PeersReadBack
