CONSTANTS
  a = a
  b = b
  Parts = {"sentence"}
  Gated = {TRUE, FALSE}
  MaxChunks = 2
  MaxRetained = 1
  MaxOutput = 2
  EventCap = 2
  Channels <- AllChannels
  UnitsPerExchange = 1
  OutputBytes = {1, 2}
  MaxExchanges = 2
  MaxContinuations = 2
  MaxOutputTotal = 4
  Action = {a, b}
  Registered = {b}
  Feeds <- ThreeUnits
  SubCap = 1
  LoopOutCap = 6
  MaxActions = 1
  MaxDedup = 2
  Texts <- ShortTexts
  MaxAssembly = 5
  Id = {a, b}
  Streams <- ShortStreams
  MaxUndecoded = 4
  MaxArgs = 3
  StreamCap = 1
SPECIFICATION RunSpec
INVARIANT FragmentIndependence
CHECK_DEADLOCK FALSE
