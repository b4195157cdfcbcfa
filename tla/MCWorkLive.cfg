CONSTANTS
  a = a
  b = b
  host = host
  Parts = {"publisher", "tools", "gateway", "connection"}
  MaxCmds = 2
  CmdCap = 1
  MailCap = 1
  EndKinds = {"Completed"}
  Sender = {a, b}
  Host = host
  MaxItems = 1
  MaxBytes = 2
  EventBytes = {1, 2, 3}
  Dispatch = {a, b}
  Linked <- MixedPairs
  Limits <- OneLimit
  MaxQueued = 1
  Route = {a}
  Request = {a, b}
  MaxRoutes = 1
  MaxInFlight = 2
  MaxLocal = 1
  Kinds = {"http"}
  Controller = {a}
  Wants <- AnyControl
  InCap = 1
  OutCap = 1
  MaxResponse = 1
  Profiles <- AgyOnly
  UpdCap = 1
  OutCapacity = 1
  MaxPrompts = 1
  LineKinds = {"update"}
  MaxLines <- FourLines
  Caller = {a, b}
  SidChoices <- Sessions
  MaxPending = 1
  MaxSessions = 1
  SessionCap = 1
  WriteCap = 1
  MaxCalls = 2
SPECIFICATION WorkSpec
PROPERTY PublisherStops
PROPERTY DispatchEnds
PROPERTY RequestsAnswered
PROPERTY HttpEnds
CHECK_DEADLOCK FALSE
