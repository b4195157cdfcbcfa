CONSTANTS
  a = a
  b = b
  host = host
  Parts = {"mailbox", "publisher", "tools", "gateway", "connection", "agent", "grok"}
  MaxCmds = 3
  CmdCap = 1
  MailCap = 1
  EndKinds = {"Completed"}
  Sender = {a, b}
  Host = host
  MaxItems = 1
  MaxBytes = 2
  EventBytes = {1, 2, 3}
  Dispatch = {a, b}
  Linked <- HandlerPairs
  Limits <- ShortLimits
  MaxQueued = 1
  Route = {a, b}
  Request = {a, b}
  MaxRoutes = 1
  MaxInFlight = 2
  MaxLocal = 1
  Kinds = {"http", "echo", "scripted", "hang", "claude", "zai"}
  Controller = {a, b}
  Wants <- MixedControl
  InCap = 1
  OutCap = 1
  MaxResponse = 2
  Profiles <- AgentProfiles
  UpdCap = 1
  OutCapacity = 1
  MaxPrompts = 1
  LineKinds = {"update", "other", "oversize"}
  MaxLines <- AgentLines
  Caller = {a, b}
  SidChoices <- Sessions
  MaxPending = 1
  MaxSessions = 1
  SessionCap = 1
  WriteCap = 1
  MaxCalls = 2
SPECIFICATION WorkSafety
INVARIANT BytesAccounted
INVARIANT NoLostWakeup
INVARIANT FenceComplete
INVARIANT CompletionAgrees
INVARIANT NoOvercommit
INVARIANT TeardownComplete
INVARIANT AnswerIsOwn
 
PROPERTY EndsHonest
CHECK_DEADLOCK FALSE
