\* Two callers, commands or tabs each; every bound is small enough for all of
\* the components together.
SPECIFICATION ComponentsSpec
CONSTANTS
  c1 = c1
  c2 = c2
  e1 = e1
  e2 = e2
  CounterModulus = 4
  Rule <- MCRule
  MaxHistory = 9
  Caller = {c1, c2}
  Email = {e1, e2}
  Kind = {"http"}
  WaitingRun = {"w1"}
  SessionDuration = 1
  RequestedTTL = {0, 1}
  DefaultTTL = 2
  ShortestTTL = 1
  LongestTTL = 2
  MaxTime = 1
  MaxSessions = 1
  MaxTokens = 1
  Request <- MCRequest
  LocationName <- MCLocationName
  MaxMonitors = 2
  Probe <- MCProbe
  Byte = {0, 1}
  MaxRedirects = 3
  MaxRead = 4
  BufferSize = 2
  MaxValues = 2
  MaxBytes = 3
  Answers <- MCAnswers
  Tab = {1, 2}
  Walker = 1
  Listable = {1, 2, 3}
  Matching = {2, 3}
  PageSize = 1
  MaxPages = 2
  MaxIssued = 1
  URL = {"u1", "u2"}
  MaxRefreshes = 2
  MaxNavigations = 2
  Command = {c1, c2}
  MaxCommands = 3
  Copier = {c1, c2}
  SourcePages = 2
  MaxWrites = 2
  Handler = {"h1"}
  Null = Null
  Nothing = Nothing
  Base = 2
  MaxUint16 = 3
  Families = {"access", "setup", "enrollment", "work", "health", "incidents"}
  Seed <- MCSeed
  New <- MCNew
  Instants <- MCInstants
  Interval = 8
  MaxAttempts = 2
SYMMETRY MCSymmetry
INVARIANTS
  StateFromHistory
  SingleAdministrator
  EnrolledOnce
  CreatedIsRead
  OnlyAllowedDialled
  PassedMeansAsserted
  AcceptableResult
  EveryMatchShown
  ForgottenIsEnded
  SchemaMatchesVersion
  ReadsBack
  ProfilesAgree
  ListedIsTaken
PROPERTIES
  NothingAfterRevocation
  ShowsWhereItIs
  WholeOrNothing
  StopsInOrder
CHECK_DEADLOCK FALSE
