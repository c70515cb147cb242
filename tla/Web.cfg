CONSTANTS
  Advisories <- SomeAdvisories
  Period = 1
  MaxClock = 2
  MaxWarningChanges = 1
  Events = {"e1", "e2"}
  Regions = {"r1"}
  MapAlerts = {"a1", "a2"}
  Unplaced = {"a2"}
  MaxAsks = 3
  MaxDataChanges = 2
  MaxViews = 1
  MaxPresses = 2
  MaxPublicLoads = 2
  Accounts = {"u1", "u2"}
  NoAccount = "nobody"
  MaxSwitches = 2
  MaxReads = 2
  MaxEvents = 2
  MaxStreams = 2
  MaxSignings = 3
  MaxQuestions = 2
  MaxVisits = 1
  Sections = {"Executive Overview", "AI Copilot", "Briefing"}
  Emails = {"a", "b"}
  MaxTokens = 2
  MaxLeaves = 2
  Places <- SomePlaces
  TrustedStreams = {"u1", "u2"}
  NoFeature <- Nowhere
  Sources = {"s"}
  MaxVersion = 3
  MaxSettingsLoads = 2
  MaxEdits = 2
  Users = {"a", "b"}
  MaxAdminLoads = 2
  MaxAdminCalls = 2
  PageAlerts = {"a1", "a2"}
  MaxWork = 2
SPECIFICATION Spec
INVARIANTS
  TypeOK
  CalmIsConfirmed
  FliesWhereAsked
  DrawnIsWanted
  PrivateIsMine
  TokenUsedOnce
  TextIsOfItsRequest
  BusyHasRequest
  ShownIsAsked
  ReadyIsProven
CHECK_DEADLOCK FALSE
