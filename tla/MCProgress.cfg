SPECIFICATION PartsSpec
CONSTANTS
  Addrs <- MCAddrs
  Weight <- MCWeight
  Disabled = {}
  Conns = {"c1"}
  Forwards <- MCForwards
  MaxFlips = 2
  Slots = {1, 2}
  MaxDelay = 4
  MaxStreams = 1
  MaxFaults = 2
  StoreFails = FALSE
  Burst = 1
  Visitors = {"v1", "v2"}
  MaxStarts = 2
  LiveRelays = {"r1"}
  MaxEdits = 2
  MaxFails = 1
  NoRelay = NoRelay
  Domains = {"base", "s1"}
  BaseRow = "base"
  Drafts <- MCDrafts
  BaseForwards <- MCBaseForwards
  BaseNames = {"base"}
  Timers = {"t1"}
  Contended = {4}
  MaxEvents = 2
  None = None
  Tokens = {"t1", "t2"}
  Certs = {"c1", "c2"}
  CertOf <- MCCertOf
  Keys = {"k1", "k2"}
  Issued = {"t1", "c1", "k1"}
  Refreshers = {"loop", "timer"}
  LoopRefresher = "loop"
  MaxPolicy = 2
  MaxChanges = 1
  MaxTroubles = 1
  Threshold = 2
  Cooldown = 2
  MaxRuleEdits = 2
  MaxMishaps = 2
  TokenIds = {"t1", "t2"}
  FixedNames = {"n1", "n2"}
  FixedPorts = {1, 2}
  Fingerprints = {"k1"}
  Operators = {"o1", "o2"}
  MaxRequests = 2
  MaxStops = 1
  Loaders = {"loop", "push"}
  LoopLoader = "loop"
  FirstFiles = TRUE
  MaxUploads = 2
  MaxBreaks = 2
  SiteIds = {"s1"}
  HostNames = {"w"}
  WildcardOf <- MCWildcardOf
  ReloadIds = {"loop", "timer"}
  MaxCert = 2
  MaxOutages = 1
  NoSite = NoSite
  Streams = {"x1"}
  Replays = {"p1"}
  Viewers = {"w1"}
  MaxBody = 1
  MaxEntries = 2
  ChannelSize = 1
  MaxRequested = 2
  MaxViews = 2
 
PROPERTIES PoolRecovers AgentComesBack RelayNotices  NodeRoutes EdgeFollows RelayLearns OperatorsTold  RelayServesLatest EdgeForgetsSite InspectorGoesOn
CHECK_DEADLOCK FALSE
