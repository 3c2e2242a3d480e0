SPECIFICATION PartsSpec
CONSTANTS
  Addrs <- MCAddrs
  Weight <- MCWeight
  Disabled = {}
  Conns = {"c1", "c2"}
  Forwards <- MCForwards
  MaxFlips = 1
  Visitors = {"v1", "v2"}
  MaxStarts = 2
  Relays = {"r1", "r2"}
  Addresses = {"a1", "a2", "a3"}
  AllowIPs = {}
  DenyIPs = {"a2"}
  EdgeDenyIPs = {"a3"}
  ClusterAddr = "node"
  MaxMoves = 2
  None = None
  Emails = {"u1", "u2"}
  Rules <- MCRules
  MaxUpsets = 3
  MaxCodes = 2
  PortNames = {"n1", "n2"}
  MaxPort = 2
  MaxIncidents = 1
  TokenIds = {"t1", "t2"}
  FixedNames = {"n1", "n2"}
  FixedPorts = {1, 2}
  Fingerprints = {"k1"}
  Operators = {"o1", "o2"}
  MaxRequests = 3
  MaxStops = 1
  IPs = {"i1", "i2"}
  Cost = 2
  BurstUnits = 3
  SweepEvery = 2
  MaxNow = 6
  Streams = {"x1"}
  Replays = {"p1"}
  Viewers = {"w1"}
  MaxBody = 1
  MaxEntries = 2
  ChannelSize = 1
  MaxRequested = 3
  MaxViews = 2
  AgentTokens = {"t1", "t2"}
  Issuers = {"o1", "o2"}
  MaxSerial = 3
  MaxIdentityStops = 2
INVARIANTS ActiveCounts RoundRobinShare NothingLeft   ServedAsVerified NoOrphanNames ViewersTold IssuedAccepted
PROPERTIES PortKept IsTokenBucket
CHECK_DEADLOCK FALSE
