SPECIFICATION ClusterFairSpec
CONSTANTS
  r1 = r1  r2 = r2
  a1 = a1  a2 = a2
  t1 = t1
  s1 = s1  s2 = s2  s3 = s3
  na = na
  Relays = {r1}
  Agents = {a1}
  Tokens = {t1}
  Sessions = {s1}
  Names = {na}
  Domains = {}
  RelayOf <- MCRelayOf
  AgentOf <- MCAgentOf
  TokenOf <- MCTokenOf
  MaxOf <- MCMaxOf
  RangeOf <- MCRangeOf
  PortMin = 1
  PortMax = 1
  BadNames = {}
  Batches = {}
  Reports <- MCReports1
  AgentReports = {s1}
  RelayStates = {}
  Orders = {"DRAIN", "RESUME"}
  Directories <- MCNoResv
  Grace = 1
  RelayTimeout = 0
  OfflineRetention = 0
  DownRetention = 0
  MaxAge = 1
  SpecOf <- MCSpecOf
  Registering = {}
  MayRestart = {r1, "registry"}
  Beating = {r1}
  Revocable = {t1}
  Lossy = TRUE
  MaxTries = 1
  MaxNet = 2
  MaxEvents = 2
PROPERTY StateSettles
