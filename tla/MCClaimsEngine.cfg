SPECIFICATION Spec
CONSTANTS
  r1 = r1  r2 = r2
  a1 = a1  a2 = a2
  t1 = t1  t2 = t2
  s1 = s1  s2 = s2  s3 = s3
  na = na  nb = nb
  d1 = d1
  Relays = {r1, r2}
  Agents = {a1, a2}
  Tokens = {t1, t2}
  Sessions = {s1, s2, s3}
  Names = {na, nb}
  Domains = {d1}
  RelayOf <- MCRelayOf
  AgentOf <- MCAgentOf
  TokenOf <- MCTokenOf
  MaxOf <- MCMaxOf
  RangeOf <- MCRangeOf
  PortMin = 1
  PortMax = 2
  BadNames = {}
  Batches <- MCBatches
  Reports <- MCReports
  AgentReports = {}
  RelayStates = {"READY"}
  Orders = {}
  Directories <- MCDirectories
  Grace = 1
  RelayTimeout = 0
  OfflineRetention = 0
  DownRetention = 1
  MaxAge = 2
INVARIANT IndexSound
PROPERTIES OnlyAnnounceCollides CapHolds OwnersOnlyStop GraceHonoured TakeoverTold
VIEW engine
