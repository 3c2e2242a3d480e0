SPECIFICATION Spec
CONSTANTS
  r1 = r1  r2 = r2
  a1 = a1  a2 = a2
  t1 = t1  t2 = t2
  s1 = s1  s2 = s2  s3 = s3
  na = na  nb = nb
  d1 = d1
  Relays = {r1, r2}
  Agents = {a1, a2}
  Tokens = {t1, t2}
  Sessions = {s1, s2, s3}
  Names = {na}
  Domains = {}
  RelayOf <- MCRelayOf
  AgentOf <- MCAgentOf
  TokenOf <- MCTokenOf
  MaxOf <- MCMaxOf
  RangeOf <- MCRangeOf0
  PortMin = 1
  PortMax = 1
  BadNames = {}
  Batches <- MCBatchesAgents
  Reports <- MCReportsAgents
  AgentReports = {s1, s2}
  RelayStates = {"READY", "DRAINING"}
  Orders = {"DRAIN", "RESUME", "REANNOUNCE", "DISCONNECT_AGENT", "DISCONNECT_TUNNEL"}
  Directories <- MCNoResv
  Grace = 1
  RelayTimeout = 0
  OfflineRetention = 0
  DownRetention = 1
  MaxAge = 2
PROPERTIES AgentOwnersOnlyStop LostRelayClears
VIEW engine
