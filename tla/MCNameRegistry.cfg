SPECIFICATION Spec
CONSTANTS
  s1 = s1  s2 = s2  s3 = s3
  a1 = a1  a2 = a2
  t1 = t1  t2 = t2
  na = na  nb = nb
  d1 = d1
  NoOne = NoOne
  Sessions = {s1, s2, s3}
  Tokens = {t1, t2}
  Names = {na, nb}
  Domains = {d1}
  AgentOf <- MCAgentOf
  TokenOf <- MCTokenOf
  MaxOf <- MCMaxOf
  PolicyOf <- MCPolicyOf
  PortMin = 1
  PortMax = 2
  Busy = {}
  BadNames = {}
  Requests <- MCRequests
  Reservable = {}
  Revocable = {}
  Modes = {FALSE}
  Objects = {1, 2, 3, 4}
VIEW View
CHECK_DEADLOCK FALSE
INVARIANT HoldingsOwned
PROPERTIES OwnerOnlyStops LeasesKept
