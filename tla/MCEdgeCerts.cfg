SPECIFICATION CertsSpec
CONSTANTS
  SiteIds = {"s1"}
  HostNames = {"a", "w"}
  WildcardOf <- MCWildcardOf
  ReloadIds = {"loop"}
  MaxCert = 2
  MaxOutages = 2
  NoSite = NoSite
PROPERTY LatestServed
CHECK_DEADLOCK FALSE
