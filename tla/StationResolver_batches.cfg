CONSTANTS
  Batches = {b1, b2}
  Searches = {s1}
  Naptans = {n1, n2}
  Known = {n1}
  plain = plain
  Plain = Plain
  hub = hub
  nomatch = nomatch
  blank = blank
  idPlain = idPlain
  idHub = idHub
  idChild = idChild
  Queries <- FewQueries
  Blank = blank
  CacheKey <- MCCacheKey
  StopIds <- MCStopIds
  TopMatch <- MCTopMatch
  Hubs <- MCHubs
  RailChild <- MCRailChild
  Concurrency = 2
  NameCacheMax = 1
  None = None
  Absent = Absent
SPECIFICATION LoopSpec
PROPERTIES
  ImplementsDirectory
  BatchReturns
INVARIANTS
  TypeOK
  PermitsAccounted
  NoLostWakeup
  NoneOutlivesRequest
  CachesSound
