CONSTANTS
  Batches = {b1}
  Searches = {s1, s2}
  Naptans = {n1}
  Known = {n1}
  plain = plain
  Plain = Plain
  hub = hub
  nomatch = nomatch
  blank = blank
  idPlain = idPlain
  idHub = idHub
  idChild = idChild
  Queries <- MCQueries
  Blank = blank
  CacheKey <- MCCacheKey
  StopIds <- MCStopIds
  TopMatch <- MCTopMatch
  Hubs <- MCHubs
  RailChild <- MCRailChild
  Concurrency = 1
  NameCacheMax = 2
  None = None
  Absent = Absent
SPECIFICATION FairSpec
INVARIANTS
  NameCacheBounded
PROPERTIES
  EvictsOldestWhenFull
  SearchReturns
