CONSTANTS
  Networks <- MCNetworks
  Limit = 3
  Null = Null
SPECIFICATION Spec
INVARIANTS
  NewsNeverEchoes
