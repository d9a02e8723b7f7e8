CONSTANTS
  Networks <- MCNetworks
  Limit = 3
  Null = Null
SPECIFICATION FairSpec
INVARIANTS
  OneLineSelected
  OwnReport
  NewsTellsAllOnce
  FixturesShown
PROPERTIES
  ChoiceKept
  IdsFollowIncidents
  ShowsTfl
