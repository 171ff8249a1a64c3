\* Every pair of filters and of handler steps; responses of three units, room for two.
SPECIFICATION FairSpec
CONSTANTS
  Filters <- AllFilters
  Handlers <- AllHandlers
  Size = 3
  Capacity = 2
INVARIANTS TypeOK WholeResponses EveryAnswerGiven OnlyTheseKill
PROPERTY ThreadReleased
CHECK_DEADLOCK FALSE
