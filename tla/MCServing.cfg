SPECIFICATION ServingSpec
CONSTANTS
  a = a
  b = b
  c = c
  x = x
  None = None
  Clients = {c1}
  Ids <- MCIds
  Domains <- MCDomains
  Requests <- MCRequests
  Sizes = {1, 2, 4}
  MaxBytes = 3
  MaxModels = 2
  MaxClock = 4
  FirstDomain = a
  Handlers = {h1, h2}
  ChatRequests <- MCChatRequests
  RouterDomains <- MCRouterDomains
  Distributions <- MCDistributions
  HasTransformer = TRUE
  Threshold = 20
  MaxDomains = 2
  MinDomainScore = 12
  RouteScope = "last-turn"
INVARIANTS
  AccountingExact
  WithinBudget
  BlendFollowsRoute
  ClassifiesLastTurn
PROPERTIES
  ResidentModelStable
  ImplementsLRU
CHECK_DEADLOCK FALSE
