CONSTANTS
  svc = svc
  c1 = c1
  PopIds <- MCPopIds
  PopLists <- MCPopLists
  Services <- MCServices
  RouteTables <- MCRouteTables
  Clients <- MCClients
  IpHash <- MCIpHash
  MixOf <- MCMixOf
  MaxCalls = 3
  MaxLoads = 1
SPECIFICATION Spec
CHECK_DEADLOCK FALSE
INVARIANT OracleAnswerIsBestRoute
PROPERTY RoundRobinRotates
