SPECIFICATION Spec
CONSTANTS
  t1 = t1
  t2 = t2
  n1 = n1
  n2 = n2
  c1 = c1
  c2 = c2
  Tenants = {t1, t2}
  Numbers = {n1, n2}
  Customers = {c1, c2}
  Policies <- MCPolicies
  Contents <- MCContents
  Requests = {r1, r2}
  Decisions <- MCDecisions
  Browser = TRUE
  ProactiveLimit = 1
  MaxMessages = 2
  Scenarios <- MCScenarios
INVARIANTS StoreInv SupervisionInv EffectsAreAuthorised AnsweredOnce
PROPERTY RequestsEnd
CHECK_DEADLOCK FALSE
