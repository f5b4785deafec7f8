SPECIFICATION MCSpec
CONSTANTS
  None = None
  t1 = t1
  t2 = t2
  Tenant = {t1, t2}
  Request = {r1, r2, r3}
  TenantLimit <- MCTenantLimit
  MaxActive <- MCMaxActive
  Timeouts = TRUE
  Caller = {c1, c2, c3}
  Nobody = Nobody
  MaxOpens = 2
INVARIANTS
  TypeOK SlotsMatch StartsUnlessAbandoned
  HandleTypeOK NoUseAfterClose NothingLeaks
PROPERTIES
  EveryRequestIsAnswered
  CloseEnds
