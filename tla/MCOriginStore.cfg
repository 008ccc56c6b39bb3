SPECIFICATION Spec
CONSTANTS
  Tenants = {t1, t2}
  Origins = {o1, o2}
  Ids = {i1, i2, i3, i4}
  None = None
  Calls = {c1, c2, c3}
  Faults = {"fail", "cancel", "crash"}
SYMMETRY Symmetry
INVARIANTS TypeOK OwnedOriginsPassCorsUntorn CachesFollowTable
CHECK_DEADLOCK FALSE
