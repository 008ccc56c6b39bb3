SPECIFICATION Spec
CONSTANTS
  Tenants = {t1}
  Limits = {0, 2}
  Resets = {0}
  Calls = {c1, c2}
  Tasks = {s1, s2}
  MaxCount = 3
  Faults = {"fail", "cancel", "crash"}
SYMMETRY Symmetry
INVARIANTS TypeOK NeverOvercountsUnraced MirrorUnlessTorn
PROPERTY LedgerSpec
CHECK_DEADLOCK FALSE
