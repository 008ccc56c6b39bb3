SPECIFICATION Spec
CONSTANTS
  Tenants = {t1}
  Limits = {0, 2}
  Resets = {0}
  Calls = {c1, c2}
  Tasks = {s1, s2}
  MaxCount = 3
  Faults = {"crash"}
SYMMETRY Symmetry
INVARIANT NeverOvercounts
CHECK_DEADLOCK FALSE
