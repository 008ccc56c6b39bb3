SPECIFICATION Spec
CONSTANTS
  TenantKeys = {k1}
  BootKeys = {b1, b2}
  Hashes = {h1, h2, h3, h4}
  None = None
  Calls = {c1, c2}
  Clis = {p1}
  Faults = {"fail", "cancel", "crash"}
SYMMETRY Symmetry
INVARIANTS DeadKeysFail IssuedKeysWork OneHashPerKey PanicNeedsOverlap OneBootstrapKey
PROPERTY DirectorySpec
CHECK_DEADLOCK FALSE
