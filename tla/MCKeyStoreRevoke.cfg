SPECIFICATION Spec
CONSTANTS
  TenantKeys = {k1}
  BootKeys = {b1}
  Hashes = {h1, h2, h3, h4}
  None = None
  Calls = {c1, c2}
  Clis = {}
  Faults = {}
SYMMETRY Symmetry
INVARIANT RevokedKeysFail
CHECK_DEADLOCK FALSE
