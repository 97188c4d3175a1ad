SPECIFICATION Spec
CONSTANTS
  Exports = {x1}
  Imports = {i1, i2}
  Readers = {g1, g2}
  Elsewhere = {k1}
  EnvOrder <- MCEnvOrder
  NameOrder <- MCNameOrder
  Credentials = {"hub", "edge"}
  Starts <- MCStarts
  Edits <- MCEdits
  Creates <- MCCreates
  MaxUser = 1
  As = {"p", "q"}
  Bad = {"bad"}
  Faults = TRUE
  None = None
SYMMETRY MCSymmetry
CHECK_DEADLOCK FALSE
INVARIANTS OneIdentity ProjectOfOne CarriesAll
