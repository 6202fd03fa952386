SPECIFICATION Spec
CONSTANTS
  Request = {r1, r2}
  Email = {e1, e2}
  Username = {u1, u2}
  Obfuscated = Obfuscated
  None = None
SYMMETRY Symmetry
INVARIANTS
  OneWinner
  UsersHaveAccounts
  ConflictIsReal
PROPERTIES
  OrphansStayOrphans
