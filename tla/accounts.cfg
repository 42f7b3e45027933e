CONSTANTS
  Users = {u1, u2, u3}
  Tokens = {t1, t2, t3}
  Requests = {r1, r2}
  MaxRestarts = 1
SPECIFICATION Spec
SYMMETRY Symmetric
INVARIANTS
  TypeOK
  RemovalsAreAudited
PROPERTIES
  LastAdminFallsOnlyToARace
CHECK_DEADLOCK FALSE
