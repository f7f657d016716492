\* Two accounts, two tenants, two concurrent requests.
SPECIFICATION Spec
CONSTANTS
  u1 = u1
  u2 = u2
  u3 = u3
  a = a
  b = b
  k1 = k1
  k2 = k2
  k3 = k3
  s1 = s1
  s2 = s2
  r1 = r1
  r2 = r2
  r3 = r3
  None = None
  User = {u1, u2, u3}
  Tenant = {a, b}
  Token = {k1, k2, k3}
  Signature = {s1, s2}
  Request = {r1, r2}
  Bodies <- MCBodies
  InitRoles <- MCRoles
  InitUsers = {u1, u2}
  InitPrimary <- MCPrimary
SYMMETRY MCSymmetry
CHECK_DEADLOCK FALSE
INVARIANTS
  PrimaryAssigned
  RotationIsAtomic
PROPERTIES
  LastAdminLeaves
