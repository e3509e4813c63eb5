SPECIFICATION Spec
CONSTANTS
  u1 = u1
  u2 = u2
  Users = {u1, u2}
  NoUser = NoUser
  Reqs = {r1, r2, r3}
  MayExpire = {1}
  InitOwner <- MCInitOwner
  MayDelete <- MCMayDelete
SYMMETRY ReqSymmetry
INVARIANTS
  TypeOK
  RotationSpendsToken
  RotationsOverlap
  LogoutEndsSessions
  DeletedUserInert
  NoDeadlock
PROPERTIES
  ImplementsLedger
