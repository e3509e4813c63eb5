SPECIFICATION Spec
CONSTANTS
  u1 = u1
  u2 = u2
  Users = {u1, u2}
  NoUser = NoUser
  Reqs = {r1, r2}
  MayExpire = {1}
  InitOwner <- MCInitOwner
  MayDelete <- MCMayDelete
INVARIANTS
  ClosingRevokesAll
