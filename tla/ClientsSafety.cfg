SPECIFICATION FairClientsSpec
CONSTANTS
  u1 = u1
  phone = phone
  laptop = laptop
  Users = {u1}
  NoUser = NoUser
  Reqs = {r1, r2, r3}
  NoReq = NoReq
  Clients = {phone, laptop}
  Patient = {laptop}
  MayExpire = {}
  InitOwner <- MCInitOwner
  MayDelete <- MCMayDelete
  UserOf <- MCUserOf
  FirstToken <- MCFirstToken
INVARIANTS
  ClientsTypeOK
  OrphansBounded
  HeldTokensWork
PROPERTIES
  EveryRequestAnswered
