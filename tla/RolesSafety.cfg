SPECIFICATION Spec
CONSTANTS
  sue = sue
  ann = ann
  bob = bob
  Users = {sue, ann, bob}
  Reqs = {r1, r2, r3}
  Roles = {"user", "manager", "admin", "superadmin"}
  NoJob = NoJob
  InitRoles <- MCInitRoles
  Jobs <- MCJobs
SYMMETRY ReqSymmetry
INVARIANTS
  TypeOK
  ChangesJustified
  AnswersTruthful
  MatrixHolds
  SuperadminsComeFromSuperadmins
  SuperadminRemains
