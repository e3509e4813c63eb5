SPECIFICATION PermSpec
CONSTANTS
  sue = sue
  ann = ann
  bob = bob
  docs = docs
  Users = {sue, ann, bob}
  Reqs = {r1}
  RuleReqs = {q1, q2}
  Readers = {d1}
  Roles = {"user", "manager", "admin", "superadmin"}
  NoJob = NoJob
  NoTriple = NoTriple
  InitRoles <- MCInitRoles
  Jobs <- MCJobs
  Triples <- MCTriples
  InitRules <- MCInitRules
  InitAllowed <- MCInitAllowed
  RuleJobs <- MCRuleJobs
  Wants <- MCWants
SYMMETRY RuleReqSymmetry
INVARIANTS
  PermTypeOK
  AccessJustified
  RulesByAdmins
