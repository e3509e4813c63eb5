SPECIFICATION Spec
CONSTANTS
  t1 = t1
  t2 = t2
  ghost = ghost
  Triples = {t1, t2}
  Reqs = {r1, r2}
  NoTriple = NoTriple
  NoJob = NoJob
  InitRules <- MCInitRules
  InitAllowed <- MCInitAllowed
  Jobs <- MCJobs
INVARIANTS
  NoDuplicateRules
