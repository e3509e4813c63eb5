SPECIFICATION Spec
CONSTANTS
  t1 = t1
  t2 = t2
  ghost = ghost
  Triples = {t1, t2}
  Reqs = {r1, r2, r3}
  NoTriple = NoTriple
  NoJob = NoJob
  InitRules <- MCInitRules
  InitAllowed <- MCInitAllowed
  Jobs <- MCJobs
SYMMETRY ReqSymmetry
INVARIANTS
  TypeOK
  AnswersTruthful
  DuplicatesOverlap
  RevocationBites
  Inv
