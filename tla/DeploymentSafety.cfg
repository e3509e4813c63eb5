SPECIFICATION FairSpec
CONSTANTS
  Commits <- MCCommits
  Head <- MCHead
  SeedRev = 2
  Seeded = {reports}
  Threshold = 3
  MaxFaults = 3
INVARIANTS
  TypeOK
  ServesItsSchema
  DeletedRulesStayDeleted
  BehindOnlyByOverlap
PROPERTIES
  BackInService
  OutOfServiceWhileHanging
