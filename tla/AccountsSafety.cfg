SPECIFICATION Spec
CONSTANTS
  a = a
  b = b
  c = c
  n = n
  m = m
  Emails = {a, b, c}
  Names = {n, m}
  Reqs = {r1, r2, r3}
  NoJob = NoJob
  Unset = Unset
  Null = Null
  InitName = n
  InitMail <- MCInitMail
  Jobs <- MCJobs
SYMMETRY ReqSymmetry
INVARIANTS
  TypeOK
  EmailsUnique
  AnswersTruthful
  LoneWriterWins
  DeletedForGood
PROPERTIES
  ImplementsBook
