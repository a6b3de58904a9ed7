\* Logins and probes against a server that may answer, fail, stall or act late.
SPECIFICATION FairSpec
CONSTANT
  Jobs <- AllJobs
INVARIANTS
  TypeOK
  VerdictIsEarned
  LoginEndsInTime
PROPERTIES
  PausesDouble
  KeepsPromise
  Returns
