\* Windows, instances started one at a time, ids of dead instances reused.
SPECIFICATION SerialSpec
CONSTANTS
  p1 = p1
  p2 = p2
  p3 = p3
  Procs <- ThreeProcs
  Windows = TRUE
  PidReuse = TRUE
INVARIANTS
  TypeOK
  Mutex
  HolderNamed
  ReturnCleansUp
PROPERTIES
  RefusalJustified
