\* Two instances started at the same time.
SPECIFICATION Spec
CONSTANTS
  p1 = p1
  p2 = p2
  p3 = p3
  Procs <- TwoProcs
  Windows = TRUE
  PidReuse = FALSE
INVARIANT
  Mutex
