\* A probe with the default timeouts.
SPECIFICATION FairSpec
CONSTANT
  Jobs <- DefaultProbe
INVARIANT
  ProbeTimeoutIndependent
