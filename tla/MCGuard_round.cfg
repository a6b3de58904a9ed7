\* One guard under fair scheduling, over ten launch configurations.
SPECIFICATION FairSpec
CONSTANTS
  Configs <- AllConfigs
  CountCap = 3
INVARIANTS
  TypeOK
  ReauthJustified
  CredsLifecycle
  RoundOkMeansOnline
PROPERTIES
  ResetNeedsEvidence
  KeepsWatch
  OneShotEnds
  SignalStops
  SessionRecovers
  WlanRecovers
