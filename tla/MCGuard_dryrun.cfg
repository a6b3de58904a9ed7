\* A dry run submits the login form.
SPECIFICATION Spec
CONSTANTS
  Configs <- OnceDryRun
  CountCap = 3
INVARIANT
  DryRunSubmitsNothing
