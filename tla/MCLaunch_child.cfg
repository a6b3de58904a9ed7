\* Background launches with one setting each, nothing going wrong.
SPECIFICATION Spec
CONSTANTS
  Fields = {"max_probe_fails", "retry_max", "log_file", "dry_run"}
  Custom = {"a"}
  Procs = {"p", "q"}
  Users = {"u"}
  Faults = {}
  MaxLaunches = 2
  Launches <- Background
INVARIANT
  ChildSameConfig
