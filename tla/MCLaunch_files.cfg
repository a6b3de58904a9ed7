\* Two processes of any mode at a time, faults and kills.
SPECIFICATION FairSpec
CONSTANTS
  Fields = {"interval", "max_probe_fails", "probe_urls", "credential_file", "startup_task_name"}
  Custom = {"a"}
  Procs = {"p", "q"}
  Users = {"u", "w"}
  Faults = {"open", "write", "os", "kill"}
  MaxLaunches = 3
  Launches <- AllModes
INVARIANTS
  TypeOK
  ChildKeepsVault
  CredsBelongTogether
  VaultIsLastSave
PROPERTIES
  LaunchSeesLastSave
  ChildGuards
