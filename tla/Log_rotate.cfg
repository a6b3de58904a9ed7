\* One guard; the log and its backups may be held open when they are rotated.
SPECIFICATION Spec
CONSTANTS
  MaxSize = 3
  MaxBackups = 3
  Lens = {1, 2}
  Faults = {"rename", "shift"}
  MaxLines = 6
INVARIANTS
  TypeOK
  CollapsedTail
  SizeBound
  FilesInOrder
PROPERTY
  KeepsJournal
