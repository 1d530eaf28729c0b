SPECIFICATION Spec
CONSTANTS
  m = m
  None = None
  File = File
  Callers = {g1}
  Managers <- MCManagers
  Prompts <- MCPrompts
  Sizes = {2, 5}
  MaxEntries <- Two
  MaxBytes <- Four
  TTL <- One
  OnDisk <- MCManagers
  StripSWA = {}
  MaxClock = 2
INVARIANTS
  WithinLimits
  FilesAccounted
PROPERTIES
  ImplementsPrefixStore
