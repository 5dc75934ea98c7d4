CONSTANTS
  Browsers = {c1}
  Edits = {e1, e2}
  MaxSaves = 2
  MaxFaults = 1
SPECIFICATION WorkspaceSpec
PROPERTIES FailedSavesAreRetried
CHECK_DEADLOCK FALSE
