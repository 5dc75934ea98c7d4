CONSTANTS
  Browsers = {c1, c2}
  Edits = {e1, e2}
  MaxSaves = 2
  MaxFaults = 0
SPECIFICATION WorkspaceSpec
INVARIANT ConflictsAreReported
CHECK_DEADLOCK FALSE
