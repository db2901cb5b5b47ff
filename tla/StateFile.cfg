\* Two outputs, three workspaces, and files that name a part of it.
SPECIFICATION Spec
SYMMETRY Symmetry
CONSTANTS
  Outputs = {a, b}
  None = None
  Preferred = Preferred
  Mode = Mode
  Torn = Torn
  Places = {0}
  Default = 3
  Counts = {2}
  MaxEvents = 5
INVARIANTS
  Consistent
  Restored
PROPERTIES
  EntriesKept
  PlacedBack
CHECK_DEADLOCK FALSE
