\* Two windows and a dock, with focus on map, and a panel.
SPECIFICATION WSpec
SYMMETRY Symmetry
CONSTANTS
  Views = {a, b, d}
  Xwayland = {d}
  Popups = {}
  Modules = {}
  WinTabs = {}
  Dockapps = {d}
  LockSurfaces = {}
  None = None
  NWorkspaces = 2
  FocusOnMap = TRUE
  Disturbances = {}
INVARIANTS
  PanelExact
  OneFocused
