\* A window, a WinTabs window and a dock, with focus on map.
SPECIFICATION Spec
CONSTANTS
  Views = {a, t, d}
  Xwayland = {t, d}
  Popups = {}
  Modules = {}
  WinTabs = {t}
  Dockapps = {d}
  LockSurfaces = {}
  None = None
  NWorkspaces = 2
  FocusOnMap = TRUE
  Disturbances = {}
INVARIANTS
  KeyboardFollowsFocus
  Consistent
