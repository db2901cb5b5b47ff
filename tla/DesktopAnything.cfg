\* A window, a module and a menu; requests name whatever they like.
SPECIFICATION Spec
CONSTANTS
  Views = {a, m, p}
  Xwayland = {m}
  Popups = {p}
  Modules = {m}
  WinTabs = {}
  Dockapps = {}
  LockSurfaces = {}
  None = None
  NWorkspaces = 2
  FocusOnMap = TRUE
  Disturbances = {"unmapped", "elsewhere"}
INVARIANTS
  Consistent
