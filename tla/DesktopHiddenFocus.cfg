\* One window and two workspaces are enough for a hidden active window.
SPECIFICATION Spec
CONSTANTS
  Views = {a}
  Xwayland = {}
  Popups = {}
  Modules = {}
  WinTabs = {}
  Dockapps = {}
  LockSurfaces = {}
  None = None
  NWorkspaces = 2
  FocusOnMap = FALSE
  Disturbances = {"elsewhere"}
PROPERTIES
  HiddenTakesNoFocus
