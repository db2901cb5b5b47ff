\* A window and a menu behind two lock surfaces, with every disturbance.
SPECIFICATION Spec
CONSTANTS
  Views = {a, p}
  Xwayland = {}
  Popups = {p}
  Modules = {}
  WinTabs = {}
  Dockapps = {}
  LockSurfaces = {k1, k2}
  None = None
  NWorkspaces = 2
  FocusOnMap = FALSE
  Disturbances = {"unmapped", "elsewhere", "unplug"}
INVARIANTS
  LockKeepsKeyboard
PROPERTIES
  LockFreezesFocus
