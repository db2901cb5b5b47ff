\* An xdg window, an X11 window and a menu on two workspaces, with the lock but
\* without lock surfaces; requests only name windows of this workspace.
SPECIFICATION Spec
CONSTANTS
  Views = {a, x, p}
  Xwayland = {x}
  Popups = {p}
  Modules = {}
  WinTabs = {}
  Dockapps = {}
  LockSurfaces = {}
  None = None
  NWorkspaces = 2
  FocusOnMap = FALSE
  Disturbances = {}
INVARIANTS
  ActiveOnScreen
  KeyboardFollowsFocus
PROPERTIES
  DesksKeepIconified
