\* Two outputs that come, go and are turned on and off, and two lock clients.
SPECIFICATION Spec
CONSTANTS
  Outputs = {o1, o2}
  Locks = {l1, l2}
  NoLock = NoLock
  MaxHotplug = 5
INVARIANTS
  Consistent
  ConfirmedHidesDesktop
  PresentedStaysCovered
PROPERTIES
  StallsByRemoval
  LockAnswered
  PromiseKept
