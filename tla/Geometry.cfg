\* A Wayland and an X11 window on an output of six units, one of them reserved.
SPECIFICATION Spec
CONSTANTS
  Views = {a, x}
  None = None
  Xwayland = {x}
  Buttons = {"left", "right"}
  Height = 6
  Top = 1
  Title = 1
  Border = 0
  Fallback = 2
  Inset = 2
  Step = 1
  Wrap = 2
  MinHeight = 2
  Sizes = {3}
  Cursors = {1, 4}
  Places = {0, 4}
  Margin = 3
  MaxEvents = 4
INVARIANTS
  Consistent
  GrabHolds
  GrabNeedsButton
  ResizingTold
  X11Agrees
PROPERTIES
  RestoredHome
  PlacedInView
