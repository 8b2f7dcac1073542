\* Three windows, one of which may be the dock and one the application list.
SPECIFICATION Spec
CONSTANTS
  MaxWindows = 3
  MaxMenus = 2
INVARIANTS
  NoDanglingWindow
  FocusConsistent
  DockKnows
CHECK_DEADLOCK FALSE
