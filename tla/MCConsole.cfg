SPECIFICATION FairSpec
CONSTANTS
  Sessions <- BothSessions
  Typed = {97, 255}
  Buttons = {0, 7}
  Slots = {0, 1}
  Cuts = {2, 4}
INVARIANTS
  TypeOK
  ControllerShowsButtons
  LoadRestores
PROPERTIES
  StoresPermitted
  FetchesAligned
  QuitEnds
CHECK_DEADLOCK FALSE
