CONSTANTS
  Header = 2
  Capacity = 9
  MaxHead = 18
  Kinds = {"bytes", "marker"}
SPECIFICATION Spec
INVARIANTS
  Windows
  Intact
  CachesExact
  NoLostWakeup
  RoomIsUsable
PROPERTIES
  ImplementsLog
