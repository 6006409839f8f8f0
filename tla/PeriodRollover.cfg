SPECIFICATION Rollover
CONSTANTS
  FirstDate = 736694
  LastDate = 746921
  HorizonWeeks = 26
INVARIANTS
  WeekIsIso
  RaisedWhereCounted
PROPERTIES
  ResetsAreSharp
  KeysFollowDays
CHECK_DEADLOCK FALSE
