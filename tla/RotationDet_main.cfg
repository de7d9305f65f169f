SPECIFICATION RotFairSpec
CONSTANTS
  AlarmRelease <- MCAlarmRelease
  TravelRelease <- MCTravelRelease
  EventMax <- MCEventMax
INVARIANTS
  DetectorAlive
PROPERTIES
  LineComesBack
  StoppedIsNoticed
